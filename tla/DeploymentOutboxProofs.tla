----------------------- MODULE DeploymentOutboxProofs -----------------------
(***************************************************************************)
(* What is proved about DeploymentOutbox for any number of workers,        *)
(* requests, applications and connections.                                 *)
(***************************************************************************)
EXTENDS DeploymentOutbox, TLAPS

(* What a request has done so far, by where it is: the transaction holds    *)
(* the row once it was inserted, and the row and its job at COMMIT.         *)
Frame(w) ==
  /\ pc[w] = "idle" <=> status[w] # "open"
  /\ pc[w] \in {"idle", "begin"} => tx[w] = NoTx
  /\ pc[w] = "insert" => tx[w] = InTx("open", {}, {})
  /\ pc[w] = "enqueue" => tx[w] = InTx("open", {req[w]}, {})
  /\ pc[w] = "commit" => tx[w] = InTx("open", {req[w]}, {req[w]})
  /\ tx[w].wrote \subseteq {req[w]}

Frames == \A w \in Workers : Frame(w)

(* A unit of work nobody waits for holds a row and its job.                 *)
LimboWhole == \A t \in limbo : \E r \in Requests : t = InTx("open", {r}, {r})

(* An identifier belongs to one open request, one unanswered COMMIT or one  *)
(* row, and to none of the others.                                          *)
OpenIdsFresh ==
  \A w \in Workers :
    pc[w] # "idle" =>
      /\ req[w].id \in issued
      /\ \A v \in Workers : (pc[v] # "idle" /\ req[v].id = req[w].id) => v = w
      /\ \A t \in limbo : \A r \in t.wrote : r.id # req[w].id
      /\ \A row \in ledger : row.id # req[w].id

LimboIdsFresh ==
  \A t \in limbo : \A r \in t.wrote :
    /\ r.id \in issued
    /\ \A u \in limbo : \A s \in u.wrote : s.id = r.id => u = t
    /\ \A row \in ledger : row.id # r.id

RowIdsIssued == \A row \in ledger : row.id \in issued

(* Foreign keys, of committed rows and of the rows transactions hold.       *)
References ==
  /\ \A row \in ledger : row.app \in parents
  /\ \A w \in Workers : \A r \in tx[w].wrote : r.app \in parents
  /\ \A t \in limbo : \A r \in t.wrote : r.app \in parents

IInv ==
  /\ TypeOK
  /\ Frames
  /\ LimboWhole
  /\ OpenIdsFresh
  /\ LimboIdsFresh
  /\ RowIdsIssued
  /\ References
  /\ Paired
  /\ CreatedIsDurable

-----------------------------------------------------------------------------
LEMMA InvInit == Init => IInv
  BY OutboxAssumption DEF Init, IInv, TypeOK, Frames, Frame, LimboWhole, OpenIdsFresh,
     LimboIdsFresh, RowIdsIssued, References, Paired, CreatedIsDurable, NoTx, Requests, Rows

(* Moving on and answering keep the per-worker variables in range.          *)
LEMMA GotoTypes ==
  ASSUME TypeOK, NEW w \in Workers,
         NEW label \in {"begin", "insert", "enqueue", "rollback", "commit"},
         NEW state \in {"open", "aborted"},
         NEW wrote \in SUBSET Requests, NEW sent \in SUBSET Requests,
         Goto(w, label, InTx(state, wrote, sent)), UNCHANGED <<tables, limbo>>
  PROVE  TypeOK'
  BY DEF TypeOK, Goto, InTx, tables

LEMMA AnswerTypes ==
  ASSUME TypeOK, NEW w \in Workers,
         NEW answer \in {"none", "bad_request", "failed", "created"}, Answer(w, answer)
  PROVE  /\ issued' \subseteq Ids
         /\ pc' \in [Workers -> {"idle", "begin", "insert", "enqueue", "rollback", "commit"}]
         /\ req' \in [Workers -> Requests]
         /\ tx' \in [Workers -> [state : {"none", "open", "aborted"},
                                 wrote : SUBSET Requests, sent : SUBSET Requests]]
         /\ status' \in [Workers -> {"none", "open", "bad_request", "failed", "created"}]
  BY DEF TypeOK, Answer, NoTx

LEMMA TypeStep == TypeOK /\ [Next]_vars => TypeOK'
<1> SUFFICES ASSUME TypeOK, [Next]_vars PROVE TypeOK'
  OBVIOUS
<1>1. CASE UNCHANGED vars
  BY <1>1 DEF vars, tables, TypeOK
<1>2. ASSUME NEW w \in Workers, Step(w) PROVE TypeOK'
  <2>0. /\ req[w] \in Requests
        /\ tx[w] \in [state : {"none", "open", "aborted"},
                      wrote : SUBSET Requests, sent : SUBSET Requests]
        /\ Requests \subseteq Rows
    BY DEF TypeOK, Requests, Rows
  <2>1. CASE Begin(w)
    BY <2>1, GotoTypes DEF Begin
  <2>2. CASE BeginFails(w)
    BY <2>2, AnswerTypes DEF BeginFails, TypeOK, tables
  <2>3. CASE Insert(w)
    BY <2>3, <2>0, GotoTypes DEF Insert
  <2>4. CASE InsertFails(w)
    BY <2>4, GotoTypes DEF InsertFails
  <2>5. CASE Enqueue(w)
    BY <2>5, <2>0, GotoTypes DEF Enqueue
  <2>6. CASE EnqueueFails(w)
    BY <2>6, <2>0, GotoTypes DEF EnqueueFails
  <2>7. CASE Rollback(w)
    BY <2>7, AnswerTypes DEF Rollback, TypeOK, tables
  <2>8. CASE Commit(w)
    BY <2>8, <2>0, AnswerTypes DEF Commit, TypeOK
  <2>9. CASE CommitFails(w)
    BY <2>9, AnswerTypes DEF CommitFails, TypeOK, tables
  <2>10. CASE CommitUnanswered(w)
    BY <2>10, <2>0, AnswerTypes DEF CommitUnanswered, TypeOK, tables
  <2>q. QED
    BY <1>2, <2>1, <2>2, <2>3, <2>4, <2>5, <2>6, <2>7, <2>8, <2>9, <2>10 DEF Step, Advance
<1>3. ASSUME NEW w \in Workers, Refuse(w) \/ Disconnect(w) PROVE TypeOK'
  BY <1>3, AnswerTypes DEF Refuse, Disconnect, TypeOK, tables
<1>4. ASSUME NEW w \in Workers, NEW id \in Ids, NEW app \in Apps, NEW image \in Images,
             Receive(w, id, app, image)
      PROVE  TypeOK'
  BY <1>4 DEF Receive, Actor, TypeOK, tables, Requests
<1>5. ASSUME NEW t \in limbo, Land(t) \/ Vanish(t) PROVE TypeOK'
  <2>1. Requests \subseteq Rows
    BY DEF Requests, Rows
  <2>q. QED
    BY <1>5, <2>1 DEF Land, Vanish, TypeOK, tables
<1>6. ASSUME NEW app \in Apps, DeleteApp(app) PROVE TypeOK'
  BY <1>6 DEF DeleteApp, TypeOK
<1>7. CASE DeleteUser
  <2>1. \A r \in Rows : [r EXCEPT !.user = None] \in Rows
    BY DEF Rows
  <2>q. QED
    BY <1>7, <2>1 DEF DeleteUser, TypeOK
<1>q. QED
  BY <1>1, <1>2, <1>3, <1>4, <1>5, <1>6, <1>7 DEF Next

(* Every variable stays in its range.                                       *)
THEOREM TypeCorrect == Spec => []TypeOK
<1>1. Init => TypeOK
  BY InvInit DEF IInv
<1>q. QED
  BY <1>1, TypeStep, PTL DEF Spec

-----------------------------------------------------------------------------
(* The conjuncts that only the tables and the open requests bear on.        *)
Rest == LimboWhole /\ OpenIdsFresh /\ LimboIdsFresh /\ RowIdsIssued /\ References
        /\ Paired /\ CreatedIsDurable

LEMMA TablesKept ==
  ASSUME LimboWhole, LimboIdsFresh, RowIdsIssued, UNCHANGED <<ledger, limbo, issued>>
  PROVE  LimboWhole' /\ LimboIdsFresh' /\ RowIdsIssued'
<1>1. LimboWhole'
  BY DEF LimboWhole
<1>2. LimboIdsFresh'
  BY DEF LimboIdsFresh
<1>3. RowIdsIssued'
  BY DEF RowIdsIssued
<1>q. QED
  BY <1>1, <1>2, <1>3

(* A step inside a unit of work changes nothing but where the request is.   *)
LEMMA GotoKeeps ==
  ASSUME IInv, NEW w \in Workers, NEW label, NEW t,
         pc[w] # "idle", label # "idle", Goto(w, label, t), UNCHANGED <<tables, limbo>>,
         \A r \in t.wrote : r.app \in parents
  PROVE  Rest'
<1> USE DEF IInv
<1>1. pc' = [pc EXCEPT ![w] = label] /\ UNCHANGED <<req, status, issued, ledger, jobs, limbo>>
  BY DEF Goto, tables
<1>2. OpenIdsFresh'
  BY <1>1 DEF OpenIdsFresh, TypeOK
<1>3. LimboWhole' /\ LimboIdsFresh' /\ RowIdsIssued'
  BY <1>1, TablesKept
<1>5. Paired' /\ CreatedIsDurable'
  BY <1>1 DEF Paired, CreatedIsDurable, IsFor
<1>4. References'
  BY DEF Goto, tables, References, TypeOK
<1>q. QED
  BY <1>2, <1>3, <1>4, <1>5 DEF Rest

(* A unit of work that ends without COMMIT leaves the tables alone.         *)
LEMMA AnswerKeeps ==
  ASSUME IInv, NEW w \in Workers, NEW answer \in {"none", "bad_request", "failed"},
         Answer(w, answer), UNCHANGED <<tables, limbo>>
  PROVE  Rest' /\ Frames'
<1> USE DEF IInv
<1>1. /\ pc' = [pc EXCEPT ![w] = "idle"] /\ tx' = [tx EXCEPT ![w] = NoTx]
      /\ status' = [status EXCEPT ![w] = answer]
      /\ UNCHANGED <<parents, ledger, jobs, limbo, req, issued>>
  BY DEF Answer, tables
<1>2. OpenIdsFresh' /\ CreatedIsDurable'
  BY <1>1 DEF OpenIdsFresh, CreatedIsDurable, IsFor, TypeOK
<1>3. LimboWhole' /\ LimboIdsFresh' /\ RowIdsIssued' /\ Paired'
  <2>1. LimboWhole' /\ LimboIdsFresh' /\ RowIdsIssued'
    BY <1>1, TablesKept
  <2>q. QED
    BY <1>1, <2>1 DEF Paired, IsFor
<1>4. References'
  BY <1>1 DEF References, NoTx, TypeOK
<1>5. Frames'
  BY <1>1 DEF Frames, Frame, NoTx, TypeOK
<1>q. QED
  BY <1>2, <1>3, <1>4, <1>5 DEF Rest

LEMMA InvCommit ==
  ASSUME IInv, NEW w \in Workers, Commit(w)
  PROVE  Rest' /\ Frames'
<1> USE DEF IInv
<1>1. /\ ledger' = ledger \cup {req[w]} /\ jobs' = jobs \cup {req[w]}
      /\ pc' = [pc EXCEPT ![w] = "idle"] /\ tx' = [tx EXCEPT ![w] = NoTx]
      /\ status' = [status EXCEPT ![w] = "created"]
      /\ UNCHANGED <<parents, limbo, req, issued>>
      /\ pc[w] # "idle" /\ req[w] \in tx[w].wrote /\ req[w] \in Requests
  BY DEF Commit, Answer, Frames, Frame, InTx, TypeOK
<1>2. OpenIdsFresh'
  BY <1>1 DEF OpenIdsFresh, TypeOK
<1>3. LimboIdsFresh' /\ LimboWhole' /\ RowIdsIssued'
  <2>1. LimboIdsFresh'
    BY <1>1 DEF LimboIdsFresh, OpenIdsFresh
  <2>2. LimboWhole'
    BY <1>1 DEF LimboWhole
  <2>3. RowIdsIssued'
    BY <1>1 DEF RowIdsIssued, OpenIdsFresh
  <2>q. QED
    BY <2>1, <2>2, <2>3
<1>4. References'
  BY <1>1 DEF References, NoTx, TypeOK
<1>5. IsFor(req[w], req[w])
  BY <1>1 DEF IsFor, Requests
<1>6. Paired'
  BY <1>1, <1>5 DEF Paired, OpenIdsFresh, IsFor
<1>7. CreatedIsDurable'
  BY <1>1, <1>5 DEF CreatedIsDurable, IsFor, TypeOK
<1>8. Frames'
  BY <1>1 DEF Frames, Frame, NoTx, TypeOK
<1>q. QED
  BY <1>2, <1>3, <1>4, <1>6, <1>7, <1>8 DEF Rest

LEMMA InvUnanswered ==
  ASSUME IInv, NEW w \in Workers, CommitUnanswered(w)
  PROVE  Rest' /\ Frames'
<1> USE DEF IInv
<1> DEFINE t == InTx("open", {req[w]}, {req[w]})
<1>1. PICK answer \in {"failed", "none"} :
        /\ limbo' = limbo \cup {t} /\ t.wrote = {req[w]}
        /\ pc' = [pc EXCEPT ![w] = "idle"] /\ tx' = [tx EXCEPT ![w] = NoTx]
        /\ status' = [status EXCEPT ![w] = answer]
        /\ UNCHANGED <<parents, ledger, jobs, req, issued>>
        /\ pc[w] # "idle" /\ req[w] \in tx[w].wrote /\ req[w] \in Requests
  <2>1. pc[w] = "commit" /\ tx[w] = t /\ t.wrote = {req[w]} /\ req[w] \in Requests
    BY DEF CommitUnanswered, Frames, Frame, InTx, TypeOK
  <2>q. QED
    BY <2>1 DEF CommitUnanswered, Answer, tables
<1> HIDE DEF t
<1>2. OpenIdsFresh'
  BY <1>1 DEF OpenIdsFresh, TypeOK
<1>3. LimboIdsFresh' /\ RowIdsIssued'
  BY <1>1 DEF LimboIdsFresh, RowIdsIssued, OpenIdsFresh
<1>4. LimboWhole'
  BY <1>1 DEF LimboWhole, t
<1>5. References'
  BY <1>1 DEF References, NoTx, TypeOK
<1>6. Paired' /\ CreatedIsDurable'
  BY <1>1 DEF Paired, CreatedIsDurable, IsFor, TypeOK
<1>7. Frames'
  BY <1>1 DEF Frames, Frame, NoTx, TypeOK
<1>q. QED
  BY <1>2, <1>3, <1>4, <1>5, <1>6, <1>7 DEF Rest

LEMMA InvWorker ==
  ASSUME IInv, NEW w \in Workers, Step(w) \/ Refuse(w) \/ Disconnect(w)
  PROVE  Rest' /\ Frames'
<1> USE DEF IInv
<1>1. CASE Begin(w)
  <2>1. Frames'
    BY <1>1 DEF Begin, Goto, InTx, Frames, Frame, TypeOK
  <2>q. QED
    BY <1>1, <2>1, GotoKeeps DEF Begin, InTx
<1>2. CASE Insert(w)
  <2>1. Frames'
    BY <1>2 DEF Insert, Goto, InTx, Frames, Frame, TypeOK
  <2>q. QED
    BY <1>2, <2>1, GotoKeeps DEF Insert, InTx
<1>3. CASE InsertFails(w)
  <2>1. Frames'
    BY <1>3 DEF InsertFails, Goto, InTx, Frames, Frame, TypeOK
  <2>q. QED
    BY <1>3, <2>1, GotoKeeps DEF InsertFails, InTx
<1>4. CASE Enqueue(w)
  <2>0. tx[w].wrote = {req[w]}
    <3>1. tx[w] = InTx("open", {req[w]}, {})
      BY <1>4 DEF Enqueue, Frames, Frame
    <3>q. QED
      BY <3>1 DEF InTx
  <2>1. Frames'
    BY <1>4, <2>0 DEF Enqueue, Goto, InTx, Frames, Frame, TypeOK
  <2>q. QED
    BY <1>4, <2>1, GotoKeeps DEF Enqueue, InTx, References
<1>5. CASE EnqueueFails(w)
  <2>1. Frames'
    BY <1>5 DEF EnqueueFails, Goto, InTx, Frames, Frame, TypeOK
  <2>q. QED
    BY <1>5, <2>1, GotoKeeps DEF EnqueueFails, InTx, References
<1>6. CASE Commit(w)
  BY <1>6, InvCommit
<1>7. CASE CommitUnanswered(w)
  BY <1>7, InvUnanswered
<1>8. CASE BeginFails(w) \/ Rollback(w) \/ CommitFails(w) \/ Refuse(w) \/ Disconnect(w)
  BY <1>8, AnswerKeeps DEF BeginFails, Rollback, CommitFails, Refuse, Disconnect
<1>q. QED
  BY <1>1, <1>2, <1>3, <1>4, <1>5, <1>6, <1>7, <1>8 DEF Step, Advance

LEMMA InvReceive ==
  ASSUME IInv, NEW w \in Workers, NEW id \in Ids, NEW app \in Apps, NEW image \in Images,
         Receive(w, id, app, image)
  PROVE  Rest' /\ Frames'
<1> USE DEF IInv
<1> DEFINE r == [id |-> id, app |-> app, image |-> image, user |-> User]
<1>1. /\ pc[w] = "idle" /\ id \notin issued /\ issued' = issued \cup {id}
      /\ req' = [req EXCEPT ![w] = r] /\ r.id = id
      /\ pc' = [pc EXCEPT ![w] = "begin"] /\ status' = [status EXCEPT ![w] = "open"]
      /\ UNCHANGED <<parents, ledger, jobs, limbo, tx>>
      /\ tx[w] = NoTx
  BY DEF Receive, Actor, tables, Frames, Frame
<1> HIDE DEF r
<1>2. OpenIdsFresh'
  BY <1>1 DEF OpenIdsFresh, LimboIdsFresh, RowIdsIssued, TypeOK
<1>3. LimboWhole' /\ LimboIdsFresh' /\ RowIdsIssued' /\ References' /\ Paired'
  <2>1. LimboWhole' /\ References'
    BY <1>1 DEF LimboWhole, References
  <2>2. LimboIdsFresh' /\ RowIdsIssued'
    BY <1>1 DEF LimboIdsFresh, RowIdsIssued
  <2>3. Paired'
    BY <1>1 DEF Paired, IsFor
  <2>q. QED
    BY <2>1, <2>2, <2>3
<1>4. CreatedIsDurable'
  BY <1>1 DEF CreatedIsDurable, IsFor, TypeOK
<1>5. Frames'
  <2>1. NoTx.wrote = {}
    BY DEF NoTx
  <2>2. /\ pc' \in [Workers -> {"idle", "begin", "insert", "enqueue", "rollback", "commit"}]
        /\ pc'[w] = "begin" /\ status'[w] = "open" /\ tx'[w] = NoTx
        /\ \A v \in Workers \ {w} : /\ pc'[v] = pc[v] /\ status'[v] = status[v]
                                    /\ tx'[v] = tx[v] /\ req'[v] = req[v]
    BY <1>1 DEF TypeOK
  <2>q. QED
    BY <2>1, <2>2 DEF Frames, Frame
<1>q. QED
  BY <1>2, <1>3, <1>4, <1>5 DEF Rest

LEMMA InvLimbo ==
  ASSUME IInv, NEW t \in limbo, Land(t) \/ Vanish(t)
  PROVE  Rest' /\ Frames'
<1> USE DEF IInv
<1>1. PICK r \in Requests : t = InTx("open", {r}, {r})
  BY DEF LimboWhole
<1>2. /\ limbo' = limbo \ {t} /\ t.wrote = {r}
      /\ \/ ledger' = ledger \cup {r} /\ jobs' = jobs \cup {r}
         \/ UNCHANGED <<ledger, jobs>>
      /\ UNCHANGED <<parents, issued, pc, req, tx, status>>
  BY <1>1 DEF Land, Vanish, tables, InTx
<1>3. IsFor(r, r)
  BY DEF IsFor, Requests
<1>4. Frames' /\ LimboWhole'
  BY <1>2 DEF Frames, Frame, LimboWhole
<1>5. OpenIdsFresh' /\ RowIdsIssued'
  BY <1>2 DEF OpenIdsFresh, RowIdsIssued, LimboIdsFresh
<1>6. LimboIdsFresh'
  BY <1>2 DEF LimboIdsFresh
<1>7. References'
  BY <1>2 DEF References
<1>8. Paired'
  BY <1>2, <1>3 DEF Paired, LimboIdsFresh, IsFor
<1>9. CreatedIsDurable'
  BY <1>2 DEF CreatedIsDurable, IsFor
<1>q. QED
  BY <1>4, <1>5, <1>6, <1>7, <1>8, <1>9 DEF Rest

LEMMA InvDelete ==
  ASSUME IInv, (\E app \in Apps : DeleteApp(app)) \/ DeleteUser
  PROVE  Rest' /\ Frames'
<1> USE DEF IInv
<1>1. ASSUME NEW app \in Apps, DeleteApp(app) PROVE Rest' /\ Frames'
  <2>1. UNCHANGED <<ledger, jobs, limbo, issued, pc, req, tx, status>>
    BY <1>1 DEF DeleteApp
  <2>2. References'
    BY <1>1 DEF DeleteApp, References, Unlocked
  <2>3. LimboWhole' /\ LimboIdsFresh' /\ RowIdsIssued' /\ OpenIdsFresh'
    BY <2>1, TablesKept DEF OpenIdsFresh
  <2>4. Frames' /\ Paired' /\ CreatedIsDurable'
    BY <2>1 DEF Frames, Frame, Paired, CreatedIsDurable, IsFor
  <2>q. QED
    BY <2>2, <2>3, <2>4 DEF Rest
<1>2. CASE DeleteUser
  <2> DEFINE Gone(row) == [row EXCEPT !.user = None]
  <2>1. /\ ledger' = {Gone(row) : row \in ledger}
        /\ parents' = parents \ {User}
        /\ UNCHANGED <<jobs, limbo, issued, pc, req, tx, status>>
    BY <1>2 DEF DeleteUser
  <2>2. \A row \in ledger : /\ Gone(row).id = row.id /\ Gone(row).app = row.app
                            /\ Gone(row).image = row.image /\ Gone(row).user = None
                            /\ row.app # User
    BY OutboxAssumption DEF TypeOK, Rows
  <2>3. \A w \in Workers : \A r \in tx[w].wrote : r.app # User
    BY OutboxAssumption DEF TypeOK, Requests
  <2>4. \A t \in limbo : \A r \in t.wrote : r.app # User
    BY OutboxAssumption DEF TypeOK, Requests
  <2> HIDE DEF Gone
  <2>5. References'
    BY <2>1, <2>2, <2>3, <2>4 DEF References
  <2>6. Frames' /\ LimboWhole'
    BY <2>1 DEF Frames, Frame, LimboWhole
  <2>7. OpenIdsFresh' /\ LimboIdsFresh' /\ RowIdsIssued'
    BY <2>1, <2>2 DEF OpenIdsFresh, LimboIdsFresh, RowIdsIssued
  <2>8. Paired'
    BY <2>1, <2>2 DEF Paired, IsFor
  <2>9. CreatedIsDurable'
    BY <2>1, <2>2 DEF CreatedIsDurable, IsFor
  <2>q. QED
    BY <2>5, <2>6, <2>7, <2>8, <2>9 DEF Rest
<1>q. QED
  BY <1>1, <1>2

LEMMA InvNext == IInv /\ [Next]_vars => IInv'
<1> SUFFICES ASSUME IInv, [Next]_vars PROVE IInv'
  OBVIOUS
<1>1. TypeOK'
  BY TypeStep DEF IInv
<1>2. CASE UNCHANGED vars
  <2>1. LimboWhole' /\ LimboIdsFresh' /\ RowIdsIssued'
    BY <1>2, TablesKept DEF vars, tables, IInv
  <2>2. OpenIdsFresh' /\ References'
    BY <1>2 DEF vars, tables, IInv, OpenIdsFresh, References
  <2>3. Frames' /\ Paired' /\ CreatedIsDurable'
    BY <1>2 DEF vars, tables, IInv, Frames, Frame, Paired, CreatedIsDurable, IsFor
  <2>q. QED
    BY <1>1, <2>1, <2>2, <2>3 DEF IInv
<1>3. CASE Next
  <2>1. Rest' /\ Frames'
    BY <1>3, InvWorker, InvReceive, InvLimbo, InvDelete DEF Next
  <2>q. QED
    BY <1>1, <2>1 DEF IInv, Rest
<1>q. QED
  BY <1>2, <1>3

(* The inductive invariant: open requests, unanswered COMMITs, the ledger   *)
(* and the queue account for every identifier once.                         *)
THEOREM Accounted == Spec => []IInv
  BY InvInit, InvNext, PTL DEF Spec

(* The ledger and the queue never disagree.                                 *)
THEOREM LedgerMatchesQueue == Spec => []Paired
<1>1. IInv => Paired
  BY DEF IInv
<1>q. QED
  BY <1>1, Accounted, PTL

(* 201 names a deployment that is in the ledger with its job in the queue.  *)
THEOREM CreatedForGood == Spec => []CreatedIsDurable
<1>1. IInv => CreatedIsDurable
  BY DEF IInv
<1>q. QED
  BY <1>1, Accounted, PTL

(* A queued job's application cannot be deleted.                            *)
THEOREM JobsKeepTheirApp == Spec => []JobsHaveTheirApp
<1>1. IInv => JobsHaveTheirApp
  BY DEF IInv, Paired, References, JobsHaveTheirApp, IsFor
<1>q. QED
  BY <1>1, Accounted, PTL

-----------------------------------------------------------------------------
Kept == \A r \in ledger : \E s \in ledger' : s.id = r.id /\ s.app = r.app /\ s.image = r.image

(* No step withdraws a deployment or changes what it deploys.               *)
THEOREM LedgerAppendOnly == Spec => AppendOnly
<1>1. TypeOK /\ [Next]_vars => [Kept]_vars
  <2> SUFFICES ASSUME TypeOK, Next PROVE Kept
    OBVIOUS
  <2>1. CASE ledger \subseteq ledger'
    BY <2>1 DEF Kept
  <2>2. CASE DeleteUser
    <3>1. ASSUME NEW r \in ledger
          PROVE  \E s \in ledger' : s.id = r.id /\ s.app = r.app /\ s.image = r.image
      <4>1. [r EXCEPT !.user = None] \in ledger'
        BY <2>2 DEF DeleteUser
      <4>q. QED
        BY <4>1 DEF TypeOK, Rows
    <3>q. QED
      BY <3>1 DEF Kept
  <2>3. ledger \subseteq ledger' \/ DeleteUser
    BY DEF Next, Step, Advance, Begin, BeginFails, Insert, InsertFails, Enqueue, EnqueueFails,
       Rollback, Commit, CommitFails, CommitUnanswered, Refuse, Disconnect, Receive, Land,
       Vanish, DeleteApp, tables
  <2>q. QED
    BY <2>1, <2>2, <2>3
<1>q. QED
  BY <1>1, TypeCorrect, PTL DEF Spec, AppendOnly, Kept

-----------------------------------------------------------------------------
(* The outbox implements the ledger that accepts a deployment and its job   *)
(* in one step.  What it may still accept are the open requests and the     *)
(* unanswered COMMITs; an identifier is in one of them only, so a request   *)
(* that is decided leaves them.                                             *)
LEMMA OpenUnchanged ==
  ASSUME TypeOK, NEW w \in Workers, NEW label, NEW t, pc[w] # "idle", label # "idle",
         Goto(w, label, t), UNCHANGED limbo
  PROVE  UNCHANGED Open
<1>1. \A v \in Workers : (pc'[v] # "idle" <=> pc[v] # "idle") /\ req'[v] = req[v]
  BY DEF Goto, TypeOK
<1>q. QED
  BY <1>1 DEF Open

LEMMA OpenWithout ==
  ASSUME IInv, NEW w \in Workers, NEW answer, pc[w] # "idle", Answer(w, answer),
         UNCHANGED limbo
  PROVE  req[w] \in Open /\ Open' = Open \ {req[w]}
<1> USE DEF IInv
<1>1. pc' = [pc EXCEPT ![w] = "idle"] /\ UNCHANGED <<req, limbo>>
  BY DEF Answer
<1>2. \A v \in Workers : pc'[v] # "idle" <=> (pc[v] # "idle" /\ v # w)
  BY <1>1 DEF TypeOK
<1>3. \A v \in Workers : (pc[v] # "idle" /\ v # w) => req[v] # req[w]
  BY DEF OpenIdsFresh
<1>4. \A t \in limbo : req[w] \notin t.wrote
  BY DEF OpenIdsFresh
<1>q. QED
  BY <1>1, <1>2, <1>3, <1>4 DEF Open

LEMMA AnswerImplements ==
  ASSUME IInv, NEW w \in Workers, NEW answer \in {"failed", "none"}, pc[w] # "idle",
         Answer(w, answer), UNCHANGED <<tables, limbo>>
  PROVE  Promise!Answer(w)
<1>1. status[w] = "open" /\ status' = [status EXCEPT ![w] = answer]
      /\ UNCHANGED <<issued, req, ledger, jobs>>
  BY DEF Answer, IInv, Frames, Frame, tables
<1>2. Promise!Drop(req[w])
  BY <1>1, OpenWithout DEF Promise!Drop
<1>q. QED
  BY <1>1, <1>2 DEF Promise!Answer

LEMMA CommitImplements ==
  ASSUME IInv, NEW w \in Workers, Commit(w)
  PROVE  Promise!Answer(w)
<1>1. tx[w] = InTx("open", {req[w]}, {req[w]}) /\ pc[w] # "idle" /\ status[w] = "open"
  BY DEF Commit, IInv, Frames, Frame
<1>2. /\ ledger' = ledger \cup {req[w]} /\ jobs' = jobs \cup {req[w]}
      /\ status' = [status EXCEPT ![w] = "created"]
      /\ UNCHANGED <<issued, req, limbo>>
  BY <1>1 DEF Commit, Answer, InTx
<1>3. Promise!Accept(req[w])
  BY <1>1, <1>2, OpenWithout DEF Promise!Accept, Commit
<1>q. QED
  BY <1>1, <1>2, <1>3 DEF Promise!Answer

LEMMA UnansweredImplements ==
  ASSUME IInv, NEW w \in Workers, CommitUnanswered(w)
  PROVE  Promise!Answer(w)
<1>1. tx[w].wrote = {req[w]} /\ pc[w] # "idle" /\ status[w] = "open"
  <2>1. tx[w] = InTx("open", {req[w]}, {req[w]}) /\ pc[w] # "idle" /\ status[w] = "open"
    BY DEF CommitUnanswered, IInv, Frames, Frame
  <2>q. QED
    BY <2>1 DEF InTx
<1>2. PICK answer \in {"failed", "none"} :
        /\ limbo' = limbo \cup {tx[w]} /\ pc' = [pc EXCEPT ![w] = "idle"]
        /\ status' = [status EXCEPT ![w] = answer]
        /\ UNCHANGED <<issued, req, ledger, jobs>>
  BY DEF CommitUnanswered, Answer, tables
<1>3. UNCHANGED Open
  <2>1. \A v \in Workers : pc'[v] # "idle" <=> (pc[v] # "idle" /\ v # w)
    BY <1>2 DEF IInv, TypeOK
  <2>q. QED
    BY <1>1, <1>2, <2>1 DEF Open
<1>q. QED
  BY <1>1, <1>2, <1>3 DEF Promise!Answer

LEMMA WorkerImplements ==
  ASSUME IInv, NEW w \in Workers, Step(w) \/ Refuse(w) \/ Disconnect(w)
  PROVE  Promise!Next \/ UNCHANGED Promise!vars
<1>1. CASE Begin(w) \/ Insert(w) \/ InsertFails(w) \/ Enqueue(w) \/ EnqueueFails(w)
  <2>1. UNCHANGED <<tables, limbo, issued, req, status>>
    BY <1>1 DEF Begin, Insert, InsertFails, Enqueue, EnqueueFails, Goto
  <2>2. UNCHANGED Open
    BY <1>1, <2>1, OpenUnchanged
       DEF Begin, Insert, InsertFails, Enqueue, EnqueueFails, IInv
  <2>q. QED
    BY <2>1, <2>2 DEF tables, Promise!vars
<1>2. CASE BeginFails(w) \/ Rollback(w) \/ CommitFails(w) \/ Disconnect(w)
  BY <1>2, AnswerImplements
     DEF BeginFails, Rollback, CommitFails, Disconnect, Promise!Next
<1>3. CASE Commit(w)
  BY <1>3, CommitImplements DEF Promise!Next
<1>4. CASE CommitUnanswered(w)
  BY <1>4, UnansweredImplements DEF Promise!Next
<1>5. CASE Refuse(w)
  <2>1. /\ pc[w] = "idle" /\ status[w] # "open" /\ UNCHANGED <<ledger, jobs, issued, req, limbo>>
        /\ pc' = [pc EXCEPT ![w] = "idle"]
        /\ \E why \in {"bad_request", "failed"} : status' = [status EXCEPT ![w] = why]
    BY <1>5 DEF Refuse, Answer, tables, IInv, Frames, Frame
  <2>2. UNCHANGED Open
    <3>1. \A v \in Workers : pc'[v] # "idle" <=> pc[v] # "idle"
      BY <2>1 DEF IInv, TypeOK
    <3>q. QED
      BY <2>1, <3>1 DEF Open
  <2>q. QED
    BY <2>1, <2>2 DEF Promise!Ask, Promise!Next
<1>q. QED
  BY <1>1, <1>2, <1>3, <1>4, <1>5 DEF Step, Advance

LEMMA ReceiveImplements ==
  ASSUME IInv, NEW w \in Workers, NEW id \in Ids, NEW app \in Apps, NEW image \in Images,
         Receive(w, id, app, image)
  PROVE  Promise!Next
<1> DEFINE r == [id |-> id, app |-> app, image |-> image, user |-> User]
<1>1. /\ pc[w] = "idle" /\ r.id \notin issued /\ issued' = issued \cup {r.id}
      /\ req' = [req EXCEPT ![w] = r] /\ r \in Promise!Requests
      /\ pc' = [pc EXCEPT ![w] = "begin"] /\ status' = [status EXCEPT ![w] = "open"]
      /\ UNCHANGED <<ledger, jobs, limbo>> /\ status[w] # "open"
  BY DEF Receive, Actor, tables, IInv, Frames, Frame, Promise!Requests
<1> HIDE DEF r
<1>2. Open' = Open \cup {r}
  <2>1. /\ \A v \in Workers : pc'[v] # "idle" <=> (pc[v] # "idle" \/ v = w)
        /\ \A v \in Workers \ {w} : req'[v] = req[v]
        /\ req'[w] = r
    BY <1>1 DEF IInv, TypeOK
  <2>q. QED
    BY <1>1, <2>1 DEF Open
<1>q. QED
  BY <1>1, <1>2 DEF Promise!Ask, Promise!Next

LEMMA LimboImplements ==
  ASSUME IInv, NEW t \in limbo, Land(t) \/ Vanish(t)
  PROVE  Promise!Next
<1> USE DEF IInv
<1>1. PICK r \in Requests : t = InTx("open", {r}, {r})
  BY DEF LimboWhole
<1>2. /\ limbo' = limbo \ {t} /\ t.wrote = {r}
      /\ \/ ledger' = ledger \cup {r} /\ jobs' = jobs \cup {r}
         \/ UNCHANGED <<ledger, jobs>>
      /\ UNCHANGED <<issued, pc, req, status>>
  BY <1>1 DEF Land, Vanish, tables, InTx
<1>3. /\ \A v \in Workers : pc[v] # "idle" => req[v] # r
      /\ \A u \in limbo : r \in u.wrote => u = t
  BY <1>2 DEF OpenIdsFresh, LimboIdsFresh
<1>4. r \in Open /\ Open' = Open \ {r}
  BY <1>2, <1>3 DEF Open
<1>5. r \in Promise!Requests
  BY DEF Requests, Promise!Requests
<1>q. QED
  BY <1>2, <1>4, <1>5 DEF Promise!Late, Promise!Accept, Promise!Drop, Promise!Next

(* Every behaviour of the outbox is one of the one-step ledger.             *)
THEOREM OutboxKeepsPromise == Spec => PromiseKept
<1>1. Init => Promise!Init
  <2> SUFFICES ASSUME Init PROVE Promise!Init
    OBVIOUS
  <2>1. Open = {}
    BY DEF Init, Open
  <2>q. QED
    BY <2>1 DEF Init, Promise!Init, Requests, Promise!Requests
<1>2. IInv /\ [Next]_vars => [Promise!Next]_(Promise!vars)
  <2> SUFFICES ASSUME IInv, [Next]_vars PROVE Promise!Next \/ UNCHANGED Promise!vars
    OBVIOUS
  <2>1. CASE UNCHANGED vars
    BY <2>1 DEF vars, tables, Open, Promise!vars
  <2>2. ASSUME NEW app \in Apps, DeleteApp(app) PROVE UNCHANGED Promise!vars
    BY <2>2 DEF DeleteApp, Open, Promise!vars
  <2>3. CASE DeleteUser
    <3>1. UNCHANGED Open
      BY <2>3 DEF DeleteUser, Open
    <3>q. QED
      BY <2>3, <3>1 DEF DeleteUser, Promise!Detach, Promise!Next
  <2>q. QED
    BY <2>1, <2>2, <2>3, WorkerImplements, ReceiveImplements, LimboImplements DEF Next
<1>q. QED
  BY <1>1, <1>2, Accounted, PTL DEF Spec, PromiseKept, Promise!Spec
=============================================================================
