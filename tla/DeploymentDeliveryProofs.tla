---------------------- MODULE DeploymentDeliveryProofs ----------------------
(***************************************************************************)
(* What is proved about DeploymentDelivery for any number of workers,      *)
(* requests, consumers, retries and rotations: the outbox and the queue    *)
(* each keep their promises while they share transactions, and together    *)
(* they keep one neither states alone.                                     *)
(***************************************************************************)
EXTENDS DeploymentDelivery, DeploymentOutboxProofs

QP == INSTANCE JobPromiseProofs WITH Jobs <- Requests

LEMMA Assumed == QP!QueueAssumption
  BY DeliveryAssumption DEF QP!QueueAssumption

-----------------------------------------------------------------------------
(* The queue's specification and the one its theorems are about are two     *)
(* instances of one module: definition by definition they agree.            *)
LEMMA SameOperators ==
  /\ Q!Open = QP!Open /\ Q!CurrentSnapshot = QP!CurrentSnapshot
  /\ Q!Accepted = QP!Accepted /\ Q!Later = QP!Later /\ Q!Following = QP!Following
  /\ \A x, s : (Q!Visible(x, s) <=> QP!Visible(x, s)) /\ (Q!Above(s, x) <=> QP!Above(s, x))
  /\ \A last, this, x : Q!Selected(last, this, x) <=> QP!Selected(last, this, x)
  /\ \A last, this : Q!TablesOf(last, this) = QP!TablesOf(last, this)
  /\ \A job : Q!Outcome(job) = QP!Outcome(job)
<1>1. Q!Open = QP!Open /\ Q!CurrentSnapshot = QP!CurrentSnapshot
  BY DEF Q!Open, QP!Open, Q!CurrentSnapshot, QP!CurrentSnapshot
<1>2. /\ Q!Accepted = QP!Accepted /\ Q!Later = QP!Later /\ Q!Following = QP!Following
      /\ \A job : Q!Outcome(job) = QP!Outcome(job)
  BY DEF Q!Accepted, QP!Accepted, Q!Later, QP!Later, Q!Following, QP!Following,
     Q!Outcome, QP!Outcome
<1>3. \A x, s : (Q!Visible(x, s) <=> QP!Visible(x, s)) /\ (Q!Above(s, x) <=> QP!Above(s, x))
  BY DEF Q!Visible, QP!Visible, Q!Above, QP!Above
<1>4. \A last, this, x : Q!Selected(last, this, x) <=> QP!Selected(last, this, x)
  BY <1>3 DEF Q!Selected, QP!Selected, Q!InRange, QP!InRange, Q!InList, QP!InList,
     Q!Older, QP!Older, Q!InReach, QP!InReach
<1>5. \A last, this : Q!TablesOf(last, this) = QP!TablesOf(last, this)
  BY <1>3 DEF Q!TablesOf, QP!TablesOf, Q!Previous, QP!Previous
<1>q. QED
  BY <1>1, <1>2, <1>3, <1>4, <1>5

LEMMA SameCardinality ==
  ASSUME NEW S
  PROVE  Q!Cardinality(S) = QP!Cardinality(S)
  BY DEF Q!Cardinality, QP!Cardinality

LEMMA SameRows ==
  /\ \A last, this : Q!Rows(last, this) = QP!Rows(last, this)
  /\ Q!BatchRows = QP!BatchRows
  /\ \A rows : Q!Handed(rows) = QP!Handed(rows)
  /\ \A c, v : /\ Q!Copies(c, v) = QP!Copies(c, v)
               /\ Q!Conflict(c, v) <=> QP!Conflict(c, v)
               /\ Q!Nackable(c, v) <=> QP!Nackable(c, v)
  /\ \A job : Q!TickedSince(job) <=> QP!TickedSince(job)
<1>1. \A last, this : Q!Rows(last, this) = QP!Rows(last, this)
  BY SameOperators DEF Q!Rows, QP!Rows
<1>2. Q!BatchRows = QP!BatchRows
  BY <1>1 DEF Q!BatchRows, QP!BatchRows
<1>3. \A c, v : Q!Copies(c, v) = QP!Copies(c, v)
  BY <1>2 DEF Q!Copies, QP!Copies
<1>4. ASSUME NEW c, NEW v
      PROVE  (Q!Conflict(c, v) <=> QP!Conflict(c, v)) /\ (Q!Nackable(c, v) <=> QP!Nackable(c, v))
  <2>1. Q!Copies(c, v) = QP!Copies(c, v) /\ Q!Outcome(v.job) = QP!Outcome(v.job)
    BY <1>3, SameOperators
  <2>q. QED
    BY <2>1, SameCardinality DEF Q!Conflict, QP!Conflict, Q!Nackable, QP!Nackable
<1>5. ASSUME NEW rows
      PROVE  Q!Handed(rows) = QP!Handed(rows)
  BY SameCardinality DEF Q!Handed, QP!Handed
<1>6. \A job : Q!TickedSince(job) <=> QP!TickedSince(job)
  BY SameOperators DEF Q!TickedSince, QP!TickedSince
<1>q. QED
  BY <1>1, <1>2, <1>3, <1>4, <1>5, <1>6

LEMMA SameSending ==
  ASSUME NEW r
  PROVE  /\ Q!Begin(r) => QP!Begin(r)
         /\ Q!Send(r) => QP!Send(r)
         /\ Q!Commit(r) => QP!Commit(r)
         /\ Q!Abort(r) => QP!Abort(r)
<1> USE DEF Q!ids, QP!ids, Q!rotation, QP!rotation, Q!cursor, QP!cursor, Q!retries, QP!retries,
        Q!outcomes, QP!outcomes
<1>1. (Q!Begin(r) => QP!Begin(r)) /\ (Q!Send(r) => QP!Send(r))
  BY DEF Q!Begin, QP!Begin, Q!Send, QP!Send
<1>2. (Q!Commit(r) => QP!Commit(r)) /\ (Q!Abort(r) => QP!Abort(r))
  BY DEF Q!Commit, QP!Commit, Q!Abort, QP!Abort, Q!NoTx, QP!NoTx, Q!Ended, QP!Ended
<1>q. QED
  BY <1>1, <1>2

LEMMA SameConsuming ==
  ASSUME NEW c
  PROVE  (Q!Consume(c) => QP!Consume(c)) /\ (Q!Stop(c) => QP!Stop(c))
<1> USE DEF Q!ids, QP!ids, Q!rotation, QP!rotation, Q!cursor, QP!cursor, Q!retries, QP!retries,
        Q!outcomes, QP!outcomes, Q!Polling, QP!Polling
<1>1. Q!Receive(c) => QP!Receive(c)
  BY SameOperators, SameRows DEF Q!Receive, QP!Receive
<1>2. Q!ReceiveAgain(c) => QP!ReceiveAgain(c)
  BY SameRows DEF Q!ReceiveAgain, QP!ReceiveAgain
<1>3. ASSUME NEW v
      PROVE  /\ Q!Handle(c, v) => QP!Handle(c, v)
             /\ Q!Bury(c, v) => QP!Bury(c, v)
             /\ Q!Retry(c, v) => QP!Retry(c, v)
             /\ Q!GiveUp(c, v) => QP!GiveUp(c, v)
  <2>1. Q!Handle(c, v) => QP!Handle(c, v)
    BY SameOperators DEF Q!Handle, QP!Handle, Q!Forget, QP!Forget
  <2>2. Q!Bury(c, v) => QP!Bury(c, v)
    BY SameRows DEF Q!Bury, QP!Bury, Q!Forget, QP!Forget
  <2>3. Q!Retry(c, v) => QP!Retry(c, v)
    BY SameRows DEF Q!Retry, QP!Retry, Q!Forget, QP!Forget
  <2>4. Q!GiveUp(c, v) => QP!GiveUp(c, v)
    BY SameRows DEF Q!GiveUp, QP!GiveUp
  <2>q. QED
    BY <2>1, <2>2, <2>3, <2>4
<1>4. (Q!Ack(c) => QP!Ack(c)) /\ (Q!Stop(c) => QP!Stop(c))
  BY DEF Q!Ack, QP!Ack, Q!Stop, QP!Stop
<1>q. QED
  BY <1>1, <1>2, <1>3, <1>4 DEF Q!Consume, QP!Consume, Q!Deliver, QP!Deliver

LEMMA SameMaintaining == (Q!Tick => QP!Tick) /\ (Q!Maintain => QP!Maintain)
<1> USE SameOperators, SameRows
    DEF Q!ids, QP!ids, Q!rotation, QP!rotation, Q!cursor, QP!cursor, Q!retries, QP!retries,
        Q!outcomes, QP!outcomes, Q!Resting, QP!Resting, Q!Alone, QP!Alone
<1>1. Q!Tick => QP!Tick
  BY DEF Q!Tick, QP!Tick
<1>2. ASSUME NEW due
      PROVE  Q!Take(due) => QP!Take(due)
  BY DEF Q!Take, QP!Take
<1>3. Q!Move => QP!Move
  BY DEF Q!Move, QP!Move
<1>4. (Q!RotateStep1 => QP!RotateStep1) /\ (Q!RotateStep2 => QP!RotateStep2)
  BY DEF Q!RotateStep1, QP!RotateStep1, Q!RotateStep2, QP!RotateStep2
<1>q. QED
  BY <1>1, <1>2, <1>3, <1>4 DEF Q!Maintain, QP!Maintain

LEMMA SameLosses == Q!NothingLost <=> QP!NothingLost
<1>1. \A j, s : Q!Settled(j, s) <=> QP!Settled(j, s)
  BY SameOperators DEF Q!Settled, QP!Settled, Q!Waiting, QP!Waiting, Q!Ahead, QP!Ahead
<1>q. QED
  BY <1>1, SameOperators DEF Q!NothingLost, QP!NothingLost

LEMMA SameInit == Q!Init => QP!Init
  BY DEF Q!Init, QP!Init, Q!NoTx, QP!NoTx, Q!Polling, QP!Polling, Q!Resting, QP!Resting
-----------------------------------------------------------------------------
(* Either part takes its own steps only.                                    *)
LEMMA OutboxStep == [AllNext]_all => [Next]_vars
<1>1. UNCHANGED all => UNCHANGED vars
  BY DEF all
<1>2. \A w \in Workers : Progress(w) \/ Client(w) \/ Disconnect(w) => Next
  BY DEF Progress, Enqueued, Undone, Client, Next, Step, Advance
<1>3. Server => Next
  BY DEF Server, Next
<1>4. Queue => UNCHANGED vars
  BY DEF Queue
<1>q. QED
  BY <1>1, <1>2, <1>3, <1>4 DEF AllNext

LEMMA UndoStep ==
  ASSUME NEW r \in Requests, Undo(r)
  PROVE  [QP!Next]_(QP!vars)
  BY SameSending
     DEF Undo, queue, QP!vars, QP!ids, QP!rotation, QP!cursor, QP!retries, QP!outcomes,
         QP!Next, QP!Sending

LEMMA QueueStep == IInv /\ [AllNext]_all => [QP!Next]_(QP!vars)
<1> SUFFICES ASSUME IInv, [AllNext]_all PROVE [QP!Next]_(QP!vars)
  OBVIOUS
<1>1. UNCHANGED queue => UNCHANGED QP!vars
  BY DEF queue, QP!vars, QP!ids, QP!rotation, QP!cursor, QP!retries, QP!outcomes
<1>2. \A w \in Workers : req[w] \in Requests
  BY DEF IInv, TypeOK
<1>3. \A r \in Requests : Q!Begin(r) \/ Q!Send(r) \/ Q!Commit(r) \/ Q!Abort(r) => QP!Next
  BY SameSending DEF QP!Next, QP!Sending
<1>4. ASSUME NEW w \in Workers, Progress(w) PROVE [QP!Next]_(QP!vars)
  BY <1>1, <1>2, <1>3, <1>4, UndoStep DEF Progress, Enqueued, Undone
<1>5. ASSUME NEW t \in limbo,
             (\A r \in t.sent : Q!Commit(r)) \/ (\A r \in t.sent : Q!Abort(r))
      PROVE  QP!Next
  <2>1. PICK r \in Requests : t = InTx("open", {r}, {r})
    BY DEF IInv, LimboWhole
  <2>2. r \in t.sent
    BY <2>1 DEF InTx
  <2>q. QED
    BY <1>3, <1>5, <2>2
<1>6. CASE Server
  BY <1>1, <1>5, <1>6 DEF Server
<1>7. CASE Queue
  BY <1>7, SameConsuming, SameMaintaining DEF Queue, QP!Next
<1>8. CASE UNCHANGED all
  BY <1>1, <1>8 DEF all
<1>q. QED
  BY <1>1, <1>2, <1>4, <1>6, <1>7, <1>8, UndoStep DEF AllNext

(* The outbox of the composition is the outbox, for every property proved   *)
(* of it (DeploymentOutboxProofs).                                          *)
THEOREM OutboxUndisturbed == DeliverySpec => Spec
<1>1. AllInit => Init
  BY DEF AllInit
<1>q. QED
  BY <1>1, OutboxStep, PTL DEF DeliverySpec, Spec

(* And its queue is the queue (JobQueueProofs).                             *)
THEOREM QueueUndisturbed == DeliverySpec => QP!Spec
<1>1. AllInit => QP!Init
  BY SameInit DEF AllInit
<1>2. DeliverySpec => []IInv
  BY OutboxUndisturbed, Accounted, PTL
<1>q. QED
  BY <1>1, <1>2, QueueStep, PTL DEF DeliverySpec, QP!Spec

-----------------------------------------------------------------------------
(* Where the sender of a request's job is, by where the request is: the     *)
(* transaction the request writes in is the one the event is sent on.       *)
Stage(w) ==
  CASE pc[w] \in {"begin", "insert"} -> {"idle"}
    [] pc[w] = "enqueue"  -> {"open"}
    [] pc[w] = "commit"   -> {"sent"}
    [] pc[w] = "rollback" -> {"idle", "open"}

InStep ==
  /\ \A w \in Workers : pc[w] # "idle" => sender[req[w]].state \in Stage(w)
  /\ \A t \in limbo : \A r \in t.wrote : sender[r].state = "sent"

(* Nothing was sent for an identifier that was not given out.               *)
Unsent == \A r \in Requests : r.id \notin issued => sender[r].state = "idle"

(* One COMMIT decides both: the jobs of the ledger's transactions are the   *)
(* ones whose sender committed.                                             *)
OneOutcome == jobs = QP!Accepted

Lockstep == InStep /\ Unsent /\ OneOutcome

LEMMA LockInit == AllInit => Lockstep
<1> SUFFICES ASSUME AllInit PROVE Lockstep
  OBVIOUS
<1>1. \A r \in Requests : sender[r].state = "idle"
  BY DEF AllInit, Q!Init, Q!NoTx
<1>2. InStep
  BY DEF AllInit, Init, InStep
<1>3. Unsent /\ OneOutcome
  BY <1>1 DEF Unsent, OneOutcome, QP!Accepted, AllInit, Init
<1>q. QED
  BY <1>2, <1>3 DEF Lockstep

(* A step of one sender.                                                    *)
Moves(r, from, to) ==
  /\ sender[r].state \in from /\ sender'[r].state = to
  /\ \A q \in Requests \ {r} : sender'[q] = sender[q]

LEMMA SenderMoves ==
  ASSUME QP!TypeOK, NEW r \in Requests
  PROVE  /\ Q!Begin(r) => Moves(r, {"idle"}, "open")
         /\ Q!Send(r) => Moves(r, {"open"}, "sent")
         /\ Q!Commit(r) => Moves(r, {"sent"}, "committed")
         /\ Q!Abort(r) => Moves(r, {"open", "sent"}, "aborted")
<1>1. sender \in [Requests -> [state : {"idle", "open", "sent", "committed", "aborted"}, tx : Nat]]
  BY DEF QP!TypeOK
<1>2. (Q!Begin(r) => Moves(r, {"idle"}, "open")) /\ (Q!Send(r) => Moves(r, {"open"}, "sent"))
  BY <1>1 DEF Q!Begin, Q!Send, Moves
<1>3. /\ Q!Commit(r) => Moves(r, {"sent"}, "committed")
      /\ Q!Abort(r) => Moves(r, {"open", "sent"}, "aborted")
  BY <1>1 DEF Q!Commit, Q!Abort, Q!NoTx, Moves
<1>q. QED
  BY <1>2, <1>3

LEMMA UndoMoves ==
  ASSUME QP!TypeOK, NEW r \in Requests, Undo(r)
  PROVE  Moves(r, {"open", "sent"}, "aborted") \/ UNCHANGED sender
  BY SenderMoves DEF Undo, queue

(* A request that goes on, or ends, with its sender beside it.              *)
LEMMA RequestMoves ==
  ASSUME IInv, Lockstep, NEW w \in Workers, pc[w] # "idle",
         NEW label, pc' = [pc EXCEPT ![w] = label],
         \/ \E from : Moves(req[w], from, sender'[req[w]].state)
         \/ UNCHANGED sender,
         label # "idle" => sender'[req[w]].state \in Stage(w)',
         UNCHANGED <<req, issued, limbo>>
  PROVE  InStep' /\ Unsent'
<1>1. /\ req[w] \in Requests /\ req[w].id \in issued
      /\ pc'[w] = label /\ \A v \in Workers \ {w} : pc'[v] = pc[v]
      /\ \A v \in Workers \ {w} : pc[v] # "idle" => req[v] \in Requests \ {req[w]}
      /\ \A t \in limbo : \A r \in t.wrote : r \in Requests \ {req[w]}
  BY DEF IInv, TypeOK, OpenIdsFresh
<1>2. \A r \in Requests \ {req[w]} : sender'[r] = sender[r]
  BY DEF Moves
<1>3. ASSUME NEW v \in Workers, pc'[v] # "idle" PROVE sender'[req'[v]].state \in Stage(v)'
  <2>1. CASE v = w
    BY <1>1, <1>3, <2>1
  <2>2. CASE v # w
    BY <1>1, <1>2, <1>3, <2>2 DEF Lockstep, InStep, Stage
  <2>q. QED
    BY <2>1, <2>2
<1>4. \A t \in limbo' : \A r \in t.wrote : sender'[r].state = "sent"
  BY <1>1, <1>2 DEF Lockstep, InStep
<1>5. Unsent'
  BY <1>1, <1>2 DEF Lockstep, Unsent
<1>q. QED
  BY <1>3, <1>4, <1>5 DEF InStep

(* What decides a sender decides the queue's jobs.                          *)
LEMMA OutcomeKept ==
  ASSUME OneOutcome, NEW r \in Requests, NEW from, NEW to,
         \/ /\ Moves(r, from, to) /\ "committed" \notin from
            /\ jobs' = IF to = "committed" THEN jobs \cup {r} ELSE jobs
         \/ UNCHANGED <<jobs, sender>>
  PROVE  OneOutcome'
  BY DEF OneOutcome, QP!Accepted, Moves

LEMMA LockProgress ==
  ASSUME IInv, QP!TypeOK, Lockstep, NEW w \in Workers,
         Progress(w) \/ (Disconnect(w) /\ Undo(req[w]))
  PROVE  Lockstep'
<1>1. req[w] \in Requests /\ (pc[w] # "idle" => sender[req[w]].state \in Stage(w))
  BY DEF IInv, TypeOK, Lockstep, InStep
<1>2. CASE Insert(w) /\ Q!Begin(req[w])
  <2>1. /\ pc[w] = "insert" /\ pc' = [pc EXCEPT ![w] = "enqueue"] /\ pc'[w] = "enqueue"
        /\ UNCHANGED <<req, issued, limbo, jobs>> /\ Moves(req[w], {"idle"}, "open")
    BY <1>1, <1>2, SenderMoves DEF Insert, Goto, tables, IInv, TypeOK
  <2>2. sender'[req[w]].state = "open" /\ Stage(w)' = {"open"}
    BY <2>1 DEF Moves, Stage
  <2>q. QED
    BY <1>1, <2>1, <2>2, RequestMoves, OutcomeKept DEF Lockstep
<1>3. CASE Enqueued(w)
  <2>1. /\ pc[w] = "enqueue" /\ pc' = [pc EXCEPT ![w] = "commit"] /\ pc'[w] = "commit"
        /\ UNCHANGED <<req, issued, limbo, jobs>> /\ Moves(req[w], {"open"}, "sent")
    BY <1>1, <1>3, SenderMoves DEF Enqueued, Enqueue, Goto, tables, IInv, TypeOK
  <2>2. sender'[req[w]].state = "sent" /\ Stage(w)' = {"sent"}
    BY <2>1 DEF Moves, Stage
  <2>q. QED
    BY <1>1, <2>1, <2>2, RequestMoves, OutcomeKept DEF Lockstep
<1>4. CASE (Rollback(w) \/ CommitFails(w) \/ Disconnect(w)) /\ Undo(req[w])
  <2>1. /\ pc[w] # "idle" /\ pc' = [pc EXCEPT ![w] = "idle"]
        /\ UNCHANGED <<req, issued, limbo, jobs>>
        /\ Moves(req[w], {"open", "sent"}, "aborted") \/ UNCHANGED sender
    BY <1>1, <1>4, UndoMoves DEF Rollback, CommitFails, Disconnect, Answer, tables
  <2>2. Moves(req[w], {"open", "sent"}, "aborted") => sender'[req[w]].state = "aborted"
    BY DEF Moves
  <2>q. QED
    BY <1>1, <2>1, <2>2, RequestMoves, OutcomeKept DEF Lockstep
<1>5. CASE Commit(w) /\ Q!Commit(req[w])
  <2>1. tx[w] = InTx("open", {req[w]}, {req[w]})
    BY <1>5 DEF Commit, IInv, Frames, Frame
  <2>2. /\ pc[w] # "idle" /\ pc' = [pc EXCEPT ![w] = "idle"] /\ jobs' = jobs \cup {req[w]}
        /\ UNCHANGED <<req, issued, limbo>> /\ Moves(req[w], {"sent"}, "committed")
    BY <1>1, <1>5, <2>1, SenderMoves DEF Commit, Answer, InTx
  <2>3. sender'[req[w]].state = "committed"
    BY <2>2 DEF Moves
  <2>q. QED
    BY <1>1, <2>2, <2>3, RequestMoves, OutcomeKept DEF Lockstep
<1>6. CASE InsertFails(w) /\ UNCHANGED queue
  <2>1. /\ pc[w] = "insert" /\ pc' = [pc EXCEPT ![w] = "rollback"] /\ pc'[w] = "rollback"
        /\ UNCHANGED <<req, issued, limbo, jobs, sender>>
    BY <1>6 DEF InsertFails, Goto, tables, IInv, TypeOK, queue
  <2>2. sender[req[w]].state = "idle" /\ Stage(w)' = {"idle", "open"}
    BY <1>1, <2>1 DEF Stage
  <2>q. QED
    BY <1>1, <2>1, <2>2, RequestMoves, OutcomeKept DEF Lockstep
<1>7. CASE CommitUnanswered(w) /\ UNCHANGED queue
  <2>1. tx[w] = InTx("open", {req[w]}, {req[w]}) /\ sender[req[w]].state = "sent"
    BY <1>1, <1>7 DEF CommitUnanswered, IInv, Frames, Frame, Stage
  <2>2. /\ pc' = [pc EXCEPT ![w] = "idle"] /\ limbo' = limbo \cup {tx[w]}
        /\ tx[w].wrote = {req[w]} /\ UNCHANGED <<req, issued, jobs, sender>>
    BY <1>7, <2>1 DEF CommitUnanswered, Answer, tables, queue, InTx
  <2>3. \A v \in Workers : pc'[v] # "idle" => pc'[v] = pc[v]
    BY <2>2 DEF IInv, TypeOK
  <2>4. InStep'
    BY <2>1, <2>2, <2>3 DEF Lockstep, InStep, Stage
  <2>q. QED
    BY <1>1, <2>2, <2>4, OutcomeKept DEF Lockstep, Unsent
<1>q. QED
  BY <1>2, <1>3, <1>4, <1>5, <1>6, <1>7 DEF Progress, Undone

LEMMA LockClient ==
  ASSUME IInv, Lockstep, NEW w \in Workers, Client(w), UNCHANGED queue
  PROVE  Lockstep'
<1>1. req[w] \in Requests /\ (pc[w] # "idle" => sender[req[w]].state \in Stage(w))
  BY DEF IInv, TypeOK, Lockstep, InStep
<1>2. UNCHANGED sender
  BY DEF queue
<1>3. CASE Refuse(w)
  <2>1. /\ UNCHANGED <<req, issued, limbo, jobs>>
        /\ \A v \in Workers : pc'[v] # "idle" => pc'[v] = pc[v]
    BY <1>3 DEF Refuse, Answer, tables, IInv, TypeOK
  <2>2. InStep'
    BY <1>2, <2>1 DEF Lockstep, InStep, Stage
  <2>q. QED
    BY <1>1, <1>2, <2>1, <2>2, OutcomeKept DEF Lockstep, Unsent
<1>4. ASSUME pc[w] # "idle", NEW label, pc' = [pc EXCEPT ![w] = label],
             label # "idle" => sender[req[w]].state \in Stage(w)',
             UNCHANGED <<req, issued, limbo, jobs>>
      PROVE  Lockstep'
  BY <1>1, <1>2, <1>4, RequestMoves, OutcomeKept DEF Lockstep
<1>5. CASE Begin(w)
  <2>1. /\ pc[w] = "begin" /\ pc' = [pc EXCEPT ![w] = "insert"] /\ pc'[w] = "insert"
        /\ UNCHANGED <<req, issued, limbo, jobs>>
    BY <1>5 DEF Begin, Goto, tables, IInv, TypeOK
  <2>2. Stage(w) = {"idle"} /\ Stage(w)' = {"idle"}
    BY <2>1 DEF Stage
  <2>q. QED
    BY <1>1, <1>4, <2>1, <2>2
<1>6. CASE BeginFails(w)
  BY <1>4, <1>6 DEF BeginFails, Answer, tables
<1>7. CASE EnqueueFails(w)
  <2>1. /\ pc[w] = "enqueue" /\ pc' = [pc EXCEPT ![w] = "rollback"] /\ pc'[w] = "rollback"
        /\ UNCHANGED <<req, issued, limbo, jobs>>
    BY <1>7 DEF EnqueueFails, Goto, tables, IInv, TypeOK
  <2>2. Stage(w) = {"open"} /\ Stage(w)' = {"idle", "open"}
    BY <2>1 DEF Stage
  <2>q. QED
    BY <1>1, <1>4, <2>1, <2>2
<1>8. ASSUME NEW id \in Ids, NEW app \in Apps, NEW image \in Images, Receive(w, id, app, image)
      PROVE  Lockstep'
  <2>1. /\ id \notin issued /\ issued' = issued \cup {id} /\ UNCHANGED <<limbo, jobs>>
        /\ req'[w] \in Requests /\ req'[w].id = id /\ pc'[w] = "begin"
        /\ \A v \in Workers \ {w} : pc'[v] = pc[v] /\ req'[v] = req[v]
    BY <1>8 DEF Receive, Actor, tables, IInv, TypeOK, Requests
  <2>2. sender[req'[w]].state = "idle" /\ Stage(w)' = {"idle"}
    BY <2>1 DEF Lockstep, Unsent, Stage
  <2>3. InStep'
    BY <1>2, <2>1, <2>2 DEF Lockstep, InStep, Stage
  <2>4. Unsent'
    BY <1>2, <2>1 DEF Lockstep, Unsent
  <2>q. QED
    BY <1>1, <1>2, <2>1, <2>3, <2>4, OutcomeKept DEF Lockstep
<1>q. QED
  BY <1>3, <1>5, <1>6, <1>7, <1>8 DEF Client

LEMMA LockServer ==
  ASSUME IInv, QP!TypeOK, Lockstep, Server
  PROVE  Lockstep'
<1>1. ASSUME NEW t \in limbo,
             \/ Land(t) /\ \A r \in t.sent : Q!Commit(r)
             \/ Vanish(t) /\ \A r \in t.sent : Q!Abort(r)
      PROVE  Lockstep'
  <2>1. PICK r \in Requests : t = InTx("open", {r}, {r})
    BY DEF IInv, LimboWhole
  <2>2. t.wrote = {r} /\ t.sent = {r}
    BY <2>1 DEF InTx
  <2>3. /\ limbo' = limbo \ {t} /\ UNCHANGED <<issued, pc, req>>
        /\ \/ Moves(r, {"sent"}, "committed") /\ jobs' = jobs \cup {r}
           \/ Moves(r, {"open", "sent"}, "aborted") /\ UNCHANGED jobs
    BY <1>1, <2>2, SenderMoves DEF Land, Vanish, tables
  <2>4. \A q \in Requests \ {r} : sender'[q] = sender[q]
    BY <2>3 DEF Moves
  <2>5. /\ \A w \in Workers : pc[w] # "idle" => req[w] \in Requests \ {r}
        /\ \A u \in limbo \ {t} : \A q \in u.wrote : q \in Requests \ {r}
        /\ r.id \in issued
    BY <2>2 DEF IInv, TypeOK, OpenIdsFresh, LimboIdsFresh
  <2>6. InStep' /\ Unsent'
    BY <2>3, <2>4, <2>5 DEF Lockstep, InStep, Stage, Unsent
  <2>q. QED
    BY <2>3, <2>6, OutcomeKept DEF Lockstep
<1>2. CASE ((\E app \in Apps : DeleteApp(app)) \/ DeleteUser) /\ UNCHANGED queue
  BY <1>2 DEF DeleteApp, DeleteUser, queue, Lockstep, InStep, Stage, Unsent, OneOutcome,
              QP!Accepted
<1>q. QED
  BY <1>1, <1>2 DEF Server

LEMMA LockQueue ==
  ASSUME Lockstep, (Queue \/ UNCHANGED all)
  PROVE  Lockstep'
<1>1. UNCHANGED <<pc, req, issued, limbo, jobs>>
  BY DEF Queue, all, vars, tables
<1>2. UNCHANGED sender
  BY DEF Queue, all, queue, Q!Tick, Q!Consume, Q!Receive, Q!ReceiveAgain, Q!Deliver, Q!Handle,
         Q!Bury, Q!Retry, Q!GiveUp, Q!Ack, Q!Stop, Q!Maintain, Q!Take, Q!Move, Q!RotateStep1,
         Q!RotateStep2
<1>q. QED
  BY <1>1, <1>2 DEF Lockstep, InStep, Stage, Unsent, OneOutcome, QP!Accepted

(* The outbox's invariant, the queue's and the one that ties them hold      *)
(* together at every step of the composition.                               *)
LEMMA LockInvariance == DeliverySpec => [](IInv /\ QP!TypeOK /\ Lockstep)
<1>1. DeliverySpec => []IInv
  BY OutboxUndisturbed, Accounted, PTL
<1>2. DeliverySpec => []QP!TypeOK
  BY Assumed, QueueUndisturbed, QP!TypeCorrect, PTL
<1>3. IInv /\ QP!TypeOK /\ Lockstep /\ [AllNext]_all => Lockstep'
  BY LockProgress, LockClient, LockServer, LockQueue DEF AllNext
<1>q. QED
  BY <1>1, <1>2, <1>3, LockInit, PTL DEF DeliverySpec

-----------------------------------------------------------------------------
(* A handler never runs for a deployment that is not in the ledger, or      *)
(* whose application is gone: what it is handed was committed               *)
(* (QP!CommittedOnly), what was committed is a job of the ledger's          *)
(* (OneOutcome), and the ledger has its row and its application.            *)
THEOREM HandlersAlwaysFindTheirRow == DeliverySpec => []HandlersFindTheirRow
<1>1. DeliverySpec => []QP!OnlyCommitted
  BY Assumed, QueueUndisturbed, QP!CommittedOnly, PTL
<1>2. IInv /\ Lockstep /\ QP!OnlyCommitted => HandlersFindTheirRow
  BY DEF IInv, Paired, References, IsFor, Lockstep, OneOutcome, QP!OnlyCommitted,
         HandlersFindTheirRow
<1>q. QED
  BY <1>1, <1>2, LockInvariance, PTL

(* As long as receive hands out whole batches, no deployment's job vanishes *)
(* between its COMMIT and its end, however many processes consume.          *)
THEOREM DeliveredJobsKept == DeliverySpec /\ []QP!Fits => []NoJobLost
<1>1. DeliverySpec /\ []QP!Fits => []QP!NothingLost
  BY Assumed, QueueUndisturbed, QP!NothingIsLost, PTL
<1>2. Lockstep /\ QP!NothingLost => NoJobLost
  BY SameLosses, SameOperators DEF NoJobLost, Lockstep, OneOutcome
<1>q. QED
  BY <1>1, <1>2, LockInvariance, PTL

(* With no more deployments than one receive returns, nothing else is asked.*)
THEOREM FewDeploymentsKept ==
  ASSUME IsFiniteSet(Requests), Cardinality(Requests) <= MaxReturn
  PROVE  DeliverySpec => []NoJobLost
<1>1. QP!IsFiniteSet(Requests) /\ QP!Cardinality(Requests) <= MaxReturn
  BY DEF IsFiniteSet, QP!IsFiniteSet, Cardinality, QP!Cardinality
<1>2. DeliverySpec => []QP!NothingLost
  BY <1>1, Assumed, QueueUndisturbed, QP!FewAreNeverLost, PTL
<1>3. Lockstep /\ QP!NothingLost => NoJobLost
  BY SameLosses, SameOperators DEF NoJobLost, Lockstep, OneOutcome
<1>q. QED
  BY <1>2, <1>3, LockInvariance, PTL

(* The deployments API keeps its one-step promise while the queue ticks,    *)
(* delivers, rotates and retries beside it.                                 *)
THEOREM DeliveryKeepsPromise == DeliverySpec => PromiseKept
  BY OutboxUndisturbed, OutboxKeepsPromise, PTL

(* What the two instances of the queue's promise speak of is the same.      *)
LEMMA SamePromise == Q!Owed = QP!Owed
  BY SameOperators DEF Q!Owed, QP!Owed, Q!Waiting, QP!Waiting, Q!Ahead, QP!Ahead

(* Nor do they differ in what a step may do.                                *)
LEMMA SamePromiseSteps ==
  ASSUME [QP!Promise!Next]_(QP!Promise!vars)
  PROVE  [Q!Promise!Next]_(Q!Promise!vars)
<1>1. (Q!Owed = QP!Owed /\ Q!Accepted = QP!Accepted)'
  BY SamePromise, SameOperators, PTL
<1>2. Q!Owed = QP!Owed /\ Q!Accepted = QP!Accepted
  BY SamePromise, SameOperators
<1>3. CASE UNCHANGED QP!Promise!vars
  BY <1>1, <1>2, <1>3 DEF QP!Promise!vars, Q!Promise!vars
<1>4. ASSUME NEW j \in Requests, QP!Promise!Accept(j)
      PROVE  Q!Promise!Accept(j)
  BY <1>1, <1>2, <1>4 DEF QP!Promise!Accept, Q!Promise!Accept
<1>5. ASSUME NEW c \in Consumers, NEW some, QP!Promise!Hand(c, some)
      PROVE  Q!Promise!Hand(c, some)
  BY <1>1, <1>2, <1>5 DEF QP!Promise!Hand, Q!Promise!Hand
<1>6. ASSUME NEW c \in Consumers, NEW some, QP!Promise!Settle(c, some)
      PROVE  Q!Promise!Settle(c, some)
  BY <1>1, <1>2, <1>6 DEF QP!Promise!Settle, Q!Promise!Settle
<1>7. ASSUME NEW c \in Consumers, NEW j \in Requests, QP!Promise!Run(c, j)
      PROVE  Q!Promise!Run(c, j)
  BY <1>1, <1>2, <1>7 DEF QP!Promise!Run, Q!Promise!Run, QP!Promise!Finish, Q!Promise!Finish
<1>8. ASSUME NEW c \in Consumers, NEW j \in Requests, QP!Promise!Fail(c, j)
      PROVE  Q!Promise!Fail(c, j)
  BY <1>1, <1>2, <1>8 DEF QP!Promise!Fail, Q!Promise!Fail, QP!Promise!Finish, Q!Promise!Finish
<1>9. ASSUME NEW c \in Consumers, QP!Promise!Drop(c)
      PROVE  Q!Promise!Drop(c)
  BY <1>1, <1>2, <1>9 DEF QP!Promise!Drop, Q!Promise!Drop
<1>q. QED
  BY <1>2, <1>3, <1>4, <1>5, <1>6, <1>7, <1>8, <1>9 DEF QP!Promise!Next, Q!Promise!Next

(* The queue the deployments go through implements at-least-once delivery.  *)
THEOREM QueuePromiseKept ==
  ASSUME IsFiniteSet(Requests), Cardinality(Requests) <= MaxReturn
  PROVE  DeliverySpec => QueueKeepsPromise
<1>1. QP!IsFiniteSet(Requests) /\ QP!Cardinality(Requests) <= MaxReturn
  BY DEF IsFiniteSet, QP!IsFiniteSet, Cardinality, QP!Cardinality
<1>2. DeliverySpec => QP!PromiseKept
  BY <1>1, Assumed, QueueUndisturbed, QP!FewKeepPromise, PTL
<1>3. QP!Promise!Init => Q!Promise!Init
  BY SamePromise, SameOperators DEF QP!Promise!Init, Q!Promise!Init
<1>q. QED
  BY <1>2, <1>3, SamePromiseSteps, PTL
     DEF QueueKeepsPromise, Q!PromiseKept, QP!PromiseKept, Q!Promise!Spec, QP!Promise!Spec
=============================================================================
