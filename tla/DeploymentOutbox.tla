-------------------------- MODULE DeploymentOutbox --------------------------
(***************************************************************************)
(* POST /deployments: the deployments use case writes the ledger row and   *)
(* enqueues the deployment.run job in one transaction (the Transactor, the *)
(* ambient transaction in the context, repository.Deployment, the jobs use *)
(* case, repository.Jobs and pgqueue.Send).                                *)
(*                                                                         *)
(* A worker is a goroutine serving one request.  Each statement is a step; *)
(* each may fail, the client may go away or the process die at any step,   *)
(* and a COMMIT whose answer is lost is decided later, by the server.      *)
(***************************************************************************)
EXTENDS Naturals, FiniteSets

CONSTANTS
  Workers,        \* goroutines serving requests
  Ids,            \* deployment identifiers
  Apps,           \* application identifiers
  Images,         \* image references
  ContractImages, \* those deployment.run/v1 accepts (minLength 1)
  User,           \* the user RequireAuth attributes every request to
  None,           \* no user
  MaxOpenConns    \* size of the connection pool

ASSUME OutboxAssumption ==
  /\ MaxOpenConns \in Nat \ {0}
  /\ None # User
  /\ User \notin Apps /\ None \notin Apps
  /\ ContractImages \subseteq Images

VARIABLES
  parents,        \* the apps and users rows that exist
  ledger,         \* committed deployments rows
  jobs,           \* committed deployment.run events
  limbo,          \* units of work whose COMMIT was sent and not answered
  issued,         \* identifiers the generator has given out
  pc,             \* where in its request each worker is
  req,            \* the deployment each worker's request is to become
  tx,             \* the transaction in each worker's context
  status          \* "none", "open", or the answer to the last request

tables == <<parents, ledger, jobs>>
vars == <<tables, limbo, issued, pc, req, tx, status>>

Requests == [id : Ids, app : Apps, image : Images, user : {User}]
Rows == [id : Ids, app : Apps, image : Images, user : {User, None}]

NoTx == [state |-> "none", wrote |-> {}, sent |-> {}]
InTx(state, wrote, sent) == [state |-> state, wrote |-> wrote, sent |-> sent]

Init ==
  /\ parents \in SUBSET (Apps \cup {User})
  /\ ledger = {} /\ jobs = {} /\ limbo = {} /\ issued = {}
  /\ pc = [w \in Workers |-> "idle"]
  /\ req \in {[w \in Workers |-> r] : r \in Requests}
  /\ tx = [w \in Workers |-> NoTx]
  /\ status = [w \in Workers |-> "none"]

Goto(w, label, t) ==
  /\ pc' = [pc EXCEPT ![w] = label]
  /\ tx' = [tx EXCEPT ![w] = t]
  /\ UNCHANGED <<issued, req, status>>

(* The unit of work is over: its connection returns to the pool.            *)
Answer(w, answer) ==
  /\ pc' = [pc EXCEPT ![w] = "idle"]
  /\ tx' = [tx EXCEPT ![w] = NoTx]
  /\ status' = [status EXCEPT ![w] = answer]
  /\ UNCHANGED <<issued, req>>

Connections == {w \in Workers : tx[w].state # "none"}
Free == Cardinality(Connections) < MaxOpenConns

-----------------------------------------------------------------------------
(* The body does not bind (400), or the app identifier does not parse (500).*)
Refuse(w) ==
  /\ pc[w] = "idle"
  /\ \E answer \in {"bad_request", "failed"} : Answer(w, answer)
  /\ UNCHANGED <<tables, limbo>>

(* RequireAuth attaches the same actor to every request's context.          *)
Actor == User

(* Mutant: nobody asks the context who the actor is.                        *)
ReceiveAnonymous(w, id, app, image) ==
  /\ pc[w] = "idle" /\ id \notin issued
  /\ issued' = issued \cup {id}
  /\ req' = [req EXCEPT ![w] = [id |-> id, app |-> app, image |-> image, user |-> None]]
  /\ pc' = [pc EXCEPT ![w] = "begin"]
  /\ status' = [status EXCEPT ![w] = "open"]
  /\ UNCHANGED <<tables, limbo, tx>>

(* Create generates the identifier and reads the actor before any statement.*)
Receive(w, id, app, image) ==
  /\ pc[w] = "idle" /\ id \notin issued
  /\ issued' = issued \cup {id}
  /\ req' = [req EXCEPT ![w] = [id |-> id, app |-> app, image |-> image, user |-> Actor]]
  /\ pc' = [pc EXCEPT ![w] = "begin"]
  /\ status' = [status EXCEPT ![w] = "open"]
  /\ UNCHANGED <<tables, limbo, tx>>

(* RunInTx waits for a connection of the pool and opens the transaction.    *)
Begin(w) ==
  /\ pc[w] = "begin" /\ Free
  /\ Goto(w, "insert", InTx("open", {}, {}))
  /\ UNCHANGED <<tables, limbo>>

BeginFails(w) ==
  /\ pc[w] = "begin"
  /\ Answer(w, "failed")
  /\ UNCHANGED <<tables, limbo>>

(* Mutant: the row is written outside the transaction.                      *)
InsertOnPool(w) ==
  /\ pc[w] = "insert"
  /\ {req[w].app, req[w].user} \subseteq parents
  /\ ledger' = ledger \cup {req[w]}
  /\ Goto(w, "enqueue", InTx("open", {}, {}))
  /\ UNCHANGED <<parents, jobs, limbo>>

(* The row joins the ambient transaction; both foreign keys must hold, and  *)
(* the rows they refer to stay locked until the transaction ends.           *)
Insert(w) ==
  /\ pc[w] = "insert"
  /\ {req[w].app, req[w].user} \subseteq parents
  /\ Goto(w, "enqueue", InTx("open", {req[w]}, {}))
  /\ UNCHANGED <<tables, limbo>>

(* Any SQL error leaves a transaction that can only be rolled back.         *)
InsertFails(w) ==
  /\ pc[w] = "insert"
  /\ Goto(w, "rollback", InTx("aborted", {}, {}))
  /\ UNCHANGED <<tables, limbo>>

(* Mutant: the job is sent on a connection of its own, as Client.Send does. *)
EnqueueOnPool(w) ==
  /\ pc[w] = "enqueue" /\ Free
  /\ jobs' = jobs \cup {req[w]}
  /\ Goto(w, "commit", tx[w])
  /\ UNCHANGED <<parents, ledger, limbo>>

(* The job, whose arguments deployArgs takes from the deployment, is sent   *)
(* on the ambient transaction.                                              *)
Enqueue(w) ==
  /\ pc[w] = "enqueue"
  /\ Goto(w, "commit", InTx("open", tx[w].wrote, {req[w]}))
  /\ UNCHANGED <<tables, limbo>>

(* Mutant: a failed enqueue is logged and forgotten.                        *)
EnqueueErrorDropped(w) ==
  /\ pc[w] = "enqueue"
  /\ \E state \in {"open", "aborted"} :
       Goto(w, "commit", InTx(state, tx[w].wrote, {}))
  /\ UNCHANGED <<tables, limbo>>

(* An error before pgque.send leaves the transaction open, one of it does   *)
(* not.                                                                     *)
EnqueueFails(w) ==
  /\ pc[w] = "enqueue"
  /\ \E state \in {"open", "aborted"} :
       Goto(w, "rollback", InTx(state, tx[w].wrote, {}))
  /\ UNCHANGED <<tables, limbo>>

Rollback(w) ==
  /\ pc[w] = "rollback"
  /\ Answer(w, "failed")
  /\ UNCHANGED <<tables, limbo>>

(* COMMIT of an aborted transaction rolls back and reports no error.        *)
Commit(w) ==
  /\ pc[w] = "commit"
  /\ IF tx[w].state = "open"
     THEN ledger' = ledger \cup tx[w].wrote /\ jobs' = jobs \cup tx[w].sent
     ELSE UNCHANGED <<ledger, jobs>>
  /\ Answer(w, "created")
  /\ UNCHANGED <<parents, limbo>>

CommitFails(w) ==
  /\ pc[w] = "commit"
  /\ Answer(w, "failed")
  /\ UNCHANGED <<tables, limbo>>

(* The connection is lost, or the process dies, with the COMMIT on its way. *)
CommitUnanswered(w) ==
  /\ pc[w] = "commit" /\ tx[w].state = "open"
  /\ limbo' = limbo \cup {tx[w]}
  /\ \E answer \in {"failed", "none"} : Answer(w, answer)
  /\ UNCHANGED tables

(* The client goes away or the process dies: the server rolls back.         *)
Disconnect(w) ==
  /\ pc[w] # "idle"
  /\ Answer(w, "none")
  /\ UNCHANGED <<tables, limbo>>

-----------------------------------------------------------------------------
(* PostgreSQL decides a unit of work nobody waits for.                      *)
Land(t) ==
  /\ t \in limbo
  /\ limbo' = limbo \ {t}
  /\ ledger' = ledger \cup t.wrote
  /\ jobs' = jobs \cup t.sent
  /\ UNCHANGED <<parents, issued, pc, req, tx, status>>

Vanish(t) ==
  /\ t \in limbo
  /\ limbo' = limbo \ {t}
  /\ UNCHANGED <<tables, issued, pc, req, tx, status>>

(* The rows no transaction in progress refers to.                           *)
Unlocked(parent) ==
  \A t \in limbo \cup {tx[w] : w \in Workers} :
    \A r \in t.wrote : parent \notin {r.app, r.user}

(* Mutant: the foreign key onto apps cascades.                              *)
DeleteAppCascades(app) ==
  /\ app \in parents /\ Unlocked(app)
  /\ parents' = parents \ {app}
  /\ ledger' = {r \in ledger : r.app # app}
  /\ UNCHANGED <<jobs, limbo, issued, pc, req, tx, status>>

(* ON DELETE RESTRICT.                                                      *)
DeleteApp(app) ==
  /\ app \in parents /\ Unlocked(app)
  /\ \A r \in ledger : r.app # app
  /\ parents' = parents \ {app}
  /\ UNCHANGED <<ledger, jobs, limbo, issued, pc, req, tx, status>>

(* ON DELETE SET NULL.                                                      *)
DeleteUser ==
  /\ User \in parents /\ Unlocked(User)
  /\ parents' = parents \ {User}
  /\ ledger' = {[r EXCEPT !.user = None] : r \in ledger}
  /\ UNCHANGED <<jobs, limbo, issued, pc, req, tx, status>>

-----------------------------------------------------------------------------
(* A request that has its connection moves on.                              *)
Advance(w) ==
  \/ Insert(w) \/ InsertFails(w) \/ Enqueue(w) \/ Rollback(w)
  \/ Commit(w) \/ CommitFails(w) \/ CommitUnanswered(w)

Step(w) == Begin(w) \/ BeginFails(w) \/ EnqueueFails(w) \/ Advance(w)

Next ==
  \/ \E w \in Workers :
       \/ Step(w) \/ Refuse(w) \/ Disconnect(w)
       \/ \E id \in Ids, app \in Apps, image \in Images : Receive(w, id, app, image)
  \/ \E t \in limbo : Land(t) \/ Vanish(t)
  \/ \E app \in Apps : DeleteApp(app)
  \/ DeleteUser

Spec == Init /\ [][Next]_vars

(* A goroutine that can run runs.  The pool hands a connection that comes   *)
(* back to one of the goroutines waiting for it, at random, so none of them *)
(* is passed over for ever.  Nothing bounds the wait for a connection, so   *)
(* the failures of BeginTx and of the enqueue are not counted on.           *)
Fairness == \A w \in Workers : SF_vars(Begin(w)) /\ WF_vars(Advance(w))

FairSpec == Spec /\ Fairness

-----------------------------------------------------------------------------
TypeOK ==
  /\ parents \subseteq Apps \cup {User}
  /\ ledger \subseteq Rows /\ jobs \subseteq Requests
  /\ limbo \subseteq [state : {"open"}, wrote : SUBSET Requests, sent : SUBSET Requests]
  /\ issued \subseteq Ids
  /\ pc \in [Workers -> {"idle", "begin", "insert", "enqueue", "rollback", "commit"}]
  /\ req \in [Workers -> Requests]
  /\ tx \in [Workers -> [state : {"none", "open", "aborted"},
                         wrote : SUBSET Requests, sent : SUBSET Requests]]
  /\ status \in [Workers -> {"none", "open", "bad_request", "failed", "created"}]

(* The row a job is about: the same deployment, whose user may be gone.     *)
IsFor(job, row) ==
  row.id = job.id /\ row.app = job.app /\ row.image = job.image /\ row.user \in {job.user, None}

(* The ledger and the queue never disagree: every committed row has its job *)
(* and every job its row, with the same arguments, and no identifier has    *)
(* two rows, whatever failed in between (RunInTx, IDB, Jobs.Insert).        *)
Paired ==
  /\ \A job \in jobs : \E row \in ledger : IsFor(job, row)
  /\ \A row \in ledger : \E job \in jobs : IsFor(job, row)
  /\ \A r1, r2 \in ledger : r1.id = r2.id => r1 = r2

(* 201 names a deployment that is in the ledger with its job in the queue,  *)
(* for as long as the system runs (Deployment.Create, PgTransactor.RunInTx).*)
CreatedIsDurable ==
  \A w \in Workers :
    status[w] = "created" =>
      req[w] \in jobs /\ \E row \in ledger : IsFor(req[w], row)

(* A job in the queue never names an application that is gone, although     *)
(* applications are deleted while requests are in flight (the RESTRICT      *)
(* foreign key and the transaction's locks).                                *)
JobsHaveTheirApp == \A job \in jobs : job.app \in parents

(* The ledger is append-only: no step withdraws a deployment or changes     *)
(* what it deploys (models.Deployments).                                    *)
AppendOnly ==
  [][\A r \in ledger : \E s \in ledger' :
       s.id = r.id /\ s.app = r.app /\ s.image = r.image]_vars

(* Every request ends although there are fewer connections than requests:   *)
(* a unit of work never waits for a second one while it holds one (IDB).    *)
RequestsEnd == \A w \in Workers : pc[w] # "idle" ~> pc[w] = "idle"

(* Create's comment (deployments.go:125-127): the job's arguments are "a    *)
(* frozen contract validated against deployment.run/v1".                    *)
PayloadsHonourContract == \A job \in jobs : job.image \in ContractImages

-----------------------------------------------------------------------------
(* The transaction implements the ledger that accepts a deployment and its  *)
(* job in one step.                                                         *)
Open == {req[w] : w \in {v \in Workers : pc[v] # "idle"}} \cup UNION {t.wrote : t \in limbo}

Promise == INSTANCE DeploymentLedger WITH pending <- Open
PromiseKept == Promise!Spec
=============================================================================
