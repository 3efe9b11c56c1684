------------------------- MODULE DeploymentDelivery -------------------------
(***************************************************************************)
(* The outbox and the queue together: POST /deployments from the request   *)
(* to the consumer that runs the deployment's job.  The transaction that   *)
(* writes the ledger row is the one that sends the event, so that one      *)
(* COMMIT decides both, and the consumer that is handed the job reads the  *)
(* row.                                                                    *)
(***************************************************************************)
EXTENDS DeploymentOutbox

CONSTANTS
  Malformed, Consumers, MaxRetries, MaxReturn, NTables, Nearby, Maintained,
  Budgets    \* as in JobQueue

ASSUME DeliveryAssumption ==
  /\ Malformed \subseteq Requests
  /\ MaxRetries \in Nat /\ MaxReturn \in Nat \ {0} /\ Nearby \in Nat
  /\ NTables \in Nat \ {0, 1}
  /\ Maintained \in BOOLEAN
  /\ Budgets \subseteq [rotations : Nat, stops : Nat]

VARIABLES
  next, horizon, sender, events, cur, step1, step2, ticks, newest, lastTick,
  nextTick, retryQueue, mover, deadLetter, handled, consumer, rotations, stops

Q == INSTANCE JobQueue WITH Jobs <- Requests

queue == <<next, horizon, sender, events, cur, step1, step2, ticks, newest,
           lastTick, nextTick, retryQueue, mover, deadLetter, handled,
           consumer, rotations, stops>>
all == <<vars, queue>>

AllInit == Init /\ Q!Init

(* The server ends the transaction that sends r, if it ever wrote.          *)
Undo(r) == IF sender[r].tx # 0 THEN Q!Abort(r) ELSE UNCHANGED queue

(* Mutant: the job is committed when it is sent.                            *)
EnqueueEagerly(w) ==
  /\ Enqueue(w)
  /\ Q!SendOnPool(req[w])

(* The steps of a request that has its connection.                          *)
Enqueued(w) == Enqueue(w) /\ Q!Send(req[w])

Undone(w) == (Rollback(w) \/ CommitFails(w)) /\ Undo(req[w])

Progress(w) ==
  \/ Insert(w) /\ Q!Begin(req[w])
  \/ Enqueued(w)
  \/ Undone(w)
  \/ Commit(w) /\ Q!Commit(req[w])
  \/ (InsertFails(w) \/ CommitUnanswered(w)) /\ UNCHANGED queue

Client(w) ==
  \/ Refuse(w) \/ Begin(w) \/ BeginFails(w) \/ EnqueueFails(w)
  \/ \E id \in Ids, app \in Apps, image \in Images : Receive(w, id, app, image)

Server ==
  \/ \E t \in limbo :
       \/ Land(t) /\ \A r \in t.sent : Q!Commit(r)
       \/ Vanish(t) /\ \A r \in t.sent : Q!Abort(r)
  \/ ((\E app \in Apps : DeleteApp(app)) \/ DeleteUser) /\ UNCHANGED queue

Queue ==
  /\ \/ Q!Tick
     \/ \E c \in Consumers : Q!Consume(c) \/ Q!Stop(c)
     \/ Q!Maintain
  /\ UNCHANGED vars

AllNext ==
  \/ \E w \in Workers :
       \/ Progress(w)
       \/ Client(w) /\ UNCHANGED queue
       \/ Disconnect(w) /\ Undo(req[w])
  \/ Server
  \/ Queue

(* The fairness of either part; nothing obliges the server to decide a      *)
(* COMMIT nobody waits for.                                                 *)
AllFairness ==
  /\ \A w \in Workers :
       SF_all(Begin(w) /\ UNCHANGED queue) /\ WF_all(Progress(w))
  /\ WF_all(Q!Tick /\ UNCHANGED vars)
  /\ \A c \in Consumers : WF_all(Q!Consume(c) /\ UNCHANGED vars)
  /\ WF_all(((\E due \in SUBSET retryQueue : Q!Take(due)) \/ Q!Move) /\ UNCHANGED vars)

DeliverySpec == AllInit /\ [][AllNext]_all /\ AllFairness

-----------------------------------------------------------------------------
(* A handler never runs for a deployment that is not in the ledger, or      *)
(* whose application is gone, whenever its job is delivered and however     *)
(* often (one COMMIT for row and event; ON DELETE RESTRICT).                *)
HandlersFindTheirRow ==
  \A c \in Consumers : \A v \in consumer[c].todo :
    v.job.app \in parents /\ \E row \in ledger : IsFor(v.job, row)

(* No committed job vanishes, with two processes consuming under one name.  *)
NoJobLost == Q!NothingLost /\ jobs = Q!Accepted

(* Fed by the API and consumed by two processes, of which one may be late   *)
(* with a batch the other finished, the queue still delivers at least once  *)
(* and never again what was settled (JobQueue's PromiseKept).               *)
QueueKeepsPromise == Q!PromiseKept

(* 201 names a deployment whose job is run or, when it keeps failing, put   *)
(* among the dead letters - where somebody runs the ticker, a consumer and  *)
(* the retry mover (AllFairness), which main.go does not                    *)
(* (deployments.Create, pgqueue.RunTicker and Consume).                     *)
CreatedIsSettled ==
  \A w \in Workers, r \in Requests :
    status[w] = "created" /\ req[w] = r ~> r \in handled \cup deadLetter
=============================================================================
