-------------------------- MODULE ServiceLifecycle --------------------------
(***************************************************************************)
(* How the process starts and stops: core.Application, which runs every    *)
(* handler in a goroutine of its own and stops them one after the other,   *)
(* and the two storages (pg.Storage and redis.Cache, which share their     *)
(* shape), whose Run starts a health loop and whose Stop ends it.          *)
(*                                                                         *)
(* Run and Stop are called by two goroutines of the service loader, in any *)
(* order.  A handler that is not a store is only started and stopped.      *)
(***************************************************************************)
EXTENDS Naturals, Sequences

CONSTANTS
  Handlers,  \* the handlers, in the order they are registered
  Stores,    \* those that are storages
  App        \* the application, as the owner of a cancel function

Names == {Handlers[i] : i \in 1..Len(Handlers)}

ASSUME LifecycleAssumption ==
  /\ Handlers \in Seq(Names)
  /\ \A i, j \in 1..Len(Handlers) : Handlers[i] = Handlers[j] => i = j
  /\ Stores \subseteq Names
  /\ App \notin Names

VARIABLES
  run,        \* where Application.Run is
  next,       \* the handler it launches next
  parentDone, \* the context it was given is cancelled
  cancel,     \* each owner's cancel function: "unset", "set" or "called"
  boot,       \* where each handler's Run is; its goroutine counts in a.wg
  loop,       \* where each store's health loop is; it counts in s.wg
  healthy,    \* each store's health flag
  closed,     \* each store's pool is closed
  up,         \* each store's server answers
  stop,       \* where Application.Stop is
  at,         \* the handler it is stopping
  outcome,    \* what each handler's Stop returned
  errs,       \* the failures Application.Stop has collected
  raced       \* each store's Stop began before its Run had returned

environment == <<parentDone, up>>
running == <<run, next>>
stopping == <<stop, at, outcome, errs, raced>>
vars == <<environment, running, cancel, boot, loop, healthy, closed, stopping>>

Init ==
  /\ run = "idle" /\ next = 1
  /\ parentDone = FALSE /\ up \in [Stores -> BOOLEAN]
  /\ cancel = [o \in Stores \cup {App} |-> "unset"]
  /\ boot = [h \in Names |-> "none"]
  /\ loop = [s \in Stores |-> "none"]
  /\ healthy = [s \in Stores |-> FALSE]
  /\ closed = [s \in Stores |-> FALSE]
  /\ stop = "idle" /\ at = 1
  /\ outcome = [h \in Names |-> "none"]
  /\ errs = {}
  /\ raced = [s \in Stores |-> FALSE]

(* The context Application.Run derives, which every handler is given.       *)
Cancelled == parentDone \/ cancel[App] = "called"

(* Mutant: the health loop's context is derived from context.Background().  *)
DoneAlone(s) == cancel[s] = "called"

(* The context of a health loop, derived from the application's.            *)
Done(s) == Cancelled \/ cancel[s] = "called"

(* How a ping ends: one cancelled on its way may still succeed.             *)
Pongs(s, ctxDone) ==
  {pong \in {"ok", "failed"} :
     /\ pong = "ok" => up[s] /\ ~closed[s]
     /\ pong = "failed" => ~up[s] \/ closed[s] \/ ctxDone}

-----------------------------------------------------------------------------
(* Application.Run                                                          *)
Run ==
  /\ run = "idle"
  /\ run' = "entered"
  /\ UNCHANGED <<environment, next, cancel, boot, loop, healthy, closed, stopping>>

Install ==
  /\ run = "entered"
  /\ run' = "launching"
  /\ cancel' = [cancel EXCEPT ![App] = "set"]
  /\ UNCHANGED <<environment, next, boot, loop, healthy, closed, stopping>>

Launch ==
  /\ run = "launching" /\ next <= Len(Handlers)
  /\ next' = next + 1
  /\ boot' = [boot EXCEPT ![Handlers[next]] = "launched"]
  /\ UNCHANGED <<environment, run, cancel, loop, healthy, closed, stopping>>

RunReturns ==
  /\ run = "launching" /\ next > Len(Handlers)
  /\ Cancelled
  /\ run' = "returned"
  /\ UNCHANGED <<environment, next, cancel, boot, loop, healthy, closed, stopping>>

-----------------------------------------------------------------------------
(* A handler's Run, in its goroutine                                        *)
Goto(h, label) ==
  /\ boot' = [boot EXCEPT ![h] = label]
  /\ UNCHANGED <<environment, running, closed, stopping>>

(* A failure to start is logged and does not stop the others.               *)
Started(h) ==
  /\ boot[h] = "launched" /\ h \notin Stores
  /\ Goto(h, "done")
  /\ UNCHANGED <<cancel, loop, healthy>>

StoreInstalls(s) ==
  /\ boot[s] = "launched"
  /\ cancel' = [cancel EXCEPT ![s] = "set"]
  /\ Goto(s, "installed")
  /\ UNCHANGED <<loop, healthy>>

(* Mutant: the health loop is only started when the server answers.         *)
StoreLaunchesLoopIfUp(s) ==
  /\ boot[s] = "installed"
  /\ loop' = [loop EXCEPT ![s] = IF up[s] THEN "select" ELSE "none"]
  /\ Goto(s, "pinging")
  /\ UNCHANGED <<cancel, healthy>>

StoreLaunchesLoop(s) ==
  /\ boot[s] = "installed"
  /\ loop' = [loop EXCEPT ![s] = "select"]
  /\ Goto(s, "pinging")
  /\ UNCHANGED <<cancel, healthy>>

StorePings(s) ==
  /\ boot[s] = "pinging"
  /\ \E pong \in Pongs(s, Cancelled) : Goto(s, pong)
  /\ UNCHANGED <<cancel, loop, healthy>>

StoreRecords(s) ==
  /\ boot[s] \in {"ok", "failed"}
  /\ healthy' = [healthy EXCEPT ![s] = boot[s] = "ok"]
  /\ Goto(s, "done")
  /\ UNCHANGED <<cancel, loop>>

-----------------------------------------------------------------------------
(* healthLoop                                                               *)
LoopTo(s, label) ==
  /\ loop' = [loop EXCEPT ![s] = label]
  /\ UNCHANGED <<environment, running, cancel, boot, closed, stopping>>

LoopEnds(s) ==
  /\ loop[s] = "select" /\ Done(s)
  /\ LoopTo(s, "ended")
  /\ UNCHANGED healthy

LoopPings(s) ==
  /\ loop[s] = "select"
  /\ \E pong \in Pongs(s, Done(s)) : LoopTo(s, pong)
  /\ UNCHANGED healthy

LoopRecords(s) ==
  /\ loop[s] \in {"ok", "failed"}
  /\ healthy' = [healthy EXCEPT ![s] = loop[s] = "ok"]
  /\ LoopTo(s, "select")

-----------------------------------------------------------------------------
(* Application.Stop and, for a store, its Stop                              *)
Called(owner) ==
  cancel' = [cancel EXCEPT ![owner] = IF @ = "unset" THEN @ ELSE "called"]

(* Reading a.cancel and calling it is one step: once set it never changes.  *)
StopCancels ==
  /\ stop = "idle"
  /\ stop' = "handlers"
  /\ Called(App)
  /\ UNCHANGED <<environment, running, boot, loop, healthy, closed, at, outcome, errs, raced>>

Stopping(h) == at <= Len(Handlers) /\ Handlers[at] = h

(* Mutant: the first failure ends the sequence.                             *)
StoppedFailFast(h, result) ==
  /\ outcome' = [outcome EXCEPT ![h] = result]
  /\ errs' = IF result = "failed" THEN errs \cup {h} ELSE errs
  /\ at' = IF result = "failed" THEN Len(Handlers) + 1 ELSE at + 1
  /\ stop' = "handlers"

(* Mutant: the collected error does not name the handler.                   *)
StoppedUnnamed(h, result) ==
  /\ outcome' = [outcome EXCEPT ![h] = result]
  /\ errs' = IF result = "failed" THEN errs \cup {result} ELSE errs
  /\ at' = at + 1
  /\ stop' = "handlers"

(* One handler has stopped: its failure is kept and the next one is due.    *)
Stopped(h, result) ==
  /\ outcome' = [outcome EXCEPT ![h] = result]
  /\ errs' = IF result = "failed" THEN errs \cup {h} ELSE errs
  /\ at' = at + 1
  /\ stop' = "handlers"

StopHandler(h) ==
  /\ stop = "handlers" /\ Stopping(h) /\ h \notin Stores
  /\ \E result \in {"ok", "failed"} : Stopped(h, result)
  /\ UNCHANGED <<environment, running, cancel, boot, loop, healthy, closed, raced>>

StoreCancels(s) ==
  /\ stop = "handlers" /\ Stopping(s)
  /\ stop' = "draining"
  /\ Called(s)
  /\ raced' = [raced EXCEPT ![s] = boot[s] # "done"]
  /\ UNCHANGED <<environment, running, boot, loop, healthy, closed, at, outcome, errs>>

(* Mutant: Stop does not wait for the health loop.                          *)
StoreDoesNotDrain(s) ==
  /\ stop = "draining" /\ Stopping(s)
  /\ stop' = "drained"
  /\ UNCHANGED <<environment, running, cancel, boot, loop, healthy, closed, at, outcome, errs, raced>>

StoreDrains(s) ==
  /\ stop = "draining" /\ Stopping(s)
  /\ loop[s] \in {"none", "ended"}
  /\ stop' = "drained"
  /\ UNCHANGED <<environment, running, cancel, boot, loop, healthy, closed, at, outcome, errs, raced>>

StoreUnhealthy(s) ==
  /\ stop = "drained" /\ Stopping(s)
  /\ stop' = "closing"
  /\ healthy' = [healthy EXCEPT ![s] = FALSE]
  /\ UNCHANGED <<environment, running, cancel, boot, loop, closed, at, outcome, errs, raced>>

StoreCloses(s) ==
  /\ stop = "closing" /\ Stopping(s)
  /\ closed' = [closed EXCEPT ![s] = TRUE]
  /\ \E result \in {"ok", "failed"} : Stopped(s, result)
  /\ UNCHANGED <<environment, running, cancel, boot, loop, healthy, raced>>

(* a.wg.Wait: no handler's goroutine is counted at this moment.             *)
StopReturnsNow ==
  /\ stop = "handlers" /\ at > Len(Handlers)
  /\ \A h \in Names : boot[h] \in {"none", "done"}
  /\ stop' = "returned"
  /\ UNCHANGED <<environment, running, cancel, boot, loop, healthy, closed, at, outcome, errs, raced>>

-----------------------------------------------------------------------------
(* The environment: the parent context ends, a server fails or recovers.    *)
ParentDone ==
  /\ ~parentDone
  /\ parentDone' = TRUE
  /\ UNCHANGED <<up, running, cancel, boot, loop, healthy, closed, stopping>>

Flip(s) ==
  /\ up' = [up EXCEPT ![s] = ~@]
  /\ UNCHANGED <<parentDone, running, cancel, boot, loop, healthy, closed, stopping>>

RunStep == Install \/ Launch \/ RunReturns
BootStep(h) == Started(h)
StoreBootStep(s) == StoreInstalls(s) \/ StoreLaunchesLoop(s) \/ StorePings(s) \/ StoreRecords(s)
LoopStep(s) == LoopPings(s) \/ LoopRecords(s)
StoreStopStep(s) == StoreCancels(s) \/ StoreDrains(s) \/ StoreUnhealthy(s) \/ StoreCloses(s)
StopStep ==
  \/ \E h \in Names : StopHandler(h)
  \/ \E s \in Stores : StoreStopStep(s)
  \/ StopReturnsNow

Next ==
  \/ Run \/ RunStep \/ StopCancels \/ StopStep \/ ParentDone
  \/ \E h \in Names : BootStep(h)
  \/ \E s \in Stores : StoreBootStep(s) \/ LoopEnds(s) \/ LoopStep(s) \/ Flip(s)

Spec == Init /\ [][Next]_vars

(* Every goroutine that can run runs, and a handler's own Run and Stop      *)
(* return.  A health loop whose context is done may find its ticker ready   *)
(* too; select chooses at random, so it does not choose the ticker for ever.*)
(* Nobody is obliged to call Run or Stop.                                   *)
Fairness ==
  /\ WF_vars(RunStep) /\ WF_vars(StopStep)
  /\ \A h \in Names : WF_vars(BootStep(h))
  /\ \A s \in Stores :
       WF_vars(StoreBootStep(s)) /\ WF_vars(LoopStep(s)) /\ SF_vars(LoopEnds(s))

FairSpec == Spec /\ Fairness

-----------------------------------------------------------------------------
TypeOK ==
  /\ run \in {"idle", "entered", "launching", "returned"}
  /\ next \in 1..Len(Handlers) + 1
  /\ parentDone \in BOOLEAN /\ up \in [Stores -> BOOLEAN]
  /\ cancel \in [Stores \cup {App} -> {"unset", "set", "called"}]
  /\ boot \in [Names -> {"none", "launched", "installed", "pinging", "ok", "failed", "done"}]
  /\ loop \in [Stores -> {"none", "select", "ok", "failed", "ended"}]
  /\ healthy \in [Stores -> BOOLEAN] /\ closed \in [Stores -> BOOLEAN]
  /\ stop \in {"idle", "handlers", "draining", "drained", "closing", "returned"}
  /\ at \in 1..Len(Handlers) + 1
  /\ outcome \in [Names -> {"none", "ok", "failed"}]
  /\ errs \subseteq Names
  /\ raced \in [Stores -> BOOLEAN]

(* A store whose Run had returned when Stop was called is down for good     *)
(* once its Stop returns: no health loop, the pool closed, and no late ping *)
(* makes it healthy again (pg.Storage.Stop, redis.Cache.Stop).              *)
StopIsFinal ==
  \A s \in Stores :
    outcome[s] # "none" /\ ~raced[s] =>
      loop[s] \in {"none", "ended"} /\ closed[s] /\ ~healthy[s]

(* One broken handler never keeps the others from being stopped, and Stop   *)
(* reports every failure and no other (Application.Stop, errors.Join).      *)
EveryoneStops ==
  stop = "returned" =>
    /\ \A h \in Names : outcome[h] # "none"
    /\ errs = {h \in Names : outcome[h] = "failed"}

(* Nothing the application started outlives its context: Run, the handlers' *)
(* goroutines and the health loops all end, even those started after Stop   *)
(* went by, because every context derives from the cancelled one.           *)
Quiet ==
  /\ run = "returned"
  /\ \A h \in Names : boot[h] = "done"
  /\ \A s \in Stores : loop[s] = "ended"

WindsDown == run # "idle" /\ Cancelled ~> Quiet

(* Stop returns once the application's context is cancelled: a health loop  *)
(* that a racing Run started after Stop looked for its cancel function does *)
(* not keep wg.Wait waiting.                                                *)
StopReturns == stop # "idle" /\ Cancelled ~> stop = "returned"

(* A server that is down at boot, or goes down later, costs the store its   *)
(* health only until it is back: the flag never stays false because an old  *)
(* ping was recorded last (pg.Storage.Run's comment).                       *)
Serving(s) == boot[s] = "done" /\ up[s] /\ stop = "idle" /\ ~Cancelled
Recovers == \A s \in Stores : <>[]Serving(s) => <>[]healthy[s]

-----------------------------------------------------------------------------
(* domain.Service (types.go:21): "Stop shuts the service down, respecting   *)
(* ctx's deadline".                                                         *)
StopAlwaysReturns == stop # "idle" ~> stop = "returned"
=============================================================================
