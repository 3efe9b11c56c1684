----------------------- MODULE ServiceLifecycleProofs -----------------------
(***************************************************************************)
(* Proofs about ServiceLifecycle for any list of handlers and any subset   *)
(* of them that are storages.                                              *)
(***************************************************************************)
EXTENDS ServiceLifecycle, TLAPS

(* The handler in a position is a handler, and no other position holds it.  *)
LEMMA HandlerAt ==
  ASSUME NEW i \in 1..Len(Handlers)
  PROVE  Handlers[i] \in Names
BY DEF Names

LEMMA StoresAreHandlers == Stores \subseteq Names /\ App \notin Names
BY LifecycleAssumption

LEMMA LengthIsNat == Len(Handlers) \in Nat
BY LifecycleAssumption

-----------------------------------------------------------------------------
(* Type correctness                                                         *)

LEMMA TypeInit == Init => TypeOK
<1> SUFFICES ASSUME Init PROVE TypeOK
  OBVIOUS
<1>1. 1 \in 1..Len(Handlers) + 1
  BY LengthIsNat
<1>2. up \in [Stores -> BOOLEAN]
  BY DEF Init
<1> QED BY <1>1, <1>2 DEF Init, TypeOK

(* Every step of Run, of a handler's Run or of a health loop keeps types.   *)
LEMMA TypeRunning ==
  ASSUME TypeOK, Run \/ RunStep
  PROVE  TypeOK'
<1>1. CASE Run
  BY <1>1 DEF TypeOK, Run, environment, stopping
<1>2. CASE Install
  BY <1>2 DEF TypeOK, Install, environment, stopping
<1>3. CASE Launch
  <2>1. next \in 1..Len(Handlers) /\ next' \in 1..Len(Handlers) + 1
    BY <1>3, LengthIsNat DEF TypeOK, Launch
  <2> QED BY <1>3, <2>1, HandlerAt DEF TypeOK, Launch, environment, stopping
<1>4. CASE RunReturns
  BY <1>4 DEF TypeOK, RunReturns, environment, stopping
<1> QED BY <1>1, <1>2, <1>3, <1>4 DEF RunStep

LEMMA TypeBoot ==
  ASSUME TypeOK, NEW s \in Stores, StoreBootStep(s)
  PROVE  TypeOK'
<1> s \in Names
  BY StoresAreHandlers
<1>1. CASE StoreInstalls(s)
  BY <1>1 DEF TypeOK, StoreInstalls, Goto, environment, running, stopping
<1>2. CASE StoreLaunchesLoop(s)
  BY <1>2 DEF TypeOK, StoreLaunchesLoop, Goto, environment, running, stopping
<1>3. CASE StorePings(s)
  BY <1>3 DEF TypeOK, StorePings, Pongs, Goto, environment, running, stopping
<1>4. CASE StoreRecords(s)
  BY <1>4 DEF TypeOK, StoreRecords, Goto, environment, running, stopping
<1> QED BY <1>1, <1>2, <1>3, <1>4 DEF StoreBootStep

LEMMA TypeStarted ==
  ASSUME TypeOK, NEW h \in Names, BootStep(h)
  PROVE  TypeOK'
BY DEF TypeOK, BootStep, Started, Goto, environment, running, stopping

LEMMA TypeLoop ==
  ASSUME TypeOK, NEW s \in Stores, LoopEnds(s) \/ LoopStep(s)
  PROVE  TypeOK'
<1>1. CASE LoopEnds(s)
  BY <1>1 DEF TypeOK, LoopEnds, LoopTo, environment, running, stopping
<1>2. CASE LoopPings(s)
  BY <1>2 DEF TypeOK, LoopPings, Pongs, LoopTo, environment, running, stopping
<1>3. CASE LoopRecords(s)
  BY <1>3 DEF TypeOK, LoopRecords, LoopTo, environment, running, stopping
<1> QED BY <1>1, <1>2, <1>3 DEF LoopStep

LEMMA CalledKeepsType ==
  ASSUME TypeOK, NEW owner, Called(owner)
  PROVE  cancel' \in [Stores \cup {App} -> {"unset", "set", "called"}]
BY DEF TypeOK, Called

(* What a handler that stops leaves behind has its type.                    *)
LEMMA StoppedKeepsType ==
  ASSUME TypeOK, NEW h \in Names, NEW result \in {"ok", "failed"},
         at <= Len(Handlers), Stopped(h, result)
  PROVE  /\ outcome' \in [Names -> {"none", "ok", "failed"}]
         /\ errs' \subseteq Names
         /\ at' \in 1..Len(Handlers) + 1
         /\ stop' = "handlers"
<1>1. at' = at + 1 /\ at \in 1..Len(Handlers)
  BY LengthIsNat DEF TypeOK, Stopped
<1>2. at' \in 1..Len(Handlers) + 1
  BY <1>1, LengthIsNat
<1> QED BY <1>2 DEF TypeOK, Stopped

LEMMA TypeStopping ==
  ASSUME TypeOK, StopCancels \/ StopStep
  PROVE  TypeOK'
<1>1. CASE StopCancels
  BY <1>1, CalledKeepsType DEF TypeOK, StopCancels, environment, running
<1>2. ASSUME NEW h \in Names, StopHandler(h) PROVE TypeOK'
  BY <1>2, StoppedKeepsType DEF TypeOK, StopHandler, Stopping, environment, running
<1>3. ASSUME NEW s \in Stores, StoreStopStep(s) PROVE TypeOK'
  <2> s \in Names
    BY StoresAreHandlers
  <2>1. CASE StoreCancels(s)
    BY <2>1, CalledKeepsType DEF TypeOK, StoreCancels, environment, running
  <2>2. CASE StoreDrains(s)
    BY <2>2 DEF TypeOK, StoreDrains, environment, running
  <2>3. CASE StoreUnhealthy(s)
    BY <2>3 DEF TypeOK, StoreUnhealthy, environment, running
  <2>4. CASE StoreCloses(s)
    BY <2>4, StoppedKeepsType DEF TypeOK, StoreCloses, Stopping, environment, running
  <2> QED BY <1>3, <2>1, <2>2, <2>3, <2>4 DEF StoreStopStep
<1>4. CASE StopReturnsNow
  BY <1>4 DEF TypeOK, StopReturnsNow, environment, running
<1> QED BY <1>1, <1>2, <1>3, <1>4 DEF StopStep

LEMMA TypeNext == TypeOK /\ [Next]_vars => TypeOK'
<1> SUFFICES ASSUME TypeOK, [Next]_vars PROVE TypeOK'
  OBVIOUS
<1>1. CASE ParentDone
  BY <1>1 DEF TypeOK, ParentDone, running, stopping
<1>2. ASSUME NEW s \in Stores, Flip(s) PROVE TypeOK'
  BY <1>2 DEF TypeOK, Flip, running, stopping
<1>3. CASE UNCHANGED vars
  BY <1>3 DEF TypeOK, vars, environment, running, stopping
<1> QED BY <1>1, <1>2, <1>3, TypeRunning, TypeBoot, TypeStarted, TypeLoop, TypeStopping DEF Next

(* The state of the application and of its storages stays in its ranges.    *)
THEOREM TypeCorrect == Spec => []TypeOK
<1>1. Init => TypeOK
  BY TypeInit
<1>2. TypeOK /\ [Next]_vars => TypeOK'
  BY TypeNext
<1> QED BY <1>1, <1>2, PTL DEF Spec

-----------------------------------------------------------------------------
(* How far Stop has come: the handlers before "at" have stopped, the others *)
(* have not, and the failures are those collected.                          *)
Progress == \A i \in 1..Len(Handlers) : outcome[Handlers[i]] = "none" <=> at <= i
Reported == errs = {h \in Names : outcome[h] = "failed"}
ReturnedLast == stop = "returned" => at > Len(Handlers)
Sequenced == TypeOK /\ Progress /\ Reported /\ ReturnedLast

LEMMA SequencedInit == Init => Sequenced
<1> SUFFICES ASSUME Init PROVE Sequenced
  OBVIOUS
<1>1. Progress
  <2> SUFFICES ASSUME NEW i \in 1..Len(Handlers)
               PROVE  outcome[Handlers[i]] = "none" /\ at <= i
    BY DEF Progress
  <2> QED BY HandlerAt DEF Init
<1>2. Reported /\ ReturnedLast
  BY DEF Init, Reported, ReturnedLast
<1> QED BY <1>1, <1>2, TypeInit DEF Sequenced

(* A handler that stops advances Stop by one position.                      *)
LEMMA StoppedAdvances ==
  ASSUME Sequenced, NEW h \in Names, Stopping(h),
         NEW result \in {"ok", "failed"}, Stopped(h, result)
  PROVE  Progress' /\ Reported' /\ ReturnedLast'
<1>1. at \in 1..Len(Handlers) /\ at' = at + 1 /\ Handlers[at] = h
  BY LengthIsNat DEF Sequenced, TypeOK, Stopping, Stopped
<1>2. outcome' = [outcome EXCEPT ![h] = result] /\ outcome \in [Names -> {"none", "ok", "failed"}]
  BY DEF Sequenced, TypeOK, Stopped
<1>3. Progress'
  <2> SUFFICES ASSUME NEW i \in 1..Len(Handlers)
               PROVE  outcome'[Handlers[i]] = "none" <=> at + 1 <= i
    BY <1>1 DEF Progress
  <2>1. outcome[Handlers[i]] = "none" <=> at <= i
    BY DEF Sequenced, Progress
  <2>2. CASE i = at
    BY <2>2, <1>1, <1>2
  <2>3. CASE i # at
    <3>1. Handlers[i] # h
      BY <2>3, <1>1, LifecycleAssumption
    <3>2. outcome'[Handlers[i]] = outcome[Handlers[i]]
      BY <3>1, <1>2, HandlerAt
    <3> QED BY <3>2, <2>1, <2>3, <1>1, LengthIsNat
  <2> QED BY <2>2, <2>3
<1>4. Reported'
  <2>1. outcome[h] = "none"
    BY <1>1, LengthIsNat DEF Sequenced, Progress
  <2>2. errs = {g \in Names : outcome[g] = "failed"}
    BY DEF Sequenced, Reported
  <2>3. errs' = IF result = "failed" THEN errs \cup {h} ELSE errs
    BY DEF Stopped
  <2> QED BY <2>1, <2>2, <2>3, <1>2 DEF Reported
<1>5. ReturnedLast'
  BY DEF Stopped, ReturnedLast
<1> QED BY <1>3, <1>4, <1>5

LEMMA SequencedNext == Sequenced /\ [Next]_vars => Sequenced'
<1> SUFFICES ASSUME Sequenced, [Next]_vars PROVE Sequenced'
  OBVIOUS
<1>1. TypeOK'
  BY TypeNext DEF Sequenced
<1>2. ASSUME UNCHANGED <<at, outcome, errs>>, stop' # "returned" \/ at > Len(Handlers) \/ stop' = stop
      PROVE  Progress' /\ Reported' /\ ReturnedLast'
  BY <1>2 DEF Sequenced, Progress, Reported, ReturnedLast
<1>3. ASSUME UNCHANGED stopping PROVE Progress' /\ Reported' /\ ReturnedLast'
  BY <1>2, <1>3 DEF stopping
<1>4. ASSUME Run \/ RunStep PROVE UNCHANGED stopping
  BY <1>4 DEF Run, RunStep, Install, Launch, RunReturns
<1>5. ASSUME NEW s \in Stores, StoreBootStep(s) \/ LoopEnds(s) \/ LoopStep(s) \/ Flip(s)
      PROVE  UNCHANGED stopping
  BY <1>5 DEF StoreBootStep, StoreInstalls, StoreLaunchesLoop, StorePings, StoreRecords,
     LoopEnds, LoopStep, LoopPings, LoopRecords, LoopTo, Goto, Flip
<1>6. ASSUME NEW h \in Names, BootStep(h) PROVE UNCHANGED stopping
  BY <1>6 DEF BootStep, Started, Goto
<1>7. ASSUME StopCancels PROVE Progress' /\ Reported' /\ ReturnedLast'
  <2>1. UNCHANGED <<at, outcome, errs>> /\ (stop' # "returned" \/ at > Len(Handlers))
    BY <1>7 DEF StopCancels
  <2> QED BY <2>1, <1>2
<1>8. ASSUME NEW h \in Names, StopHandler(h) PROVE Progress' /\ Reported' /\ ReturnedLast'
  BY <1>8, StoppedAdvances DEF StopHandler
<1>9. ASSUME NEW s \in Stores, StoreStopStep(s) PROVE Progress' /\ Reported' /\ ReturnedLast'
  <2> s \in Names
    BY StoresAreHandlers
  <2>1. CASE StoreCancels(s)
    <3>1. UNCHANGED <<at, outcome, errs>> /\ (stop' # "returned" \/ at > Len(Handlers))
      BY <2>1 DEF StoreCancels
    <3> QED BY <3>1, <1>2
  <2>2. CASE StoreDrains(s)
    <3>1. UNCHANGED <<at, outcome, errs>> /\ (stop' # "returned" \/ at > Len(Handlers))
      BY <2>2 DEF StoreDrains
    <3> QED BY <3>1, <1>2
  <2>3. CASE StoreUnhealthy(s)
    <3>1. UNCHANGED <<at, outcome, errs>> /\ (stop' # "returned" \/ at > Len(Handlers))
      BY <2>3 DEF StoreUnhealthy
    <3> QED BY <3>1, <1>2
  <2>4. CASE StoreCloses(s)
    BY <2>4, StoppedAdvances DEF StoreCloses
  <2> QED BY <1>9, <2>1, <2>2, <2>3, <2>4 DEF StoreStopStep
<1>10. ASSUME StopReturnsNow PROVE Progress' /\ Reported' /\ ReturnedLast'
  <2>1. UNCHANGED <<at, outcome, errs>> /\ (stop' # "returned" \/ at > Len(Handlers))
    BY <1>10 DEF StopReturnsNow
  <2> QED BY <2>1, <1>2
<1>11. ASSUME ParentDone \/ UNCHANGED vars PROVE UNCHANGED stopping
  BY <1>11 DEF ParentDone, vars
<1>12. Progress' /\ Reported' /\ ReturnedLast'
  BY <1>3, <1>4, <1>5, <1>6, <1>7, <1>8, <1>9, <1>10, <1>11 DEF Next, StopStep
<1> QED BY <1>1, <1>12 DEF Sequenced

LEMMA StopIsSequenced == Spec => []Sequenced
<1>1. Sequenced /\ [Next]_vars => Sequenced'
  BY SequencedNext
<1> QED BY SequencedInit, <1>1, PTL DEF Spec

(* Application.Stop stops every handler whichever of them fail, and returns *)
(* exactly their failures.                                                  *)
THEOREM NobodyIsSkipped == Spec => []EveryoneStops
<1>1. Sequenced => EveryoneStops
  <2> SUFFICES ASSUME Sequenced, stop = "returned"
               PROVE  /\ \A h \in Names : outcome[h] # "none"
                      /\ errs = {h \in Names : outcome[h] = "failed"}
    BY DEF EveryoneStops
  <2>1. at > Len(Handlers) /\ at \in Nat
    BY LengthIsNat DEF Sequenced, ReturnedLast, TypeOK
  <2>2. ASSUME NEW h \in Names PROVE outcome[h] # "none"
    <3>1. PICK i \in 1..Len(Handlers) : h = Handlers[i]
      BY DEF Names
    <3> QED BY <3>1, <2>1, LengthIsNat DEF Sequenced, Progress
  <2> QED BY <2>2 DEF Sequenced, Reported
<1> QED BY <1>1, StopIsSequenced, PTL

-----------------------------------------------------------------------------
(* A store on its way down: what Stop has established so far stays so,      *)
(* because a Run that has returned and a health loop that has ended write   *)
(* nothing any more, and a handler is launched once.                        *)
Past(s, labels) == outcome[s] # "none" \/ (stop \in labels /\ Stopping(s))
Down(s) ==
  /\ outcome[s] # "none" => closed[s]
  /\ ~raced[s] /\ Past(s, {"draining", "drained", "closing"}) => boot[s] = "done"
  /\ ~raced[s] /\ Past(s, {"drained", "closing"}) => loop[s] \in {"none", "ended"}
  /\ ~raced[s] /\ Past(s, {"closing"}) => ~healthy[s]
Unlaunched == \A i \in 1..Len(Handlers) : next <= i => boot[Handlers[i]] = "none"
Settled == Sequenced /\ Unlaunched /\ \A s \in Stores : Down(s)

LEMMA SettledInit == Init => Settled
<1> SUFFICES ASSUME Init PROVE Settled
  OBVIOUS
<1>1. Unlaunched
  BY HandlerAt DEF Init, Unlaunched
<1>2. ASSUME NEW s \in Stores PROVE Down(s)
  <2>1. outcome[s] = "none" /\ stop = "idle"
    BY StoresAreHandlers DEF Init
  <2> QED BY <2>1 DEF Down, Past
<1> QED BY <1>1, <1>2, SequencedInit DEF Settled

(* A step of Run, of a handler's Run, of a health loop or of the            *)
(* environment does not disturb a store whose Run has returned.             *)
Undisturbed(s) ==
  boot[s] = "done" =>
    /\ boot'[s] = "done"
    /\ loop[s] \in {"none", "ended"} => loop'[s] = loop[s] /\ healthy'[s] = healthy[s]

LEMMA UndisturbedStaysDown ==
  ASSUME NEW s \in Stores, Down(s), Undisturbed(s), UNCHANGED <<stopping, closed>>
  PROVE  Down(s)'
<1>1. UNCHANGED <<outcome, stop, at, raced, closed>>
  BY DEF stopping
<1>2. \A labels : Past(s, labels)' <=> Past(s, labels)
  BY <1>1 DEF Past, Stopping
<1>3. Past(s, {"drained", "closing"}) => Past(s, {"draining", "drained", "closing"})
  BY DEF Past
<1>4. Past(s, {"closing"}) => Past(s, {"drained", "closing"})
  BY DEF Past
<1> QED BY <1>1, <1>2, <1>3, <1>4 DEF Down, Undisturbed

LEMMA UnlaunchedKept ==
  ASSUME Unlaunched, next' = next, \A h \in Names : boot[h] = "none" => boot'[h] = "none"
  PROVE  Unlaunched'
BY HandlerAt DEF Unlaunched

LEMMA SettledRunning ==
  ASSUME Settled, Run \/ RunStep
  PROVE  Unlaunched' /\ \A s \in Stores : Down(s)'
<1> DEFINE Quietly == UNCHANGED <<stopping, closed, loop, healthy>>
<1>1. ASSUME UNCHANGED <<next, boot>>, Quietly PROVE Unlaunched' /\ \A s \in Stores : Down(s)'
  BY <1>1, UndisturbedStaysDown, UnlaunchedKept DEF Settled, Undisturbed
<1>2. CASE Run
  <2>1. UNCHANGED <<next, boot>> /\ Quietly
    BY <1>2 DEF Run
  <2> QED BY <2>1, <1>1
<1>3. CASE Install
  <2>1. UNCHANGED <<next, boot>> /\ Quietly
    BY <1>3 DEF Install
  <2> QED BY <2>1, <1>1
<1>4. CASE RunReturns
  <2>1. UNCHANGED <<next, boot>> /\ Quietly
    BY <1>4 DEF RunReturns
  <2> QED BY <2>1, <1>1
<1>5. CASE Launch
  <2>1. next' = next + 1 /\ boot' = [boot EXCEPT ![Handlers[next]] = "launched"] /\ Quietly
    BY <1>5 DEF Launch
  <2>2. next \in 1..Len(Handlers) /\ boot[Handlers[next]] = "none"
    BY <1>5, LengthIsNat DEF Launch, Settled, Sequenced, TypeOK, Unlaunched
  <2>3. boot \in [Names -> {"none", "launched", "installed", "pinging", "ok", "failed", "done"}]
    BY DEF Settled, Sequenced, TypeOK
  <2>4. Unlaunched'
    <3> SUFFICES ASSUME NEW i \in 1..Len(Handlers), next + 1 <= i
                 PROVE  boot'[Handlers[i]] = "none"
      BY <2>1 DEF Unlaunched
    <3>1. next <= i /\ i # next
      BY <2>2, LengthIsNat
    <3>2. boot[Handlers[i]] = "none" /\ Handlers[i] # Handlers[next]
      BY <3>1, <2>2, LifecycleAssumption DEF Settled, Unlaunched
    <3> QED BY <3>2, <2>1, <2>3, HandlerAt
  <2>5. ASSUME NEW s \in Stores PROVE Undisturbed(s)
    BY <2>1, <2>2, <2>3, StoresAreHandlers DEF Undisturbed
  <2> QED BY <2>1, <2>4, <2>5, UndisturbedStaysDown DEF Settled
<1> HIDE DEF Quietly
<1> QED BY <1>2, <1>3, <1>4, <1>5 DEF RunStep

LEMMA SettledBoot ==
  ASSUME Settled, NEW h \in Names,
         BootStep(h) \/ (h \in Stores /\ StoreBootStep(h))
  PROVE  Unlaunched' /\ \A s \in Stores : Down(s)'
<1>1. boot \in [Names -> {"none", "launched", "installed", "pinging", "ok", "failed", "done"}]
      /\ loop \in [Stores -> {"none", "select", "ok", "failed", "ended"}]
      /\ healthy \in [Stores -> BOOLEAN]
  BY DEF Settled, Sequenced, TypeOK
<1>2. /\ UNCHANGED <<next, stopping, closed>>
      /\ boot[h] \notin {"none", "done"}
      /\ \E label : boot' = [boot EXCEPT ![h] = label]
      /\ loop' = loop \/ \E label : loop' = [loop EXCEPT ![h] = label]
      /\ healthy' = healthy \/ \E flag : healthy' = [healthy EXCEPT ![h] = flag]
  <2>1. CASE BootStep(h)
    BY <2>1 DEF BootStep, Started, Goto, running
  <2>2. CASE StoreInstalls(h)
    BY <2>2 DEF StoreInstalls, Goto, running
  <2>3. CASE StoreLaunchesLoop(h)
    BY <2>3 DEF StoreLaunchesLoop, Goto, running
  <2>4. CASE StorePings(h)
    BY <2>4 DEF StorePings, Goto, running
  <2>5. CASE StoreRecords(h)
    BY <2>5 DEF StoreRecords, Goto, running
  <2> QED BY <2>1, <2>2, <2>3, <2>4, <2>5 DEF StoreBootStep
<1>3. Unlaunched'
  BY <1>1, <1>2, UnlaunchedKept DEF Settled
<1>4. ASSUME NEW s \in Stores PROVE Undisturbed(s)
  BY <1>1, <1>2, StoresAreHandlers DEF Undisturbed
<1> QED BY <1>2, <1>3, <1>4, UndisturbedStaysDown DEF Settled

LEMMA SettledLoop ==
  ASSUME Settled, NEW t \in Stores, LoopEnds(t) \/ LoopStep(t)
  PROVE  Unlaunched' /\ \A s \in Stores : Down(s)'
<1>1. loop \in [Stores -> {"none", "select", "ok", "failed", "ended"}]
      /\ healthy \in [Stores -> BOOLEAN]
  BY DEF Settled, Sequenced, TypeOK
<1>2. /\ UNCHANGED <<next, boot, stopping, closed>>
      /\ loop[t] \notin {"none", "ended"}
      /\ \E label : loop' = [loop EXCEPT ![t] = label]
      /\ healthy' = healthy \/ \E flag : healthy' = [healthy EXCEPT ![t] = flag]
  <2>1. CASE LoopEnds(t)
    BY <2>1 DEF LoopEnds, LoopTo, running
  <2>2. CASE LoopPings(t)
    BY <2>2 DEF LoopPings, LoopTo, running
  <2>3. CASE LoopRecords(t)
    BY <2>3 DEF LoopRecords, LoopTo, running
  <2> QED BY <2>1, <2>2, <2>3 DEF LoopStep
<1>3. Unlaunched'
  BY <1>2, UnlaunchedKept DEF Settled
<1>4. ASSUME NEW s \in Stores PROVE Undisturbed(s)
  BY <1>1, <1>2 DEF Undisturbed
<1> QED BY <1>2, <1>3, <1>4, UndisturbedStaysDown DEF Settled

LEMMA SettledEnvironment ==
  ASSUME Settled, ParentDone \/ (\E s \in Stores : Flip(s)) \/ UNCHANGED vars
  PROVE  Unlaunched' /\ \A s \in Stores : Down(s)'
<1>1. UNCHANGED <<next, boot, loop, healthy, stopping, closed>>
  BY DEF ParentDone, Flip, vars, running
<1> QED BY <1>1, UndisturbedStaysDown, UnlaunchedKept DEF Settled, Undisturbed

(* A step of Stop that concerns another handler.                            *)
LEMMA StoppedElsewhere ==
  ASSUME NEW s \in Stores, Down(s),
         outcome'[s] = outcome[s], raced'[s] = raced[s], closed'[s] = closed[s],
         healthy'[s] = healthy[s], UNCHANGED <<boot, loop>>,
         stop' \notin {"draining", "drained", "closing"} \/ ~Stopping(s)'
  PROVE  Down(s)'
<1>1. \A labels \in SUBSET {"draining", "drained", "closing"} :
        Past(s, labels)' => outcome[s] # "none"
  BY DEF Past
<1>2. outcome[s] # "none" => \A labels : Past(s, labels)
  BY DEF Past
<1> QED BY <1>1, <1>2 DEF Down

LEMMA SettledStoreStop ==
  ASSUME Settled, NEW t \in Stores, StoreStopStep(t)
  PROVE  \A s \in Stores : Down(s)'
<1> t \in Names
  BY StoresAreHandlers
<1>1. /\ outcome \in [Names -> {"none", "ok", "failed"}] /\ raced \in [Stores -> BOOLEAN]
      /\ healthy \in [Stores -> BOOLEAN] /\ closed \in [Stores -> BOOLEAN]
      /\ at \in 1..Len(Handlers) + 1
  BY DEF Settled, Sequenced, TypeOK
<1>2. Stopping(t) /\ at \in 1..Len(Handlers) /\ Handlers[at] = t
  BY <1>1, LengthIsNat DEF StoreStopStep, StoreCancels, StoreDrains, StoreUnhealthy, StoreCloses, Stopping
<1>3. outcome[t] = "none"
  BY <1>2, LengthIsNat DEF Settled, Sequenced, Progress
<1>4. Down(t)
  BY DEF Settled
<1>5. ASSUME NEW s \in Stores, s # t PROVE Down(s)'
  <2>1. /\ UNCHANGED <<boot, loop>>
        /\ outcome'[s] = outcome[s] /\ raced'[s] = raced[s]
        /\ closed'[s] = closed[s] /\ healthy'[s] = healthy[s]
    <3>1. CASE StoreCancels(t)
      BY <1>1, <1>5, <3>1, StoresAreHandlers DEF StoreCancels
    <3>2. CASE StoreDrains(t)
      BY <3>2 DEF StoreDrains
    <3>3. CASE StoreUnhealthy(t)
      BY <1>1, <1>5, <3>3 DEF StoreUnhealthy
    <3>4. CASE StoreCloses(t)
      BY <1>1, <1>5, <3>4, StoresAreHandlers DEF StoreCloses, Stopped
    <3> QED BY <3>1, <3>2, <3>3, <3>4 DEF StoreStopStep
  <2>2. stop' = "handlers" \/ at' = at
    BY DEF StoreStopStep, StoreCancels, StoreDrains, StoreUnhealthy, StoreCloses, Stopped
  <2>3. stop' \notin {"draining", "drained", "closing"} \/ ~Stopping(s)'
    BY <1>2, <1>5, <2>2 DEF Stopping
  <2>4. Down(s)
    BY DEF Settled
  <2> QED BY <2>1, <2>3, <2>4, StoppedElsewhere
<1>6. Down(t)'
  <2>1. CASE StoreCancels(t)
    <3>1. stop' = "draining" /\ raced'[t] = (boot[t] # "done") /\ UNCHANGED <<boot, outcome>>
      BY <1>1, <2>1 DEF StoreCancels
    <3> QED BY <3>1, <1>3 DEF Down, Past
  <2>2. CASE StoreDrains(t)
    <3>1. /\ stop = "draining" /\ stop' = "drained" /\ loop[t] \in {"none", "ended"}
          /\ UNCHANGED <<boot, loop, outcome, raced>>
      BY <2>2 DEF StoreDrains
    <3> QED BY <3>1, <1>2, <1>3, <1>4 DEF Down, Past
  <2>3. CASE StoreUnhealthy(t)
    <3>1. /\ stop = "drained" /\ stop' = "closing" /\ ~healthy'[t]
          /\ UNCHANGED <<boot, loop, outcome, raced>>
      BY <1>1, <2>3 DEF StoreUnhealthy
    <3> QED BY <3>1, <1>2, <1>3, <1>4 DEF Down, Past
  <2>4. CASE StoreCloses(t)
    <3>1. stop = "closing" /\ closed'[t] /\ UNCHANGED <<boot, loop, healthy, raced>>
      BY <1>1, <2>4 DEF StoreCloses
    <3> QED BY <3>1, <1>2, <1>4 DEF Down, Past
  <2> QED BY <2>1, <2>2, <2>3, <2>4 DEF StoreStopStep
<1> QED BY <1>5, <1>6

LEMMA SettledStopping ==
  ASSUME Settled, StopCancels \/ StopStep
  PROVE  Unlaunched' /\ \A s \in Stores : Down(s)'
<1>1. outcome \in [Names -> {"none", "ok", "failed"}]
  BY DEF Settled, Sequenced, TypeOK
<1>2. ASSUME StopCancels \/ StopReturnsNow PROVE \A s \in Stores : Down(s)'
  <2>1. /\ UNCHANGED <<outcome, raced, closed, healthy, boot, loop>>
        /\ stop' \notin {"draining", "drained", "closing"}
    BY <1>2 DEF StopCancels, StopReturnsNow
  <2> QED BY <2>1, StoppedElsewhere DEF Settled
<1>3. ASSUME NEW h \in Names, StopHandler(h) PROVE \A s \in Stores : Down(s)'
  <2>1. /\ UNCHANGED <<raced, closed, healthy, boot, loop>>
        /\ stop' = "handlers" /\ h \notin Stores
        /\ \E result : outcome' = [outcome EXCEPT ![h] = result]
    BY <1>3 DEF StopHandler, Stopped
  <2>2. \A s \in Stores : outcome'[s] = outcome[s]
    BY <1>1, <2>1, StoresAreHandlers
  <2> QED BY <2>1, <2>2, StoppedElsewhere DEF Settled
<1>4. \A s \in Stores : Down(s)'
  BY <1>2, <1>3, SettledStoreStop DEF StopStep
<1>5. UNCHANGED <<next, boot>>
  BY DEF StopCancels, StopStep, StopHandler, StoreStopStep, StoreCancels, StoreDrains,
     StoreUnhealthy, StoreCloses, StopReturnsNow, running
<1> QED BY <1>4, <1>5, UnlaunchedKept DEF Settled

LEMMA SettledNext == Settled /\ [Next]_vars => Settled'
<1> SUFFICES ASSUME Settled, [Next]_vars PROVE Settled'
  OBVIOUS
<1>1. Sequenced'
  BY SequencedNext DEF Settled
<1>2. Unlaunched' /\ \A s \in Stores : Down(s)'
  BY SettledRunning, SettledBoot, SettledLoop, SettledEnvironment, SettledStopping,
     StoresAreHandlers DEF Next
<1> QED BY <1>1, <1>2 DEF Settled

(* The inductive invariant behind StopIsFinal.                              *)
THEOREM StopSettles == Spec => []Settled
<1>1. Settled /\ [Next]_vars => Settled'
  BY SettledNext
<1> QED BY SettledInit, <1>1, PTL DEF Spec

(* A storage whose Run had returned when it was stopped has no health loop, *)
(* a closed pool and no claim to be healthy, for ever after.                *)
THEOREM StopForGood == Spec => []StopIsFinal
<1>1. Settled => StopIsFinal
  BY DEF Settled, Down, Past, StopIsFinal
<1> QED BY <1>1, StopSettles, PTL
=============================================================================
