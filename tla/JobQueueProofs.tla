--------------------------- MODULE JobQueueProofs ---------------------------
(***************************************************************************)
(* Proofs about JobQueue, for any jobs, consumers, bounds and number of    *)
(* event tables.                                                           *)
(***************************************************************************)
EXTENDS JobQueue, FiniteSetTheorems, TLAPS

(* t was taken when s was, or later.                                        *)
Precedes(s, t) == s.xmax <= t.xmax /\ \A x \in t.xip : x < s.xmax => x \in s.xip

(* Transaction ids are handed out in order.                                 *)
IdsOK ==
  /\ 0 < horizon /\ horizon <= next
  /\ step1 < horizon /\ step2 < next
  /\ \A j \in Jobs : sender[j].tx < next
  /\ \A j \in Jobs : sender[j].tx # 0 <=> sender[j].state \in {"open", "sent"}
  /\ \A j, k \in Jobs : sender[j].tx = sender[k].tx /\ sender[j].tx # 0 => j = k

(* An event's sender has sent; while it is open, the event is its own.      *)
EventsOK ==
  \A e \in events :
    /\ 0 < e.tx /\ e.tx < next
    /\ sender[e.job].state \in {"sent", "committed"}
    /\ sender[e.job].state = "sent" => e.tx = sender[e.job].tx

(* Only accepted jobs wait to be moved; a mover at rest has nothing to move.*)
RetriesOK ==
  /\ \A r \in retryQueue : r.job \in Accepted
  /\ mover.due = {} => mover = Resting

(* Later ticks see more, and none sees a transaction in progress.           *)
TicksOK ==
  /\ newest \in DOMAIN ticks /\ \A n \in DOMAIN ticks : n <= newest
  /\ \A n \in DOMAIN ticks :
       /\ \A x \in ticks[n].xip : x < ticks[n].xmax
       /\ ticks[n].xmax <= horizon
       /\ \A x \in Open : ~Visible(x, ticks[n])
  /\ \A m, n \in DOMAIN ticks : m <= n => Precedes(ticks[m], ticks[n])

(* Rotation never deletes the subscription's ticks.                         *)
CursorOK ==
  /\ lastTick \in DOMAIN ticks
  /\ nextTick # 0 => nextTick \in DOMAIN ticks /\ lastTick < nextTick

(* Where switching tables left the events that a batch may still need.      *)
TablesOK ==
  /\ mover.due # {} => mover.dest = cur \/ (mover.dest = Previous /\ step2 = 0)
  /\ \A e \in events :
       /\ e.table \in {cur, Previous} \/ Visible(e.tx, ticks[lastTick])
       /\ e.table # cur /\ step2 # 0 => e.tx < step2
       /\ e.table = cur =>
            \A n \in DOMAIN ticks : ticks[n].xmax < step1 => ~Visible(e.tx, ticks[n])

IInv ==
  /\ TypeOK /\ IdsOK /\ EventsOK /\ RetriesOK /\ TicksOK /\ CursorOK /\ TablesOK
  /\ OnlyCommitted

-----------------------------------------------------------------------------
(* Snapshots.                                                               *)

(* What a snapshot sees, every later one sees.                              *)
LEMMA StillVisible ==
  ASSUME NEW s \in Snapshots, NEW t \in Snapshots, Precedes(s, t),
         NEW x \in Nat, Visible(x, s)
  PROVE  Visible(x, t)
BY DEF Precedes, Visible, Snapshots

(* A snapshot all of whose transactions are above an id is followed by such.*)
LEMMA StillAbove ==
  ASSUME NEW s \in Snapshots, NEW t \in Snapshots, Precedes(s, t),
         NEW x \in Nat, Above(s, x)
  PROVE  Above(t, x) /\ Above(t, x - 1)
BY DEF Precedes, Above, Snapshots

(* batch_event_sql's range and list are the ids between two snapshots.      *)
LEMMA SelectedIsBetween ==
  ASSUME NEW last \in Snapshots, NEW this \in Snapshots, Precedes(last, this),
         \A x \in last.xip : x < last.xmax, NEW x \in Nat
  PROVE  Selected(last, this, x) <=> ~Visible(x, last) /\ Visible(x, this)
<1>1. ASSUME Selected(last, this, x)
      PROVE  ~Visible(x, last) /\ Visible(x, this)
  <2>1. CASE x \in Older(last, this)
    BY <2>1 DEF Older, Visible, Precedes, Snapshots
  <2>2. CASE x \notin Older(last, this)
    BY <1>1, <2>2 DEF Selected, InRange, InList
  <2> QED
    BY <2>1, <2>2
<1>2. ASSUME ~Visible(x, last), Visible(x, this)
      PROVE  Selected(last, this, x)
  <2>1. x <= this.xmax
    BY <1>2 DEF Visible, Snapshots
  <2>2. CASE x >= last.xmax
    BY <1>2, <2>1, <2>2 DEF Selected, InRange
  <2>3. CASE x < last.xmax
    <3>1. x \in Older(last, this)
      BY <1>2, <2>3 DEF Visible, Older, Snapshots
    <3>2. x <= x
      OBVIOUS
    <3> QED
      BY <1>2, <2>1, <3>1, <3>2 DEF Selected, InRange, InList
  <2> QED
    BY <2>2, <2>3 DEF Snapshots
<1> QED
  BY <1>1, <1>2

(* No id is in both.                                                        *)
LEMMA SelectedOnce ==
  ASSUME NEW last \in Snapshots, NEW this \in Snapshots,
         \A y \in last.xip : y < last.xmax, NEW x \in Nat
  PROVE  ~(InRange(last, this, x) /\ InList(last, this, x))
<1> SUFFICES ASSUME x \in Older(last, this), NEW y \in Older(last, this),
                    InReach(last, this, y), y <= x
             PROVE  InReach(last, this, x)
  <2>1. x \in Older(last, this) => ~(x >= last.xmax)
    BY DEF Older, Snapshots
  <2> QED
    BY <2>1 DEF InRange, InList
<1>1. Older(last, this) \subseteq Nat
  BY DEF Older, Snapshots
<1>2. \A z \in Older(last, this) : z >= x => z >= y
  BY <1>1
<1> QED
  BY <1>2 DEF InReach

-----------------------------------------------------------------------------
(* What a consuming process leaves alone: everything but the cursor, its    *)
(* own messages and what becomes of a job.                                  *)
LEMMA ConsumerFrame ==
  ASSUME NEW c \in Consumers, Consume(c) \/ Stop(c)
  PROVE  UNCHANGED <<next, horizon, sender, events, cur, step1, step2, rotations,
                     ticks, newest, mover>>
<1> USE DEF ids, rotation, cursor, retries, outcomes
<1>1. CASE Receive(c)
  BY <1>1 DEF Receive
<1>2. CASE ReceiveAgain(c)
  BY <1>2 DEF ReceiveAgain
<1>3. ASSUME NEW v \in consumer[c].todo, Handle(c, v) \/ Bury(c, v) \/ Retry(c, v) \/ GiveUp(c, v)
      PROVE  UNCHANGED <<next, horizon, sender, events, cur, step1, step2, rotations,
                         ticks, newest, mover>>
  BY <1>3 DEF Handle, Bury, Retry, GiveUp
<1>4. CASE Ack(c)
  BY <1>4 DEF Ack
<1>5. CASE Stop(c)
  BY <1>5 DEF Stop
<1> QED
  BY <1>1, <1>2, <1>3, <1>4, <1>5 DEF Consume, Deliver

(* What receive hands out is part of the batch.                             *)
LEMMA HandedIsPart ==
  ASSUME NEW rows, NEW some \in Handed(rows)
  PROVE  some \subseteq rows
BY DEF Handed

LEMMA TablesType ==
  ASSUME cur \in Tables
  PROVE  /\ Previous \in Tables /\ Following \in Tables
         /\ Following # cur
         /\ cur' = Following => Previous' = cur
BY QueueAssumption DEF Tables, Previous, Following

-----------------------------------------------------------------------------
(* Types.                                                                   *)

(* A consuming process keeps the types.                                     *)
LEMMA ConsumerTypes ==
  ASSUME TypeOK, NEW c \in Consumers, Consume(c) \/ Stop(c)
  PROVE  TypeOK'
<1> DEFINE Rest ==
      /\ lastTick' \in Nat /\ nextTick' \in Nat
      /\ retryQueue \subseteq retryQueue' /\ retryQueue' \subseteq [job : Jobs, retry : Nat]
      /\ deadLetter' \subseteq Jobs /\ handled' \subseteq Jobs
      /\ consumer' \in [Consumers -> [batch : Nat, todo : SUBSET Events]]
      /\ stops' \in Nat
<1> SUFFICES Rest
  BY ConsumerFrame DEF TypeOK
<1> USE DEF ids, rotation, cursor, retries, outcomes
<1>1. CASE Receive(c)
  <2>1. PICK n \in Later :
          LET rows == Rows(ticks[lastTick], ticks[n]) IN
            IF rows = {}
            THEN lastTick' = n /\ UNCHANGED <<nextTick, consumer>>
            ELSE /\ nextTick' = n /\ UNCHANGED lastTick
                 /\ \E some \in Handed(rows) :
                      consumer' = [consumer EXCEPT ![c] = [batch |-> n, todo |-> some]]
    BY <1>1 DEF Receive
  <2>2. n \in Nat /\ Rows(ticks[lastTick], ticks[n]) \subseteq Events
    BY DEF TypeOK, Later, Rows
  <2>3. consumer' \in [Consumers -> [batch : Nat, todo : SUBSET Events]]
    BY <2>1, <2>2, HandedIsPart DEF TypeOK
  <2> QED
    BY <1>1, <2>1, <2>2, <2>3 DEF Receive, TypeOK
<1>2. CASE ReceiveAgain(c)
  <2>1. PICK some \in Handed(BatchRows) :
          consumer' = [consumer EXCEPT ![c] = [batch |-> nextTick, todo |-> some]]
    BY <1>2 DEF ReceiveAgain
  <2>2. some \subseteq Events
    BY HandedIsPart DEF TypeOK, BatchRows, Rows
  <2> QED
    BY <1>2, <2>1, <2>2 DEF ReceiveAgain, TypeOK
<1>3. ASSUME NEW v \in consumer[c].todo, Handle(c, v) \/ Bury(c, v)
      PROVE  Rest
  <2>1. v \in Events /\ v.job \in Jobs
    BY DEF TypeOK, Events
  <2> QED
    BY <1>3, <2>1 DEF Handle, Bury, Forget, TypeOK
<1>4. ASSUME NEW v \in consumer[c].todo, Retry(c, v)
      PROVE  Rest
  <2>1. v \in Events /\ v.job \in Jobs
    BY DEF TypeOK, Events
  <2>2. \A e \in Copies(c, v) : e.retry + 1 \in Nat
    BY DEF TypeOK, Copies, Events
  <2>3. retryQueue \subseteq retryQueue' /\ retryQueue' \subseteq [job : Jobs, retry : Nat]
    BY <1>4, <2>1, <2>2 DEF Retry, TypeOK
  <2> QED
    BY <1>4, <2>3 DEF Retry, Forget, TypeOK
<1>5. ASSUME NEW v \in consumer[c].todo, GiveUp(c, v)
      PROVE  Rest
  BY <1>5 DEF GiveUp, Polling, TypeOK
<1>6. CASE Ack(c)
  BY <1>6 DEF Ack, Polling, TypeOK
<1>7. CASE Stop(c)
  BY <1>7 DEF Stop, Polling, TypeOK
<1> QED
  BY <1>1, <1>2, <1>3, <1>4, <1>5, <1>6, <1>7 DEF Consume, Deliver

(* Every step keeps them.                                                   *)
LEMMA TypeStep ==
  ASSUME TypeOK, [Next]_vars
  PROVE  TypeOK'
<1> USE DEF ids, rotation, cursor, retries, outcomes
<1>1. ASSUME NEW j \in Jobs, Sending(j)
      PROVE  TypeOK'
  <2>1. CASE Begin(j)
    BY <2>1 DEF TypeOK, Begin
  <2>2. CASE Send(j)
    BY <2>2 DEF TypeOK, Send, Events
  <2>3. CASE Commit(j)
    BY <2>3 DEF TypeOK, Commit, NoTx, Ended
  <2>4. CASE Abort(j)
    BY <2>4 DEF TypeOK, Abort, NoTx, Ended
  <2> QED
    BY <1>1, <2>1, <2>2, <2>3, <2>4 DEF Sending
<1>2. CASE Tick
  BY <1>2 DEF TypeOK, Tick, CurrentSnapshot, Snapshots, Open
<1>3. ASSUME NEW c \in Consumers, Consume(c) \/ Stop(c)
      PROVE  TypeOK'
  BY <1>3, ConsumerTypes
<1>4. ASSUME NEW due \in SUBSET retryQueue, Take(due)
      PROVE  TypeOK'
  BY <1>4 DEF TypeOK, Take
<1>5. CASE Move
  <2>1. events' \subseteq Events
    BY <1>5 DEF TypeOK, Move, Events
  <2>2. mover' \in [due : SUBSET retryQueue', dest : Tables]
    BY <1>5, QueueAssumption DEF Move, Resting, Tables
  <2>3. retryQueue' \subseteq [job : Jobs, retry : Nat] /\ next' \in Nat /\ horizon' \in Nat
    BY <1>5 DEF TypeOK, Move, Alone
  <2> QED
    BY <1>5, <2>1, <2>2, <2>3 DEF TypeOK, Move
<1>6. CASE RotateStep1
  <2>1. cur' \in Tables /\ events' \subseteq Events
    BY <1>6, TablesType DEF TypeOK, RotateStep1
  <2>2. DOMAIN ticks' \subseteq Nat \ {0} /\ \A n \in DOMAIN ticks' : ticks'[n] \in Snapshots
    BY <1>6 DEF TypeOK, RotateStep1
  <2>3. next' \in Nat /\ horizon' \in Nat /\ step1' \in Nat /\ step2' \in Nat /\ rotations' \in Nat
    BY <1>6 DEF TypeOK, RotateStep1, Alone
  <2> QED
    BY <1>6, <2>1, <2>2, <2>3 DEF TypeOK, RotateStep1
<1>7. CASE RotateStep2
  BY <1>7 DEF TypeOK, RotateStep2, Alone
<1>8. CASE UNCHANGED vars
  BY <1>8 DEF TypeOK, vars
<1> QED
  BY <1>1, <1>2, <1>3, <1>4, <1>5, <1>6, <1>7, <1>8 DEF Next, Maintain

-----------------------------------------------------------------------------
(* The initial states.                                                      *)
LEMMA InitIInv == Init => IInv
<1> SUFFICES ASSUME Init PROVE IInv
  OBVIOUS
<1>1. TypeOK
  BY QueueAssumption DEF Init, TypeOK, NoTx, Resting, Polling, Snapshots, Tables
<1>2. Open = {}
  BY DEF Init, Open, NoTx
<1>3. IdsOK
  BY DEF Init, IdsOK, NoTx
<1>4. EventsOK /\ RetriesOK
  BY DEF Init, EventsOK, RetriesOK, Resting
<1>5. TicksOK /\ CursorOK
  BY <1>2 DEF Init, TicksOK, CursorOK, Precedes
<1>6. TablesOK /\ OnlyCommitted
  BY DEF Init, TablesOK, OnlyCommitted, Resting, Polling
<1> QED
  BY <1>1, <1>3, <1>4, <1>5, <1>6 DEF IInv

-----------------------------------------------------------------------------
(* Transactions in progress.                                                *)
LEMMA OpenBegins ==
  ASSUME TypeOK, IdsOK, NEW j \in Jobs, Begin(j)
  PROVE  Open' = Open \cup {next}
<1>1. next > 0 /\ sender[j].tx = 0
  BY DEF TypeOK, IdsOK, Begin
<1>2. \A k \in Jobs : sender'[k].tx = IF k = j THEN next ELSE sender[k].tx
  BY DEF TypeOK, Begin
<1> QED
  BY <1>1, <1>2 DEF Open, TypeOK

LEMMA OpenSends ==
  ASSUME TypeOK, NEW j \in Jobs, Send(j)
  PROVE  Open' = Open
<1>1. \A k \in Jobs : sender'[k].tx = sender[k].tx
  BY DEF TypeOK, Send
<1> QED
  BY <1>1 DEF Open

LEMMA OpenEnds ==
  ASSUME TypeOK, IdsOK, NEW j \in Jobs, Commit(j) \/ Abort(j)
  PROVE  Open' \subseteq Open
<1>1. \A k \in Jobs : sender'[k].tx = IF k = j THEN 0 ELSE sender[k].tx
  BY DEF TypeOK, Commit, Abort, NoTx
<1> QED
  BY <1>1 DEF Open

(* The table's transactions only ever grow old.                             *)
LEMMA OpenSmaller ==
  ASSUME TypeOK, IdsOK, NEW x \in Open
  PROVE  x \in Nat /\ 0 < x /\ x < next
BY DEF Open, TypeOK, IdsOK

(* A committed sender stays so, and only Commit makes one.                  *)
LEMMA AcceptedGrows ==
  ASSUME TypeOK, [Next]_vars
  PROVE  Accepted \subseteq Accepted'
<1>1. ASSUME NEW j \in Jobs, Sending(j)
      PROVE  Accepted \subseteq Accepted'
  BY <1>1 DEF Sending, Begin, Send, Commit, Abort, TypeOK, Accepted, NoTx
<1>2. CASE UNCHANGED sender
  BY <1>2 DEF Accepted
<1> QED
  BY <1>1, <1>2, ConsumerFrame DEF Next, Tick, Maintain, Take, Move, RotateStep1, RotateStep2, vars

(* Ids are handed out in order.                                             *)
LEMMA IdsStep ==
  ASSUME TypeOK, IdsOK, [Next]_vars
  PROVE  IdsOK'
<1> USE DEF rotation
<1>1. ASSUME NEW j \in Jobs, Begin(j)
      PROVE  IdsOK'
  <2>1. \A k \in Jobs : sender'[k] = IF k = j THEN [state |-> "open", tx |-> next] ELSE sender[k]
    BY <1>1 DEF TypeOK, Begin
  <2> QED
    BY <1>1, <2>1 DEF TypeOK, IdsOK, Begin
<1>2. ASSUME NEW j \in Jobs, Send(j)
      PROVE  IdsOK'
  <2>1. \A k \in Jobs : sender'[k] = IF k = j THEN [state |-> "sent", tx |-> sender[k].tx] ELSE sender[k]
    BY <1>2 DEF TypeOK, Send
  <2> QED
    BY <1>2, <2>1 DEF TypeOK, IdsOK, Send, ids
<1>3. ASSUME NEW j \in Jobs, Commit(j) \/ Abort(j)
      PROVE  IdsOK'
  <2>1. \A k \in Jobs : k # j => sender'[k] = sender[k]
    BY <1>3 DEF TypeOK, Commit, Abort
  <2>2. sender'[j].tx = 0 /\ sender'[j].state \in {"committed", "aborted"}
    BY <1>3 DEF TypeOK, Commit, Abort, NoTx
  <2>3. horizon <= horizon' /\ horizon' <= next /\ horizon' \in Nat
    BY <1>3 DEF TypeOK, IdsOK, Commit, Abort, Ended
  <2> QED
    BY <1>3, <2>1, <2>2, <2>3 DEF TypeOK, IdsOK, Commit, Abort
<1>4. CASE UNCHANGED <<next, horizon, step1, step2, sender>>
  BY <1>4 DEF IdsOK
<1>5. CASE Move \/ RotateStep1 \/ RotateStep2
  BY <1>5 DEF TypeOK, IdsOK, Move, RotateStep1, RotateStep2, Alone
<1> QED
  BY <1>1, <1>2, <1>3, <1>4, <1>5, ConsumerFrame
     DEF Next, Sending, Tick, Maintain, Take, vars, ids

(* Events belong to senders that sent.                                      *)
LEMMA EventsStep ==
  ASSUME TypeOK, IdsOK, EventsOK, RetriesOK, [Next]_vars
  PROVE  EventsOK'
<1> USE DEF Events
<1>1. ASSUME NEW j \in Jobs, Begin(j)
      PROVE  EventsOK'
  <2>1. \A k \in Jobs : k # j => sender'[k] = sender[k]
    BY <1>1 DEF TypeOK, Begin
  <2>2. \A e \in events : e.job \in Jobs /\ e.job # j
    BY <1>1 DEF TypeOK, EventsOK, Begin
  <2> QED
    BY <1>1, <2>1, <2>2 DEF TypeOK, EventsOK, Begin
<1>2. ASSUME NEW j \in Jobs, Send(j)
      PROVE  EventsOK'
  <2>1. \A k \in Jobs : sender'[k] = IF k = j THEN [state |-> "sent", tx |-> sender[k].tx] ELSE sender[k]
    BY <1>2 DEF TypeOK, Send
  <2>2. \A e \in events : e.job \in Jobs /\ e.job # j
    BY <1>2 DEF TypeOK, EventsOK, Send
  <2>3. sender[j].tx \in Nat /\ sender[j].tx # 0 /\ sender[j].tx < next
    BY <1>2 DEF TypeOK, IdsOK, Send
  <2> QED
    BY <1>2, <2>1, <2>2, <2>3 DEF TypeOK, EventsOK, Send, ids
<1>3. ASSUME NEW j \in Jobs, Commit(j)
      PROVE  EventsOK'
  <2>1. \A k \in Jobs : sender'[k] = IF k = j THEN NoTx("committed") ELSE sender[k]
    BY <1>3 DEF TypeOK, Commit
  <2> QED
    BY <1>3, <2>1 DEF TypeOK, EventsOK, Commit, NoTx
<1>4. ASSUME NEW j \in Jobs, Abort(j)
      PROVE  EventsOK'
  <2>1. \A k \in Jobs : k # j => sender'[k] = sender[k]
    BY <1>4 DEF TypeOK, Abort
  <2>2. \A e \in events' : e \in events /\ e.job \in Jobs /\ e.job # j
    BY <1>4 DEF TypeOK, EventsOK, Abort
  <2> QED
    BY <1>4, <2>1, <2>2 DEF EventsOK, Abort
<1>5. CASE UNCHANGED <<next, sender, events>>
  BY <1>5 DEF EventsOK
<1>6. CASE Move
  <2>1. next \in Nat /\ 0 < next /\ next' = next + 1 /\ UNCHANGED sender
    BY <1>6 DEF TypeOK, IdsOK, Move, Alone
  <2>2. \A r \in mover.due : sender[r.job].state = "committed"
    BY DEF TypeOK, RetriesOK, Accepted
  <2>3. \A e \in events' : e \in events \/ (e.tx = next /\ sender[e.job].state = "committed")
    BY <1>6, <2>2 DEF Move
  <2> QED
    BY <2>1, <2>3 DEF TypeOK, EventsOK
<1>7. CASE RotateStep1 \/ RotateStep2
  BY <1>7 DEF TypeOK, EventsOK, RotateStep1, RotateStep2, Alone
<1> QED
  BY <1>1, <1>2, <1>3, <1>4, <1>5, <1>6, <1>7, ConsumerFrame
     DEF Next, Sending, Tick, Maintain, Take, vars, ids

(* Only accepted jobs are retried.                                          *)
LEMMA RetriesStep ==
  ASSUME TypeOK, RetriesOK, OnlyCommitted, [Next]_vars
  PROVE  RetriesOK'
<1>1. Accepted \subseteq Accepted'
  BY AcceptedGrows
<1>2. \A r \in retryQueue' : r \in retryQueue \/ r.job \in Accepted
  <2>1. ASSUME NEW c \in Consumers, Consume(c) \/ Stop(c)
        PROVE  \A r \in retryQueue' : r \in retryQueue \/ r.job \in Accepted
    <3>1. ASSUME NEW v \in consumer[c].todo, Retry(c, v)
          PROVE  \A r \in retryQueue' : r \in retryQueue \/ r.job \in Accepted
      BY <3>1 DEF Retry, OnlyCommitted
    <3>2. CASE UNCHANGED retryQueue
      BY <3>2
    <3> QED
      BY <2>1, <3>1, <3>2 DEF Consume, Deliver, Receive, ReceiveAgain, Handle, Bury, GiveUp, Ack,
         Stop, retries
  <2>2. CASE \E j \in Jobs : Sending(j)
    BY <2>2 DEF Sending, Begin, Send, Commit, Abort, retries
  <2>3. CASE Tick \/ Maintain
    BY <2>3 DEF Tick, Maintain, Take, Move, RotateStep1, RotateStep2, retries
  <2>4. CASE UNCHANGED vars
    BY <2>4 DEF vars, retries
  <2> QED
    BY <2>1, <2>2, <2>3, <2>4 DEF Next
<1>3. mover'.due = {} => mover' = Resting
  <2>1. CASE UNCHANGED mover
    BY <2>1 DEF RetriesOK
  <2>2. CASE Move
    BY <2>2 DEF Move
  <2>3. ASSUME NEW due \in SUBSET retryQueue, Take(due)
        PROVE  mover'.due # {}
    BY <2>3 DEF Take
  <2>4. CASE \E j \in Jobs : Sending(j)
    BY <2>1, <2>4 DEF Sending, Begin, Send, Commit, Abort, retries
  <2> QED
    BY <2>1, <2>2, <2>3, <2>4, ConsumerFrame
       DEF Next, Tick, Maintain, RotateStep1, RotateStep2, retries, vars
<1> QED
  BY <1>1, <1>2, <1>3 DEF RetriesOK

(* A rotation deletes ticks, but none from the subscription's last one on.  *)
LEMMA RotationKeepsTicks ==
  ASSUME TypeOK, TicksOK, CursorOK, RotateStep1,
         NEW n \in DOMAIN ticks, lastTick <= n
  PROVE  n \in DOMAIN ticks'
<1>1. Precedes(ticks[lastTick], ticks[n])
  BY DEF TicksOK, CursorOK
<1>2. ticks[lastTick] \in Snapshots /\ ticks[n] \in Snapshots /\ step2 \in Nat
  BY DEF TypeOK, CursorOK
<1>3. Above(ticks[n], step2 - 1)
  BY <1>1, <1>2, StillAbove DEF RotateStep1
<1> QED
  BY <1>3 DEF RotateStep1

(* The ticks a rotation leaves are what they were.                          *)
LEMMA RotationTicks ==
  ASSUME RotateStep1
  PROVE  /\ DOMAIN ticks' \subseteq DOMAIN ticks
         /\ \A n \in DOMAIN ticks' : ticks'[n] = ticks[n]
BY DEF RotateStep1

(* A new tick sees no less than the ticks before it.                        *)
LEMMA TickIsLater ==
  ASSUME TypeOK, IdsOK, TicksOK, NEW n \in DOMAIN ticks
  PROVE  Precedes(ticks[n], CurrentSnapshot)
<1>1. ticks[n] \in Snapshots /\ ticks[n].xmax <= horizon
  BY DEF TypeOK, TicksOK
<1>2. \A x \in Open : x < ticks[n].xmax => x \in ticks[n].xip
  BY DEF TicksOK, Visible
<1> QED
  BY <1>1, <1>2 DEF Precedes, CurrentSnapshot

(* Later ticks see more.                                                    *)
LEMMA TicksStep ==
  ASSUME TypeOK, IdsOK, TicksOK, CursorOK, [Next]_vars
  PROVE  TicksOK'
<1> USE DEF cursor, ids
<1>1. ASSUME UNCHANGED <<ticks, newest>>, horizon <= horizon',
             \A x \in Open' : x \in Open \/ x >= horizon
      PROVE  TicksOK'
  <2>1. ASSUME NEW n \in DOMAIN ticks, NEW x \in Open'
        PROVE  ~Visible(x, ticks[n])
    <3>1. CASE x \in Open
      BY <3>1 DEF TicksOK
    <3>2. CASE x >= horizon
      <4>1. ticks[n].xmax <= horizon /\ ticks[n].xmax \in Nat /\ x \in Nat
        BY <3>2, TypeStep DEF TicksOK, TypeOK, Snapshots, Open
      <4> QED
        BY <3>2, <4>1 DEF Visible, TypeOK
    <3> QED
      BY <1>1, <3>1, <3>2
  <2>2. \A n \in DOMAIN ticks : ticks[n].xmax <= horizon'
    <3> TAKE n \in DOMAIN ticks
    <3>1. ticks[n].xmax \in Nat /\ horizon \in Nat /\ horizon' \in Nat
      BY TypeStep DEF TypeOK, Snapshots
    <3> QED
      BY <1>1, <3>1 DEF TicksOK
  <2> QED
    BY <1>1, <2>1, <2>2 DEF TicksOK
<1>2. ASSUME NEW j \in Jobs, Sending(j)
      PROVE  TicksOK'
  <2>1. UNCHANGED <<ticks, newest>>
    BY <1>2 DEF Sending, Begin, Send, Commit, Abort
  <2>2. horizon <= horizon'
    <3>1. sender[j].tx \in Nat
      BY DEF TypeOK
    <3> QED
      BY <1>2, <3>1 DEF Sending, Begin, Send, Commit, Abort, Ended, TypeOK
  <2>3. \A x \in Open' : x \in Open \/ x = next
    BY <1>2, OpenBegins, OpenSends, OpenEnds DEF Sending
  <2> QED
    BY <1>1, <2>1, <2>2, <2>3 DEF IdsOK
<1>3. CASE UNCHANGED <<ticks, newest, sender>> /\ horizon <= horizon'
  BY <1>1, <1>3 DEF Open
<1>4. CASE Tick
  <2>1. /\ DOMAIN ticks' = DOMAIN ticks \cup {newest + 1} /\ newest' = newest + 1
        /\ \A n \in DOMAIN ticks : n # newest + 1 /\ ticks'[n] = ticks[n]
        /\ ticks'[newest + 1] = CurrentSnapshot
        /\ horizon' = horizon /\ Open' = Open
    BY <1>4 DEF Tick, TypeOK, TicksOK, Open
  <2>2. /\ \A x \in CurrentSnapshot.xip : x < CurrentSnapshot.xmax
        /\ CurrentSnapshot.xmax <= horizon
        /\ \A x \in Open : ~Visible(x, CurrentSnapshot)
    BY DEF CurrentSnapshot, Visible, TypeOK
  <2>3. Precedes(CurrentSnapshot, CurrentSnapshot)
    BY DEF Precedes, CurrentSnapshot, TypeOK
  <2>4. \A n \in DOMAIN ticks : Precedes(ticks[n], CurrentSnapshot)
    BY TickIsLater
  <2>5. \A n \in DOMAIN ticks' : n \in Nat
    BY <2>1 DEF TypeOK
  <2>6. \A m, n \in DOMAIN ticks' : m <= n => Precedes(ticks'[m], ticks'[n])
    <3> TAKE m, n \in DOMAIN ticks'
    <3>1. CASE n = newest + 1
      BY <2>1, <2>3, <2>4, <3>1
    <3>2. CASE n # newest + 1
      BY <2>1, <2>5, <3>2 DEF TicksOK, TypeOK
    <3> QED
      BY <3>1, <3>2
  <2> QED
    BY <2>1, <2>2, <2>5, <2>6 DEF TicksOK, TypeOK
<1>5. CASE RotateStep1
  <2>1. newest' = newest /\ horizon <= horizon' /\ Open' = Open
    BY <1>5 DEF RotateStep1, Alone, IdsOK, TypeOK, Open
  <2>2. newest \in DOMAIN ticks'
    BY <1>5, RotationKeepsTicks DEF TicksOK, CursorOK
  <2>3. \A n \in DOMAIN ticks : ticks[n].xmax <= horizon'
    <3> TAKE n \in DOMAIN ticks
    <3>1. ticks[n].xmax \in Nat /\ horizon \in Nat /\ horizon' \in Nat
      BY TypeStep DEF TypeOK, Snapshots
    <3> QED
      BY <2>1, <3>1 DEF TicksOK
  <2> QED
    BY <1>5, <2>1, <2>2, <2>3, RotationTicks DEF TicksOK
<1> QED
  BY <1>2, <1>3, <1>4, <1>5, ConsumerFrame
     DEF Next, Maintain, Take, Move, RotateStep2, Alone, vars, IdsOK, TypeOK

(* The subscription's ticks stay.                                           *)
LEMMA CursorStep ==
  ASSUME TypeOK, IdsOK, TicksOK, CursorOK, [Next]_vars
  PROVE  CursorOK'
<1> USE DEF cursor
<1>1. CASE UNCHANGED <<lastTick, nextTick>> /\ DOMAIN ticks \subseteq DOMAIN ticks'
  BY <1>1 DEF CursorOK
<1>2. ASSUME NEW c \in Consumers, Receive(c)
      PROVE  CursorOK'
  <2>1. PICK n \in Later : (lastTick' = n /\ nextTick' = 0) \/ (nextTick' = n /\ lastTick' = lastTick)
    BY <1>2 DEF Receive
  <2>2. n \in DOMAIN ticks /\ lastTick < n /\ ticks' = ticks
    BY <1>2 DEF Receive, Later
  <2> QED
    BY <2>1, <2>2 DEF CursorOK
<1>3. ASSUME NEW c \in Consumers, Ack(c)
      PROVE  CursorOK'
  BY <1>3 DEF Ack, CursorOK
<1>4. CASE RotateStep1
  <2>1. UNCHANGED <<lastTick, nextTick>>
    BY <1>4 DEF RotateStep1
  <2>2. lastTick \in DOMAIN ticks'
    BY <1>4, RotationKeepsTicks DEF CursorOK, TypeOK
  <2>3. nextTick # 0 => nextTick \in DOMAIN ticks'
    BY <1>4, RotationKeepsTicks DEF CursorOK, TypeOK
  <2> QED
    BY <2>1, <2>2, <2>3 DEF CursorOK
<1>5. CASE Tick
  <2>1. UNCHANGED <<lastTick, nextTick>> /\ DOMAIN ticks \subseteq DOMAIN ticks'
    BY <1>5 DEF Tick
  <2> QED
    BY <1>1, <2>1
<1>6. ASSUME NEW c \in Consumers, NEW v \in consumer[c].todo,
             Handle(c, v) \/ Bury(c, v) \/ Retry(c, v) \/ GiveUp(c, v)
      PROVE  CursorOK'
  BY <1>1, <1>6 DEF Handle, Bury, Retry, GiveUp
<1>7. ASSUME NEW j \in Jobs, Sending(j)
      PROVE  CursorOK'
  BY <1>1, <1>7 DEF Sending, Begin, Send, Commit, Abort
<1> QED
  BY <1>1, <1>2, <1>3, <1>4, <1>5, <1>6, <1>7
     DEF Next, Consume, Deliver, ReceiveAgain, Stop, Maintain, Take, Move, RotateStep2, vars

(* No handler sees a job whose sender has not committed.                    *)
LEMMA OnlyStep ==
  ASSUME TypeOK, IdsOK, EventsOK, OnlyCommitted, [Next]_vars
  PROVE  OnlyCommitted'
<1>1. Accepted \subseteq Accepted'
  BY AcceptedGrows
<1>2. \A e \in events : e.tx \notin Open => e.job \in Accepted
  <2> TAKE e \in events
  <2>1. e.job \in Jobs /\ e.tx # 0
    BY DEF TypeOK, Events, EventsOK
  <2> QED
    BY <2>1 DEF EventsOK, Open, Accepted
<1>3. CASE UNCHANGED consumer
  BY <1>1, <1>3 DEF OnlyCommitted
<1>4. ASSUME NEW c \in Consumers, Consume(c) \/ Stop(c)
      PROVE  OnlyCommitted'
  <2>1. \A b \in Consumers : b # c => consumer'[b] = consumer[b]
    BY <1>4 DEF Consume, Receive, ReceiveAgain, Deliver, Handle, Bury, Retry, GiveUp, Forget, Ack,
       Stop, TypeOK
  <2>2. \A v \in consumer'[c].todo : v \in consumer[c].todo \/ (v \in events /\ v.tx \notin Open)
    <3>1. CASE Receive(c)
      <4>1. PICK n \in Later :
              \/ UNCHANGED consumer
              \/ \E some \in Handed(Rows(ticks[lastTick], ticks[n])) :
                   consumer' = [consumer EXCEPT ![c] = [batch |-> n, todo |-> some]]
        BY <3>1 DEF Receive
      <4>2. \A e \in Rows(ticks[lastTick], ticks[n]) : e \in events /\ e.tx \notin Open
        BY DEF Rows
      <4> QED
        BY <4>1, <4>2, HandedIsPart DEF TypeOK
    <3>2. CASE ReceiveAgain(c)
      BY <3>2, HandedIsPart DEF ReceiveAgain, BatchRows, Rows, TypeOK
    <3>3. ASSUME NEW v \in consumer[c].todo, Handle(c, v) \/ Bury(c, v) \/ Retry(c, v)
          PROVE  consumer'[c].todo \subseteq consumer[c].todo
      BY <3>3 DEF Handle, Bury, Retry, Forget, TypeOK
    <3>4. ASSUME NEW v \in consumer[c].todo, GiveUp(c, v)
          PROVE  consumer'[c].todo = {}
      BY <3>4 DEF GiveUp, Polling, TypeOK
    <3>5. ASSUME Ack(c) \/ Stop(c)
          PROVE  consumer'[c].todo = {}
      BY <3>5 DEF Ack, Stop, Polling, TypeOK
    <3> QED
      BY <1>4, <3>1, <3>2, <3>3, <3>4, <3>5 DEF Consume, Deliver
  <2> QED
    BY <1>1, <1>2, <2>1, <2>2 DEF OnlyCommitted
<1>5. ASSUME NEW j \in Jobs, Sending(j)
      PROVE  OnlyCommitted'
  BY <1>3, <1>5 DEF Sending, Begin, Send, Commit, Abort
<1> QED
  BY <1>3, <1>4, <1>5 DEF Next, Tick, Maintain, Take, Move, RotateStep1, RotateStep2, vars

(* A consuming process only moves the cursor forward, so that what the last *)
(* tick sees only grows.                                                    *)
LEMMA CursorAdvances ==
  ASSUME TypeOK, TicksOK, CursorOK, NEW c \in Consumers, Consume(c) \/ Stop(c)
  PROVE  /\ lastTick' \in DOMAIN ticks /\ lastTick <= lastTick'
         /\ \A e \in events : Visible(e.tx, ticks[lastTick]) => Visible(e.tx, ticks[lastTick'])
<1>1. lastTick' \in DOMAIN ticks /\ lastTick <= lastTick'
  <2>1. CASE lastTick' = lastTick
    BY <2>1 DEF CursorOK, TypeOK
  <2>2. CASE Receive(c)
    BY <2>1, <2>2 DEF Receive, Later, TypeOK, CursorOK
  <2>3. CASE Ack(c)
    BY <2>1, <2>3 DEF Ack, CursorOK, TypeOK
  <2> QED
    BY <2>1, <2>2, <2>3
       DEF Consume, Deliver, ReceiveAgain, Handle, Bury, Retry, GiveUp, Stop, cursor
<1>2. ASSUME NEW e \in events, Visible(e.tx, ticks[lastTick])
      PROVE  Visible(e.tx, ticks[lastTick'])
  <2>1. e.tx \in Nat
    BY DEF TypeOK, Events
  <2>2. ticks[lastTick] \in Snapshots /\ ticks[lastTick'] \in Snapshots
    BY <1>1 DEF TypeOK, CursorOK
  <2>3. Precedes(ticks[lastTick], ticks[lastTick'])
    BY <1>1 DEF TicksOK, CursorOK
  <2> QED
    BY <1>2, <2>1, <2>2, <2>3, StillVisible
<1> QED
  BY <1>1, <1>2

(* The tables of the events a batch may still need.                         *)
LEMMA TablesStep ==
  ASSUME TypeOK, IdsOK, EventsOK, RetriesOK, TicksOK, CursorOK, TablesOK, [Next]_vars
  PROVE  TablesOK'
<1> DEFINE Placed(e) ==
      /\ e.table \in {cur, Previous} \/ Visible(e.tx, ticks[lastTick])
      /\ e.table # cur /\ step2 # 0 => e.tx < step2
      /\ e.table = cur =>
           \A n \in DOMAIN ticks : ticks[n].xmax < step1 => ~Visible(e.tx, ticks[n])
    MoverOK == mover.due # {} => mover.dest = cur \/ (mover.dest = Previous /\ step2 = 0)
<1>a. MoverOK /\ \A e \in events : Placed(e)
  BY DEF TablesOK
<1>b. SUFFICES MoverOK' /\ \A e \in events' : Placed(e)'
  BY DEF TablesOK
<1> USE DEF rotation, cursor, retries
(* A step that leaves the tables and the ticks alone.                       *)
<1>1. ASSUME UNCHANGED <<cur, step1, step2, ticks, lastTick>>
      PROVE  \A e \in events : Placed(e)'
  BY <1>1, <1>a DEF Previous, Visible
<1>2. ASSUME UNCHANGED <<cur, step1, step2, mover>>
      PROVE  MoverOK'
  BY <1>2, <1>a DEF Previous
(* An event written to the current table by a transaction no tick sees.     *)
<1>3. ASSUME UNCHANGED <<cur, step1, step2, ticks, lastTick>>, NEW e,
             e.table = cur \/ (e.table = Previous /\ step2 = 0),
             \A n \in DOMAIN ticks : ~Visible(e.tx, ticks[n])
      PROVE  Placed(e)'
  BY <1>3 DEF Previous, Visible
<1>4. ASSUME NEW j \in Jobs, Sending(j)
      PROVE  MoverOK' /\ \A e \in events' : Placed(e)'
  <2>1. UNCHANGED <<cur, step1, step2, ticks, lastTick, mover>>
    BY <1>4 DEF Sending, Begin, Send, Commit, Abort
  <2>2. CASE Send(j)
    <3>1. sender[j].tx \in Open
      BY <2>2 DEF Send, Open, IdsOK
    <3>2. \A n \in DOMAIN ticks : ~Visible(sender[j].tx, ticks[n])
      BY <3>1 DEF TicksOK
    <3> QED
      BY <1>1, <1>2, <1>3, <2>1, <2>2, <3>2 DEF Send
  <2>3. CASE events' \subseteq events
    BY <1>1, <1>2, <2>1, <2>3
  <2> QED
    BY <1>4, <2>2, <2>3 DEF Sending, Begin, Commit, Abort
<1>5. CASE Tick
  <2>1. UNCHANGED <<cur, step1, step2, lastTick, mover, events>>
    BY <1>5 DEF Tick
  <2>2. /\ \A n \in DOMAIN ticks : ticks'[n] = ticks[n]
        /\ \A n \in DOMAIN ticks' : n \in DOMAIN ticks \/ ticks'[n].xmax = horizon
    BY <1>5 DEF Tick, TypeOK, TicksOK, CurrentSnapshot
  <2>3. step1 \in Nat /\ horizon \in Nat /\ step1 < horizon
    BY DEF TypeOK, IdsOK
  <2>4. \A n \in DOMAIN ticks' : ticks'[n].xmax < step1 => n \in DOMAIN ticks
    BY <2>2, <2>3
  <2> QED
    BY <1>2, <1>a, <2>1, <2>2, <2>4 DEF CursorOK, Previous, Visible
<1>6. ASSUME NEW c \in Consumers, Consume(c) \/ Stop(c)
      PROVE  MoverOK' /\ \A e \in events' : Placed(e)'
  <2>1. UNCHANGED <<cur, step1, step2, ticks, mover, events>>
    BY <1>6, ConsumerFrame
  <2>2. \A e \in events : Visible(e.tx, ticks[lastTick]) => Visible(e.tx, ticks[lastTick'])
    BY <1>6, CursorAdvances
  <2> QED
    BY <1>2, <1>a, <2>1, <2>2 DEF Previous, Visible
<1>7. ASSUME NEW due \in SUBSET retryQueue, Take(due)
      PROVE  MoverOK' /\ \A e \in events' : Placed(e)'
  BY <1>1, <1>7 DEF Take
<1>8. CASE Move
  <2>1. UNCHANGED <<cur, step1, step2, ticks, lastTick>> /\ mover'.due = {}
    BY <1>8 DEF Move, Resting
  <2>2. \A n \in DOMAIN ticks : ~Visible(next, ticks[n])
    <3> TAKE n \in DOMAIN ticks
    <3>1. ticks[n].xmax \in Nat /\ ticks[n].xmax <= horizon /\ horizon <= next
      BY DEF TypeOK, TicksOK, IdsOK, Snapshots
    <3> QED
      BY <3>1 DEF Visible, TypeOK
  <2>3. \A e \in events' : e \in events \/ (e.tx = next /\ e.table = mover.dest)
    BY <1>8 DEF Move
  <2>4. mover.dest = cur \/ (mover.dest = Previous /\ step2 = 0)
    BY <1>8, <1>a DEF Move
  <2> QED
    BY <1>1, <1>3, <2>1, <2>2, <2>3, <2>4
<1>9. CASE RotateStep1
  <2>1. /\ cur' = Following /\ Previous' = cur /\ Following # cur /\ step2' = 0
        /\ mover' = mover /\ lastTick' = lastTick /\ step2 # 0
    BY <1>9, TablesType DEF RotateStep1, TypeOK
  <2>2. \A e \in events' : e \in events /\ e.table # Following
    BY <1>9 DEF RotateStep1
  <2>3. lastTick \in DOMAIN ticks' /\ ticks'[lastTick] = ticks[lastTick]
    BY <1>9, RotationKeepsTicks, RotationTicks DEF CursorOK, TypeOK
  <2>4. \A e \in events : e.tx < step2 => Visible(e.tx, ticks[lastTick])
    <3> TAKE e \in events
    <3>1. e.tx \in Nat /\ step2 \in Nat /\ ticks[lastTick] \in Snapshots
      BY DEF TypeOK, Events, CursorOK
    <3> QED
      BY <1>9, <3>1 DEF RotateStep1, Above, Visible, Snapshots
  <2>5. \A e \in events' : e.table = cur \/ Visible(e.tx, ticks[lastTick])
    BY <1>a, <2>1, <2>2, <2>4
  <2> QED
    BY <1>a, <2>1, <2>2, <2>3, <2>5 DEF Visible
<1>10. CASE RotateStep2
  <2>1. mover'.due = {} /\ step2' = next /\ UNCHANGED <<cur, step1, ticks, lastTick, events>>
    BY <1>10 DEF RotateStep2, Resting
  <2>2. \A e \in events : e.tx < next
    BY DEF EventsOK
  <2> QED
    BY <1>a, <2>1, <2>2 DEF Previous, Visible
<1>11. CASE UNCHANGED vars
  BY <1>1, <1>2, <1>11 DEF vars
<1> QED
  BY <1>4, <1>5, <1>6, <1>7, <1>8, <1>9, <1>10, <1>11 DEF Next, Maintain

-----------------------------------------------------------------------------
(* The invariant holds in every reachable state.                            *)
LEMMA Invariance == Spec => []IInv
<1>1. IInv /\ [Next]_vars => IInv'
  BY TypeStep, IdsStep, EventsStep, RetriesStep, TicksStep, CursorStep, TablesStep, OnlyStep
     DEF IInv
<1> QED
  BY <1>1, InitIInv, PTL DEF Spec

(* Every variable keeps its type, whatever the bounds.                      *)
THEOREM TypeCorrect == Spec => []TypeOK
<1>1. IInv => TypeOK
  BY DEF IInv
<1> QED
  BY <1>1, Invariance, PTL

(* The ticks the subscription names are never deleted by a rotation, so     *)
(* that receive never finds its cursor corrupt.                             *)
THEOREM CursorAlwaysKept == Spec => []CursorKept
<1>1. IInv => CursorKept
  BY DEF IInv, CursorOK, CursorKept
<1> QED
  BY <1>1, Invariance, PTL

(* A handler only ever sees jobs whose sender committed.                    *)
THEOREM CommittedOnly == Spec => []OnlyCommitted
<1>1. IInv => OnlyCommitted
  BY DEF IInv
<1> QED
  BY <1>1, Invariance, PTL

(* The events between two ticks are in the tables batch_event_tables picks. *)
LEMMA TablesSuffice ==
  ASSUME IInv, NEW n \in DOMAIN ticks, NEW e \in events,
         ~Visible(e.tx, ticks[lastTick]), Visible(e.tx, ticks[n])
  PROVE  e.table \in TablesOf(ticks[lastTick], ticks[n])
<1>1. e.table \in {cur, Previous}
  BY DEF IInv, TablesOK
<1>2. CASE ticks[n].xmax < step1
  <2>1. e.table # cur
    BY <1>2 DEF IInv, TablesOK
  <2> QED
    BY <1>1, <1>2, <2>1 DEF TablesOf
<1>3. CASE ~(ticks[n].xmax < step1) /\ step2 # 0 /\ Above(ticks[lastTick], step2)
  <2>1. e.tx \in Nat /\ step2 \in Nat /\ ticks[lastTick] \in Snapshots
    BY DEF IInv, TypeOK, Events, CursorOK
  <2>2. ~(e.tx < step2)
    BY <1>3, <2>1 DEF Above, Visible, Snapshots
  <2>3. e.table = cur
    BY <1>3, <2>2 DEF IInv, TablesOK
  <2> QED
    BY <1>3, <2>3 DEF TablesOf
<1> QED
  BY <1>1, <1>2, <1>3 DEF TablesOf

(* batch_event_sql finds the events from the last tick to any later one.    *)
LEMMA RowsAreExact ==
  ASSUME IInv, NEW n \in DOMAIN ticks, lastTick <= n
  PROVE  Rows(ticks[lastTick], ticks[n]) = Exact(ticks[lastTick], ticks[n])
<1>1. lastTick \in DOMAIN ticks /\ ticks[lastTick] \in Snapshots /\ ticks[n] \in Snapshots
  BY DEF IInv, CursorOK, TypeOK
<1>2. /\ Precedes(ticks[lastTick], ticks[n])
      /\ \A x \in ticks[lastTick].xip : x < ticks[lastTick].xmax
  BY <1>1 DEF IInv, TicksOK
<1>3. \A e \in events :
        Selected(ticks[lastTick], ticks[n], e.tx)
          <=> ~Visible(e.tx, ticks[lastTick]) /\ Visible(e.tx, ticks[n])
  <2> TAKE e \in events
  <2>1. e.tx \in Nat
    BY DEF IInv, TypeOK, Events
  <2> QED
    BY <1>1, <1>2, <2>1, SelectedIsBetween
<1>4. \A e \in events :
        ~Visible(e.tx, ticks[lastTick]) /\ Visible(e.tx, ticks[n])
          => e.table \in TablesOf(ticks[lastTick], ticks[n])
  BY <1>1, TablesSuffice
<1> QED
  BY <1>3, <1>4 DEF Rows, Exact

(* Every batch holds exactly the committed events between its two ticks,    *)
(* each of them once, whatever transactions are open, however far ids are apart and however    *)
(* often the tables are switched.                                           *)
THEOREM ExactBatches == Spec => []BatchesAreExact
<1>1. ASSUME IInv PROVE BatchesAreExact
  <2> SUFFICES ASSUME nextTick # 0
               PROVE  LET last == ticks[lastTick]
                          this == ticks[nextTick] IN
                      /\ BatchRows = Exact(last, this)
                      /\ \A e \in BatchRows :
                           ~(InRange(last, this, e.tx) /\ InList(last, this, e.tx))
    BY DEF BatchesAreExact
  <2>1. BatchRows = Exact(ticks[lastTick], ticks[nextTick])
    BY <1>1, RowsAreExact DEF IInv, CursorOK, TypeOK, BatchRows
  <2>2. /\ ticks[lastTick] \in Snapshots /\ ticks[nextTick] \in Snapshots
        /\ \A x \in ticks[lastTick].xip : x < ticks[lastTick].xmax
    BY <1>1 DEF IInv, CursorOK, TypeOK, TicksOK
  <2>3. \A e \in BatchRows : e.tx \in Nat
    BY <1>1 DEF IInv, TypeOK, Events, BatchRows, Rows
  <2> QED
    BY <2>1, <2>2, <2>3, SelectedOnce
<1> QED
  BY <1>1, Invariance, PTL

-----------------------------------------------------------------------------
(* What delivering each job rests on.                                       *)

(* The active batch ends at the tick after the last one, and a process      *)
(* holds it or one that is finished.                                        *)
GapOK ==
  /\ nextTick # 0 => \A n \in DOMAIN ticks : n <= lastTick \/ nextTick <= n
  /\ \A c \in Consumers : consumer[c].batch <= lastTick \/ consumer[c].batch = nextTick

(* A sent job has its event, and only one that no retry made.               *)
OriginOK ==
  /\ \A e \in events : e.tx \in Open => e.tx = sender[e.job].tx
  /\ \A j \in Jobs : sender[j].state = "sent" =>
       \E e \in events : e.job = j /\ e.tx = sender[j].tx
  /\ \A e, f \in events : e.job = f.job /\ e.retry = 0 /\ f.retry = 0 => e = f

(* A job waits once to be retried, and what the mover took is still behind  *)
(* a tick.                                                                  *)
PendingOK ==
  /\ \A r \in retryQueue : r.retry > 0
  /\ \A q, r \in retryQueue : q.job = r.job => q = r
  /\ \A r \in mover.due : TickedSince(r.job)

(* Two copies of a job never meet in a batch that is still to come.         *)
CopiesOK ==
  \A e, f \in events :
    e.job = f.job /\ e # f =>
      \/ Visible(e.tx, ticks[lastTick]) \/ Visible(f.tx, ticks[lastTick])
      \/ \E n \in DOMAIN ticks : ~(Visible(e.tx, ticks[n]) <=> Visible(f.tx, ticks[n]))

CInv == IInv /\ GapOK /\ OriginOK /\ PendingOK /\ CopiesOK

LEMMA InitCInv == Init => CInv
<1> SUFFICES ASSUME Init PROVE CInv
  OBVIOUS
<1>1. GapOK
  BY DEF Init, GapOK, Polling
<1>2. OriginOK /\ CopiesOK
  BY DEF Init, OriginOK, CopiesOK, NoTx
<1>3. PendingOK
  BY DEF Init, PendingOK, Resting
<1> QED
  BY <1>1, <1>2, <1>3, InitIInv DEF CInv

LEMMA GapStep ==
  ASSUME IInv, GapOK, [Next]_vars
  PROVE  GapOK'
<1>t. /\ lastTick \in DOMAIN ticks /\ lastTick \in Nat /\ nextTick \in Nat /\ newest \in Nat
      /\ \A n \in DOMAIN ticks : n \in Nat /\ n # 0 /\ n <= newest
      /\ nextTick # 0 => lastTick < nextTick /\ nextTick \in DOMAIN ticks
      /\ consumer \in [Consumers -> [batch : Nat, todo : SUBSET Events]]
  BY DEF IInv, TypeOK, CursorOK, TicksOK
<1> USE DEF cursor
<1>1. CASE UNCHANGED <<lastTick, nextTick, consumer>> /\ DOMAIN ticks' \subseteq DOMAIN ticks
  BY <1>1 DEF GapOK
<1>2. CASE Tick
  <2>1. UNCHANGED <<lastTick, nextTick, consumer>> /\ DOMAIN ticks' = DOMAIN ticks \cup {newest + 1}
    BY <1>2 DEF Tick
  <2> QED
    BY <1>t, <2>1 DEF GapOK
<1>3. ASSUME NEW c \in Consumers, Receive(c)
      PROVE  GapOK'
  <2>1. PICK n \in Later :
          /\ \A m \in Later : n <= m
          /\ \/ lastTick' = n /\ UNCHANGED <<nextTick, consumer>>
             \/ /\ nextTick' = n /\ UNCHANGED lastTick
                /\ \E some : consumer' = [consumer EXCEPT ![c] = [batch |-> n, todo |-> some]]
    BY <1>3 DEF Receive
  <2>2. n \in DOMAIN ticks /\ lastTick < n /\ nextTick = 0 /\ ticks' = ticks
    BY <1>3 DEF Receive, Later
  <2>3. CASE lastTick' = n /\ UNCHANGED <<nextTick, consumer>>
    BY <1>t, <2>2, <2>3 DEF GapOK
  <2>4. CASE nextTick' = n /\ UNCHANGED lastTick /\
             \E some : consumer' = [consumer EXCEPT ![c] = [batch |-> n, todo |-> some]]
    <3>1. \A m \in DOMAIN ticks : m <= lastTick \/ n <= m
      BY <1>t, <2>1 DEF Later
    <3>2. \A b \in Consumers : consumer'[b].batch = n \/ consumer'[b] = consumer[b]
      BY <1>t, <2>4
    <3>3. \A b \in Consumers : consumer[b].batch \in Nat
      BY <1>t
    <3> QED
      BY <1>t, <2>2, <2>4, <3>1, <3>2, <3>3 DEF GapOK
  <2> QED
    BY <2>1, <2>3, <2>4
<1>4. ASSUME NEW c \in Consumers, UNCHANGED <<lastTick, nextTick, ticks>>,
             \A b \in Consumers : consumer'[b].batch \in {consumer[b].batch, nextTick, 0}
      PROVE  GapOK'
  BY <1>t, <1>4 DEF GapOK
<1>5. ASSUME NEW c \in Consumers, ReceiveAgain(c)
      PROVE  GapOK'
  <2>1. \A b \in Consumers : consumer'[b].batch \in {consumer[b].batch, nextTick, 0}
    BY <1>t, <1>5 DEF ReceiveAgain
  <2> QED
    BY <1>4, <1>5, <2>1 DEF ReceiveAgain
<1>6. ASSUME NEW c \in Consumers, NEW v \in consumer[c].todo, Handle(c, v) \/ Bury(c, v) \/ Retry(c, v)
      PROVE  GapOK'
  <2>1. \A b \in Consumers : consumer'[b].batch \in {consumer[b].batch, nextTick, 0}
    BY <1>t, <1>6 DEF Handle, Bury, Retry, Forget
  <2> QED
    BY <1>4, <1>6, <2>1 DEF Handle, Bury, Retry
<1>7. ASSUME NEW c \in Consumers, Stop(c) \/ \E v \in consumer[c].todo : GiveUp(c, v)
      PROVE  GapOK'
  <2>1. \A b \in Consumers : consumer'[b].batch \in {consumer[b].batch, nextTick, 0}
    BY <1>t, <1>7 DEF Stop, GiveUp, Polling
  <2> QED
    BY <1>4, <1>7, <2>1 DEF Stop, GiveUp
<1>8. ASSUME NEW c \in Consumers, Ack(c)
      PROVE  GapOK'
  <2>1. \A b \in Consumers : consumer'[b].batch \in {consumer[b].batch, 0} /\ consumer[b].batch \in Nat
    BY <1>t, <1>8 DEF Ack, Polling
  <2>2. \/ UNCHANGED <<lastTick, nextTick>>
        \/ nextTick # 0 /\ lastTick' = nextTick /\ nextTick' = 0
    BY <1>8 DEF Ack
  <2>3. ticks' = ticks
    BY <1>8 DEF Ack
  <2> QED
    BY <1>t, <2>1, <2>2, <2>3 DEF GapOK
<1>9. ASSUME NEW j \in Jobs, Sending(j)
      PROVE  GapOK'
  BY <1>1, <1>9 DEF Sending, Begin, Send, Commit, Abort
<1>10. CASE RotateStep1
  BY <1>1, <1>10, RotationTicks DEF RotateStep1
<1> QED
  BY <1>1, <1>2, <1>3, <1>5, <1>6, <1>7, <1>8, <1>9, <1>10
     DEF Next, Consume, Deliver, Maintain, Take, Move, RotateStep2, vars

LEMMA OriginStep ==
  ASSUME IInv, IInv', OriginOK, PendingOK, [Next]_vars
  PROVE  OriginOK'
<1>t. /\ TypeOK /\ IdsOK /\ \A e \in events : e.job \in Jobs /\ e.tx \in Nat
      /\ \A j \in Jobs : sender[j].tx \in Nat
  BY DEF IInv, TypeOK, Events
<1>1. ASSUME UNCHANGED <<events, sender>>
      PROVE  OriginOK'
  BY <1>1 DEF OriginOK, Open
<1>2. ASSUME NEW j \in Jobs, Begin(j)
      PROVE  OriginOK'
  <2>1. \A k \in Jobs : sender'[k] = IF k = j THEN [state |-> "open", tx |-> next] ELSE sender[k]
    BY <1>2, <1>t DEF TypeOK, Begin
  <2>2. \A e \in events : e.job # j /\ e.tx # next
    BY <1>2, <1>t DEF IInv, EventsOK, Begin
  <2>3. Open' = Open \cup {next} /\ events' = events
    BY <1>2, <1>t, OpenBegins DEF Begin
  <2> QED
    BY <1>t, <2>1, <2>2, <2>3 DEF OriginOK
<1>3. ASSUME NEW j \in Jobs, Send(j)
      PROVE  OriginOK'
  <2>1. \A k \in Jobs : /\ sender'[k].tx = sender[k].tx
                        /\ k # j => sender'[k].state = sender[k].state
    BY <1>3, <1>t DEF TypeOK, Send
  <2>2. \A e \in events : e.job # j
    BY <1>3, <1>t DEF IInv, EventsOK, Send
  <2>3. Open' = Open
    BY <1>3, <1>t, OpenSends
  <2>4. PICK new :
          /\ new.job = j /\ new.tx = sender[j].tx
          /\ events' = events \cup {new}
    BY <1>3 DEF Send
  <2>5. \A e \in events' : e.tx \in Open' => e.tx = sender'[e.job].tx
    <3>1. \A e \in events : e.tx \in Open' => e.tx = sender'[e.job].tx
      BY <1>t, <2>1, <2>3 DEF OriginOK
    <3>2. new.tx = sender'[new.job].tx
      BY <2>1, <2>4
    <3> QED
      BY <2>4, <3>1, <3>2
  <2>6. \A k \in Jobs : sender'[k].state = "sent" =>
          \E e \in events' : e.job = k /\ e.tx = sender'[k].tx
    <3> SUFFICES ASSUME NEW k \in Jobs, sender'[k].state = "sent"
                 PROVE  \E e \in events' : e.job = k /\ e.tx = sender'[k].tx
      OBVIOUS
    <3>1. CASE k = j
      BY <2>1, <2>4, <3>1
    <3>2. CASE k # j
      BY <2>1, <2>4, <3>2 DEF OriginOK
    <3> QED
      BY <3>1, <3>2
  <2>7. \A e, f \in events' : e.job = f.job /\ e.retry = 0 /\ f.retry = 0 => e = f
    BY <2>2, <2>4 DEF OriginOK
  <2> QED
    BY <2>5, <2>6, <2>7 DEF OriginOK
<1>4. ASSUME NEW j \in Jobs, Commit(j) \/ Abort(j)
      PROVE  OriginOK'
  <2>1. \A k \in Jobs : k # j => sender'[k] = sender[k]
    BY <1>4, <1>t DEF TypeOK, Commit, Abort
  <2>2. sender'[j].state \in {"committed", "aborted"} /\ sender[j].tx # 0
    BY <1>4, <1>t DEF TypeOK, IdsOK, Commit, Abort, NoTx
  <2>3. sender[j].tx \notin Open' /\ Open' \subseteq Open
    <3>1. sender'[j].tx = 0 /\ \A k \in Jobs : k # j => sender[k].tx # sender[j].tx
      BY <1>4, <1>t, <2>2 DEF TypeOK, IdsOK, Commit, Abort, NoTx
    <3> QED
      BY <1>4, <1>t, <2>1, <2>2, <3>1, OpenEnds DEF Open
  <2>4. events' \subseteq events /\ \A e \in events : e \in events' \/ e.tx = sender[j].tx
    BY <1>4 DEF Commit, Abort
  <2>5. \A e \in events' : e.tx \in Open' => e.tx = sender'[e.job].tx
    BY <1>t, <2>1, <2>3, <2>4 DEF OriginOK
  <2>6. \A k \in Jobs : sender'[k].state = "sent" => k # j /\ sender[k].tx # 0 /\ sender[k].tx # sender[j].tx
    BY <1>t, <2>1, <2>2 DEF IdsOK
  <2>7. \A k \in Jobs : sender'[k].state = "sent" =>
          \E e \in events' : e.job = k /\ e.tx = sender'[k].tx
    BY <2>1, <2>4, <2>6 DEF OriginOK
  <2> QED
    BY <2>4, <2>5, <2>7 DEF OriginOK
<1>5. CASE Move
  <2>1. sender' = sender /\ Open' = Open
    BY <1>5 DEF Move, Open
  <2>2. next \notin Open
    BY <1>t, OpenSmaller
  <2>3. \A r \in mover.due : r.retry # 0
    BY DEF IInv, TypeOK, PendingOK
  <2>4. events \subseteq events' /\ \A e \in events' : e \in events \/ (e.tx = next /\ e.retry # 0)
    BY <1>5, <2>3 DEF Move
  <2> QED
    BY <2>1, <2>2, <2>4 DEF OriginOK
<1>6. CASE RotateStep1
  <2>1. sender' = sender /\ Open' = Open /\ events' \subseteq events
    BY <1>6 DEF RotateStep1, Open
  <2>2. \A e \in events : e.tx \in Open => e \in events'
    BY <1>6 DEF RotateStep1
  <2>3. \A j \in Jobs : sender[j].state = "sent" => sender[j].tx \in Open
    BY <1>t DEF IdsOK, Open
  <2> QED
    BY <2>1, <2>2, <2>3 DEF OriginOK
<1> QED
  BY <1>1, <1>2, <1>3, <1>4, <1>5, <1>6, ConsumerFrame
     DEF Next, Sending, Tick, Maintain, Take, RotateStep2, vars

(* A job whose copies are all behind a tick stays so until it is moved.     *)
LEMMA TickedStays ==
  ASSUME IInv, [Next]_vars, ~ Move, NEW j \in Accepted, TickedSince(j)
  PROVE  TickedSince(j)'
<1>1. newest \in DOMAIN ticks /\ newest \in Nat /\ ticks[newest] \in Snapshots
  BY DEF IInv, TypeOK, TicksOK
<1>2. CASE events' \subseteq events /\ UNCHANGED <<ticks, newest>>
  BY <1>2 DEF TickedSince, Visible
<1>3. ASSUME NEW k \in Jobs, Sending(k)
      PROVE  TickedSince(j)'
  <2>1. UNCHANGED <<ticks, newest>>
    BY <1>3 DEF Sending, Begin, Send, Commit, Abort, cursor
  <2>2. \A e \in events' : e.job = j => e \in events
    BY <1>3 DEF Sending, Begin, Send, Commit, Abort, Accepted
  <2> QED
    BY <2>1, <2>2 DEF TickedSince, Visible
<1>4. CASE Tick
  <2>1. ticks'[newest'] = CurrentSnapshot /\ events' = events
    BY <1>1, <1>4 DEF Tick
  <2>2. Precedes(ticks[newest], CurrentSnapshot) /\ CurrentSnapshot \in Snapshots
    BY <1>1, TickIsLater DEF IInv, TypeOK, CurrentSnapshot, Snapshots, Open
  <2>3. \A e \in events : e.tx \in Nat
    BY DEF IInv, TypeOK, Events
  <2> QED
    BY <1>1, <2>1, <2>2, <2>3, StillVisible DEF TickedSince
<1>5. CASE RotateStep1
  <2>1. ticks'[newest'] = ticks[newest] /\ events' \subseteq events
    BY <1>1, <1>5, RotationKeepsTicks, RotationTicks DEF IInv, TicksOK, CursorOK, RotateStep1
  <2> QED
    BY <2>1 DEF TickedSince
<1> QED
  BY <1>2, <1>3, <1>4, <1>5, ConsumerFrame DEF Next, Maintain, Take, RotateStep2, vars, cursor

LEMMA PendingStep ==
  ASSUME IInv, PendingOK, [Next]_vars
  PROVE  PendingOK'
<1>1. ASSUME NEW c \in Consumers, NEW v \in consumer[c].todo, Retry(c, v)
      PROVE  /\ \A r \in retryQueue' : r.retry > 0
             /\ \A q, r \in retryQueue' : q.job = r.job => q = r
  <2>1. PICK e \in Copies(c, v) :
          retryQueue' = IF Conflict(c, v) THEN retryQueue
                        ELSE retryQueue \cup {[job |-> v.job, retry |-> e.retry + 1]}
    BY <1>1 DEF Retry
  <2>2. e.retry \in Nat
    BY DEF Copies, IInv, TypeOK, Events
  <2>3. ~Conflict(c, v) => \A r \in retryQueue : r.job # v.job
    BY DEF Conflict
  <2> QED
    BY <2>1, <2>2, <2>3 DEF PendingOK
<1>2. ASSUME retryQueue' \subseteq retryQueue
      PROVE  /\ \A r \in retryQueue' : r.retry > 0
             /\ \A q, r \in retryQueue' : q.job = r.job => q = r
  BY <1>2 DEF PendingOK
<1>3. /\ \A r \in retryQueue' : r.retry > 0
      /\ \A q, r \in retryQueue' : q.job = r.job => q = r
  <2>1. CASE \E j \in Jobs : Sending(j)
    BY <1>2, <2>1 DEF Sending, Begin, Send, Commit, Abort, retries, PendingOK
  <2>2. CASE Tick \/ Maintain \/ UNCHANGED vars
    BY <1>2, <2>2 DEF Tick, Maintain, Take, Move, RotateStep1, RotateStep2, vars, retries, PendingOK
  <2>3. ASSUME NEW c \in Consumers, Consume(c) \/ Stop(c),
               \A v \in consumer[c].todo : ~Retry(c, v)
        PROVE  retryQueue' = retryQueue
    BY <2>3 DEF Consume, Deliver, Receive, ReceiveAgain, Handle, Bury, GiveUp, Ack, Stop, retries
  <2> QED
    BY <1>1, <1>2, <2>1, <2>2, <2>3 DEF Next, PendingOK
<1>4. \A r \in mover'.due : TickedSince(r.job)'
  <2>1. CASE Move
    BY <2>1 DEF Move, Resting
  <2>2. ASSUME NEW r \in retryQueue, TickedSince(r.job), ~Move
        PROVE  TickedSince(r.job)'
    <3>1. r.job \in Accepted
      BY DEF IInv, RetriesOK
    <3> QED
      BY <2>2, <3>1, TickedStays
  <2>3. CASE UNCHANGED mover /\ ~Move
    BY <2>2, <2>3 DEF PendingOK, IInv, TypeOK
  <2>4. ASSUME NEW due \in SUBSET retryQueue, Take(due), ~Move
        PROVE  \A r \in mover'.due : TickedSince(r.job)'
    BY <2>2, <2>4 DEF Take
  <2>5. CASE (\E j \in Jobs : Sending(j)) /\ ~Move
    BY <2>3, <2>5 DEF Sending, Begin, Send, Commit, Abort, retries
  <2> QED
    BY <2>1, <2>3, <2>4, <2>5, ConsumerFrame
       DEF Next, Tick, Maintain, RotateStep1, RotateStep2, retries, vars
<1> QED
  BY <1>3, <1>4 DEF PendingOK

LEMMA CopiesStep ==
  ASSUME IInv, IInv', PendingOK, CopiesOK, [Next]_vars
  PROVE  CopiesOK'
<1> DEFINE Apart(e, f) ==
      \/ Visible(e.tx, ticks[lastTick]) \/ Visible(f.tx, ticks[lastTick])
      \/ \E n \in DOMAIN ticks : ~(Visible(e.tx, ticks[n]) <=> Visible(f.tx, ticks[n]))
<1>a. \A e, f \in events : e.job = f.job /\ e # f => Apart(e, f)
  BY DEF CopiesOK
<1>b. SUFFICES \A e, f \in events' : e.job = f.job /\ e # f => Apart(e, f)'
  BY DEF CopiesOK
<1>c. \A e \in events : e.tx \in Nat
  BY DEF IInv, TypeOK, Events
<1>1. CASE events' \subseteq events /\ UNCHANGED <<ticks, lastTick>>
  BY <1>a, <1>1 DEF Visible
<1>2. ASSUME NEW j \in Jobs, Sending(j)
      PROVE  \A e, f \in events' : e.job = f.job /\ e # f => Apart(e, f)'
  <2>1. UNCHANGED <<ticks, lastTick>>
    BY <1>2 DEF Sending, Begin, Send, Commit, Abort, cursor
  <2>2. CASE Send(j)
    <3>1. \A e \in events : e.job # j
      BY <2>2 DEF IInv, EventsOK, Send
    <3>2. PICK new : new.job = j /\ events' = events \cup {new}
      BY <2>2 DEF Send
    <3>3. \A e, f \in events' : e.job = f.job /\ e # f => e \in events /\ f \in events
      BY <3>1, <3>2
    <3> QED
      BY <1>a, <2>1, <3>3 DEF Visible
  <2>3. CASE events' \subseteq events
    BY <1>1, <2>1, <2>3
  <2> QED
    BY <1>2, <2>2, <2>3 DEF Sending, Begin, Commit, Abort
<1>3. CASE Tick
  <2>1. /\ events' = events /\ lastTick' = lastTick /\ DOMAIN ticks \subseteq DOMAIN ticks'
        /\ \A n \in DOMAIN ticks : ticks'[n] = ticks[n]
    BY <1>3 DEF Tick, IInv, TypeOK, TicksOK
  <2>2. lastTick \in DOMAIN ticks
    BY DEF IInv, CursorOK
  <2> QED
    BY <1>a, <2>1, <2>2
<1>4. ASSUME NEW c \in Consumers, Consume(c) \/ Stop(c)
      PROVE  \A e, f \in events' : e.job = f.job /\ e # f => Apart(e, f)'
  <2>1. events' = events /\ ticks' = ticks
    BY <1>4, ConsumerFrame
  <2>2. \A e \in events : Visible(e.tx, ticks[lastTick]) => Visible(e.tx, ticks[lastTick'])
    BY <1>4, CursorAdvances DEF IInv
  <2> QED
    BY <1>a, <2>1, <2>2
<1>5. CASE Move
  <2>1. UNCHANGED <<ticks, lastTick>>
    BY <1>5 DEF Move, cursor
  <2>2. newest \in DOMAIN ticks /\ ~Visible(next, ticks[newest])
    <3>1. newest \in DOMAIN ticks
      BY DEF IInv, TicksOK
    <3>2. ticks[newest].xmax \in Nat /\ ticks[newest].xmax <= horizon /\ horizon <= next
      BY <3>1 DEF IInv, TypeOK, TicksOK, IdsOK, Snapshots
    <3> QED
      BY <3>1, <3>2 DEF Visible, IInv, TypeOK
  <2>3. \A e \in events' : e \in events \/
          \E r \in mover.due :
            e = [job |-> r.job, tx |-> next, retry |-> r.retry, table |-> mover.dest]
    BY <1>5 DEF Move
  <2>4. ASSUME NEW e \in events, NEW r \in mover.due, e.job = r.job
        PROVE  Visible(e.tx, ticks[newest])
    BY <2>4 DEF PendingOK, TickedSince
  <2>5. \A q, r \in mover.due : q.job = r.job => q = r
    BY DEF PendingOK, IInv, TypeOK
  <2>6. ASSUME NEW e \in events', NEW f \in events', e.job = f.job, e # f
        PROVE  Apart(e, f)
    <3>1. CASE e \in events /\ f \in events
      BY <1>a, <2>6, <3>1
    <3>2. ASSUME e \notin events \/ f \notin events
          PROVE  ~(Visible(e.tx, ticks[newest]) <=> Visible(f.tx, ticks[newest]))
      <4>1. CASE e \in events /\ f \notin events
        BY <2>2, <2>3, <2>4, <2>6, <4>1
      <4>2. CASE e \notin events /\ f \in events
        BY <2>2, <2>3, <2>4, <2>6, <4>2
      <4>3. CASE e \notin events /\ f \notin events
        BY <2>3, <2>5, <2>6, <4>3
      <4> QED
        BY <3>2, <4>1, <4>2, <4>3
    <3> QED
      BY <2>2, <3>1, <3>2
  <2> QED
    BY <2>1, <2>6
<1>6. CASE RotateStep1
  <2>1. events' \subseteq events /\ lastTick' = lastTick
    BY <1>6 DEF RotateStep1
  <2>2. lastTick \in DOMAIN ticks /\ lastTick \in Nat /\ lastTick \in DOMAIN ticks'
    BY <1>6, RotationKeepsTicks DEF IInv, CursorOK, TypeOK
  <2>3. \A n \in DOMAIN ticks' : n \in DOMAIN ticks /\ ticks'[n] = ticks[n]
    BY <1>6, RotationTicks
  <2>4. ASSUME NEW n \in DOMAIN ticks, n \notin DOMAIN ticks', NEW e \in events, Visible(e.tx, ticks[n])
        PROVE  Visible(e.tx, ticks[lastTick])
    <3>1. n \in Nat /\ n <= lastTick
      BY <1>6, <2>2, <2>4, RotationKeepsTicks DEF IInv, TypeOK
    <3>2. Precedes(ticks[n], ticks[lastTick]) /\ ticks[n] \in Snapshots /\ ticks[lastTick] \in Snapshots
      BY <2>2, <3>1 DEF IInv, TicksOK, TypeOK
    <3> QED
      BY <1>c, <2>4, <3>2, StillVisible
  <2>5. ASSUME NEW e \in events', NEW f \in events', e.job = f.job, e # f
        PROVE  Apart(e, f)'
    <3>1. CASE Visible(e.tx, ticks[lastTick]) \/ Visible(f.tx, ticks[lastTick])
      BY <2>1, <2>2, <2>3, <3>1
    <3>2. ASSUME NEW n \in DOMAIN ticks, ~(Visible(e.tx, ticks[n]) <=> Visible(f.tx, ticks[n]))
          PROVE  Apart(e, f)'
      <4>1. CASE n \in DOMAIN ticks'
        BY <2>3, <3>2, <4>1
      <4>2. CASE n \notin DOMAIN ticks'
        BY <2>1, <2>4, <3>1, <3>2, <4>2
      <4> QED
        BY <4>1, <4>2
    <3> QED
      BY <1>a, <2>1, <2>5, <3>1, <3>2
  <2> QED
    BY <2>5
<1> QED
  BY <1>1, <1>2, <1>3, <1>4, <1>5, <1>6 DEF Next, Maintain, Take, RotateStep2, vars, cursor

LEMMA CopiesInvariance == Spec => []CInv
<1>1. CInv /\ IInv' /\ [Next]_vars => CInv'
  BY GapStep, OriginStep, PendingStep, CopiesStep DEF CInv
<1> QED
  BY <1>1, InitCInv, Invariance, PTL DEF Spec

-----------------------------------------------------------------------------
(* No replay.                                                               *)

(* The tick up to which jobs were handed out.                               *)
Upper == IF nextTick = 0 THEN lastTick ELSE nextTick

Begun(j) == \A e \in events : e.job = j /\ e.retry = 0 => Visible(e.tx, ticks[Upper])

BegunOK == \A j \in HandedOut : j \in Accepted /\ Begun(j)

(* What was handed out stays behind the cursor.                             *)
LEMMA UpperAdvances ==
  ASSUME IInv, IInv', [Next]_vars, NEW e \in events, Visible(e.tx, ticks[Upper])
  PROVE  Visible(e.tx, ticks[Upper])'
<1>t. /\ Upper \in DOMAIN ticks /\ Upper \in Nat /\ lastTick <= Upper /\ lastTick \in Nat
      /\ ticks[Upper] \in Snapshots /\ e.tx \in Nat
  BY DEF IInv, TypeOK, CursorOK, Upper, Events
<1>1. CASE UNCHANGED <<ticks, lastTick, nextTick>>
  BY <1>1 DEF Upper, Visible
<1>2. CASE Tick
  <2>1. Upper' = Upper /\ ticks'[Upper] = ticks[Upper]
    BY <1>t, <1>2 DEF Tick, Upper, IInv, TypeOK, TicksOK
  <2> QED
    BY <2>1 DEF Visible
<1>3. CASE RotateStep1
  <2>1. Upper' = Upper
    BY <1>3 DEF RotateStep1, Upper
  <2>2. Upper \in DOMAIN ticks' /\ ticks'[Upper] = ticks[Upper]
    BY <1>t, <1>3, RotationKeepsTicks, RotationTicks DEF IInv
  <2> QED
    BY <2>1, <2>2 DEF Visible
<1>4. ASSUME NEW c \in Consumers, Receive(c)
      PROVE  Visible(e.tx, ticks[Upper])'
  <2>1. PICK n \in Later : (lastTick' = n /\ nextTick' = nextTick) \/ nextTick' = n
    BY <1>4 DEF Receive
  <2>2. n \in DOMAIN ticks /\ lastTick < n /\ nextTick = 0 /\ ticks' = ticks /\ n \in Nat
    BY <1>4 DEF Receive, Later, IInv, TypeOK
  <2>3. Upper' = n /\ Upper = lastTick
    BY <1>t, <2>1, <2>2 DEF Upper
  <2>4. Precedes(ticks[lastTick], ticks[n]) /\ ticks[n] \in Snapshots
    BY <1>t, <2>2, <2>3 DEF IInv, TicksOK, TypeOK
  <2>5. Visible(e.tx, ticks[n])
    BY <1>t, <2>3, <2>4, StillVisible
  <2> QED
    BY <2>2, <2>3, <2>5 DEF Visible
<1>5. ASSUME NEW c \in Consumers, Ack(c)
      PROVE  Visible(e.tx, ticks[Upper])'
  <2>1. ticks' = ticks /\ Upper' = Upper
    BY <1>5 DEF Ack, Upper
  <2> QED
    BY <2>1 DEF Visible
<1>6. ASSUME NEW c \in Consumers, NEW v \in consumer[c].todo,
             Handle(c, v) \/ Bury(c, v) \/ Retry(c, v) \/ GiveUp(c, v)
      PROVE  Visible(e.tx, ticks[Upper])'
  BY <1>1, <1>6 DEF Handle, Bury, Retry, GiveUp, cursor
<1>7. ASSUME NEW j \in Jobs, Sending(j)
      PROVE  Visible(e.tx, ticks[Upper])'
  BY <1>1, <1>7 DEF Sending, Begin, Send, Commit, Abort, cursor
<1> QED
  BY <1>1, <1>2, <1>3, <1>4, <1>5, <1>6, <1>7
     DEF Next, Consume, Deliver, ReceiveAgain, Stop, Maintain, Take, Move, RotateStep2, vars, cursor

LEMMA BegunStays ==
  ASSUME CInv, IInv', [Next]_vars, NEW j \in Accepted, Begun(j)
  PROVE  Begun(j)'
<1>1. \A e \in events' : e \in events \/ e.retry # 0 \/ e.job # j
  <2>1. ASSUME NEW k \in Jobs, Sending(k)
        PROVE  \A e \in events' : e \in events \/ e.job # j
    BY <2>1 DEF Sending, Begin, Send, Commit, Abort, Accepted
  <2>2. CASE Move
    <3>1. \A r \in mover.due : r.retry # 0
      BY DEF CInv, IInv, TypeOK, PendingOK
    <3> QED
      BY <2>2, <3>1 DEF Move
  <2>3. CASE events' \subseteq events
    BY <2>3
  <2> QED
    BY <2>1, <2>2, <2>3, ConsumerFrame
       DEF Next, Tick, Maintain, Take, RotateStep1, RotateStep2, vars
<1>2. \A e \in events : Visible(e.tx, ticks[Upper]) => Visible(e.tx, ticks[Upper])'
  BY UpperAdvances DEF CInv
<1> QED
  BY <1>1, <1>2 DEF Begun

(* A job of a batch that is handed out is behind the batch's tick.          *)
LEMMA HandedIsBegun ==
  ASSUME CInv, BegunOK, NEW n \in DOMAIN ticks, lastTick <= n, Upper <= n,
         NEW v \in Rows(ticks[lastTick], ticks[n])
  PROVE  /\ v.job \in Accepted
         /\ \A e \in events : e.job = v.job /\ e.retry = 0 => Visible(e.tx, ticks[n])
<1>1. v \in events /\ v.tx \notin Open /\ Visible(v.tx, ticks[n])
  BY RowsAreExact DEF CInv, Exact
<1>2. v.job \in Accepted
  BY <1>1 DEF CInv, IInv, TypeOK, Events, EventsOK, Open, Accepted
<1>3. ASSUME NEW e \in events, e.job = v.job, e.retry = 0
      PROVE  Visible(e.tx, ticks[n])
  <2>1. CASE v.retry = 0
    <3>1. e = v
      BY <1>1, <1>3, <2>1 DEF CInv, OriginOK
    <3> QED
      BY <1>1, <3>1
  <2>2. CASE v.retry # 0
    <3>1. Visible(e.tx, ticks[Upper])
      BY <1>1, <1>3, <2>2 DEF BegunOK, HandedOut, Begun
    <3>2. Precedes(ticks[Upper], ticks[n]) /\ ticks[Upper] \in Snapshots /\ ticks[n] \in Snapshots
      BY DEF CInv, IInv, TypeOK, TicksOK, CursorOK, Upper
    <3>3. e.tx \in Nat
      BY DEF CInv, IInv, TypeOK, Events
    <3> QED
      BY <3>1, <3>2, <3>3, StillVisible
  <2> QED
    BY <2>1, <2>2
<1> QED
  BY <1>2, <1>3

LEMMA BegunStep ==
  ASSUME CInv, IInv', BegunOK, [Next]_vars
  PROVE  BegunOK'
<1>t. TypeOK /\ Accepted \subseteq Accepted'
  BY AcceptedGrows DEF CInv, IInv
<1>1. CASE HandedOut' \subseteq HandedOut
  BY <1>t, <1>1, BegunStays DEF BegunOK
<1>2. ASSUME NEW c \in Consumers, NEW n \in DOMAIN ticks, lastTick <= n, Upper <= n,
             NEW some \in SUBSET Rows(ticks[lastTick], ticks[n]),
             UNCHANGED <<handled, deadLetter, retryQueue, events, ticks>>,
             Upper' = n,
             \A b \in Consumers : b # c => consumer'[b] = consumer[b],
             consumer'[c].todo = some
      PROVE  BegunOK'
  <2>1. \A j \in HandedOut' : j \in HandedOut \/ \E v \in some : v.job = j
    BY <1>2 DEF HandedOut
  <2>2. ASSUME NEW v \in some
        PROVE  v.job \in Accepted' /\ Begun(v.job)'
    <3>1. v.job \in Accepted /\ \A e \in events : e.job = v.job /\ e.retry = 0 => Visible(e.tx, ticks[n])
      BY <1>2, HandedIsBegun
    <3> QED
      BY <1>t, <1>2, <3>1 DEF Begun, Visible
  <2> QED
    BY <1>t, <2>1, <2>2, BegunStays DEF BegunOK
<1>3. ASSUME NEW c \in Consumers, Receive(c)
      PROVE  BegunOK'
  <2>1. PICK n \in Later :
          \/ UNCHANGED consumer
          \/ /\ nextTick' = n /\ UNCHANGED lastTick
             /\ \E some \in Handed(Rows(ticks[lastTick], ticks[n])) :
                  consumer' = [consumer EXCEPT ![c] = [batch |-> n, todo |-> some]]
    BY <1>3 DEF Receive
  <2>2. /\ n \in DOMAIN ticks /\ n \in Nat /\ lastTick \in Nat /\ lastTick < n /\ n # 0 /\ Upper = lastTick
        /\ UNCHANGED <<handled, deadLetter, retryQueue, events, ticks>>
    BY <1>t, <1>3 DEF Receive, Later, TypeOK, Upper, retries, outcomes, CInv, IInv
  <2>3. CASE UNCHANGED consumer
    BY <1>1, <2>2, <2>3 DEF HandedOut
  <2>4. ASSUME nextTick' = n, NEW some \in Handed(Rows(ticks[lastTick], ticks[n])),
               consumer' = [consumer EXCEPT ![c] = [batch |-> n, todo |-> some]]
        PROVE  BegunOK'
    <3>1. some \in SUBSET Rows(ticks[lastTick], ticks[n]) /\ Upper' = n
      BY <2>2, <2>4, HandedIsPart DEF Upper
    <3>2. consumer'[c].todo = some /\ \A b \in Consumers : b # c => consumer'[b] = consumer[b]
      BY <1>t, <2>4 DEF TypeOK
    <3> QED
      BY <1>2, <2>2, <3>1, <3>2
  <2> QED
    BY <2>1, <2>3, <2>4
<1>4. ASSUME NEW c \in Consumers, ReceiveAgain(c)
      PROVE  BegunOK'
  <2>1. PICK some \in Handed(BatchRows) :
          consumer' = [consumer EXCEPT ![c] = [batch |-> nextTick, todo |-> some]]
    BY <1>4 DEF ReceiveAgain
  <2>2. some \in SUBSET Rows(ticks[lastTick], ticks[nextTick])
    BY <2>1, HandedIsPart DEF BatchRows
  <2>3. /\ nextTick \in DOMAIN ticks /\ lastTick <= nextTick /\ Upper = nextTick /\ Upper' = nextTick
        /\ Upper <= nextTick
        /\ UNCHANGED <<handled, deadLetter, retryQueue, events, ticks>>
    BY <1>t, <1>4 DEF ReceiveAgain, Upper, CInv, IInv, CursorOK, TypeOK, cursor, retries, outcomes
  <2>4. consumer'[c].todo = some /\ \A b \in Consumers : b # c => consumer'[b] = consumer[b]
    BY <1>t, <2>1 DEF TypeOK
  <2> QED
    BY <1>2, <2>2, <2>3, <2>4
<1>5. ASSUME NEW c \in Consumers, NEW v \in consumer[c].todo,
             Handle(c, v) \/ Bury(c, v) \/ Retry(c, v)
      PROVE  BegunOK'
  <2>1. \A b \in Consumers : consumer'[b].todo \subseteq consumer[b].todo
    BY <1>t, <1>5 DEF Handle, Bury, Retry, Forget, TypeOK
  <2>2. /\ handled' \subseteq handled \cup {v.job} /\ deadLetter' \subseteq deadLetter \cup {v.job}
        /\ \A r \in retryQueue' : r \in retryQueue \/ r.job = v.job
        /\ events' = events
    BY <1>5 DEF Handle, Bury, Retry, retries, outcomes
  <2>3. v.job \in HandedOut
    BY DEF HandedOut
  <2>4. \A j \in HandedOut' : j \in HandedOut
    BY <2>1, <2>2, <2>3 DEF HandedOut
  <2> QED
    BY <1>1, <2>4
<1>6. ASSUME NEW c \in Consumers, Ack(c) \/ Stop(c) \/ \E v \in consumer[c].todo : GiveUp(c, v)
      PROVE  BegunOK'
  <2>1. \A b \in Consumers : consumer'[b].todo \subseteq consumer[b].todo
    BY <1>t, <1>6 DEF Ack, Stop, GiveUp, Polling, TypeOK
  <2>2. UNCHANGED <<handled, deadLetter, retryQueue, events>>
    BY <1>6 DEF Ack, Stop, GiveUp, retries, outcomes
  <2> QED
    BY <1>1, <2>1, <2>2 DEF HandedOut
<1>7. ASSUME NEW j \in Jobs, Sending(j)
      PROVE  BegunOK'
  <2>1. UNCHANGED <<handled, deadLetter, retryQueue, consumer>>
    BY <1>7 DEF Sending, Begin, Send, Commit, Abort, retries, outcomes
  <2>2. \A e \in events' : e \in events \/ e.retry = 0
    BY <1>7 DEF Sending, Begin, Send, Commit, Abort
  <2> QED
    BY <1>1, <2>1, <2>2 DEF HandedOut
<1>8. CASE Move
  <2>1. /\ UNCHANGED <<handled, deadLetter, consumer>>
        /\ retryQueue' \subseteq retryQueue
    BY <1>8 DEF Move, outcomes
  <2>2. \A e \in events' : e \in events \/ \E r \in retryQueue : r.job = e.job
    BY <1>8, <1>t DEF Move, TypeOK
  <2> QED
    BY <1>1, <2>1, <2>2 DEF HandedOut
<1>9. CASE UNCHANGED <<handled, deadLetter, retryQueue, consumer>> /\ events' \subseteq events
  BY <1>1, <1>9 DEF HandedOut
<1> QED
  BY <1>3, <1>4, <1>5, <1>6, <1>7, <1>8, <1>9
     DEF Next, Consume, Deliver, Tick, Maintain, Take, RotateStep1, RotateStep2, vars,
         retries, outcomes

LEMMA BegunInvariance == Spec => []BegunOK
<1>1. Init => BegunOK
  BY DEF Init, BegunOK, HandedOut, Polling
<1> QED
  BY <1>1, BegunStep, CopiesInvariance, Invariance, PTL DEF Spec

(* No batch brings the first copy of a job that was handed out before: only *)
(* a nack or an unfinished batch makes a job run twice.                     *)
THEOREM NothingReplayed == Spec => NoReplay
<1> DEFINE Fresh ==
      nextTick = 0 /\ nextTick' # 0 =>
        \A e \in BatchRows' : e.retry = 0 => e.job \notin HandedOut
<1>1. ASSUME CInv, BegunOK, BatchesAreExact', [Next]_vars
      PROVE  Fresh
  <2> SUFFICES ASSUME nextTick = 0, nextTick' # 0,
                      NEW e \in BatchRows', e.retry = 0, e.job \in HandedOut
               PROVE  FALSE
    OBVIOUS
  <2>1. UNCHANGED <<lastTick, ticks, events>>
    <3>1. ASSUME NEW c \in Consumers, Receive(c)
          PROVE  UNCHANGED <<lastTick, ticks, events>>
      BY <3>1 DEF Receive
    <3>2. ASSUME NEW c \in Consumers, Ack(c)
          PROVE  FALSE
      BY <3>2 DEF Ack
    <3>3. ASSUME NEW j \in Jobs, Sending(j)
          PROVE  FALSE
      BY <3>3 DEF Sending, Begin, Send, Commit, Abort, cursor
    <3>4. ASSUME NEW c \in Consumers, NEW v \in consumer[c].todo,
                 Handle(c, v) \/ Bury(c, v) \/ Retry(c, v) \/ GiveUp(c, v)
          PROVE  FALSE
      BY <3>4 DEF Handle, Bury, Retry, GiveUp, cursor
    <3> QED
      BY <1>1, <3>1, <3>2, <3>3, <3>4
         DEF Next, Consume, Deliver, ReceiveAgain, Stop, Tick, Maintain, Take, Move, RotateStep1,
             RotateStep2, vars, cursor
  <2>2. e \in events /\ ~Visible(e.tx, ticks[lastTick])
    BY <1>1, <2>1 DEF BatchesAreExact, Exact, Visible
  <2>3. Visible(e.tx, ticks[lastTick])
    BY <1>1, <2>2 DEF BegunOK, HandedOut, Begun, Upper
  <2> QED
    BY <2>2, <2>3
<1>2. Spec => [][Fresh]_vars
  BY <1>1, CopiesInvariance, BegunInvariance, ExactBatches, PTL DEF Spec
<1> QED
  BY <1>2 DEF NoReplay

-----------------------------------------------------------------------------
(* Nothing is lost.                                                         *)

(* receive hands a whole batch out.                                         *)
Fits == nextTick # 0 => Cardinality(BatchRows) <= MaxReturn

(* Who holds the active batch has every event of it that is not settled.    *)
HeldOK ==
  \A c \in Consumers :
    consumer[c].batch # 0 /\ consumer[c].batch = nextTick =>
      \A e \in Exact(ticks[lastTick], ticks[nextTick]) :
        e \in consumer[c].todo \/ Settled(e.job, ticks[nextTick])

(* The ticks from the cursor on stay as they are.                           *)
LEMMA TicksStay ==
  ASSUME IInv, [Next]_vars, NEW n \in DOMAIN ticks, lastTick <= n
  PROVE  n \in DOMAIN ticks' /\ ticks'[n] = ticks[n]
<1>1. CASE ticks' = ticks
  BY <1>1
<1>2. CASE Tick
  BY <1>2 DEF Tick, IInv, TypeOK, TicksOK
<1>3. CASE RotateStep1
  BY <1>3, RotationKeepsTicks, RotationTicks DEF IInv
<1>4. ASSUME NEW j \in Jobs, Sending(j)
      PROVE  ticks' = ticks
  BY <1>4 DEF Sending, Begin, Send, Commit, Abort, cursor
<1> QED
  BY <1>1, <1>2, <1>3, <1>4, ConsumerFrame
     DEF Next, Maintain, Take, Move, RotateStep2, vars, cursor

(* The transactions in progress after a step.                               *)
LEMMA OpenStep ==
  ASSUME TypeOK, IdsOK, [Next]_vars
  PROVE  Open' \subseteq Open \cup {next}
<1>1. ASSUME NEW j \in Jobs, Sending(j)
      PROVE  Open' \subseteq Open \cup {next}
  BY <1>1, OpenBegins, OpenSends, OpenEnds DEF Sending
<1>2. CASE UNCHANGED sender
  BY <1>2 DEF Open
<1> QED
  BY <1>1, <1>2, ConsumerFrame DEF Next, Tick, Maintain, Take, Move, RotateStep1, RotateStep2, vars

(* The event of an ended transaction that a tick does not see outlives each *)
(* step: no abort and no truncation removes it.                             *)
LEMMA AheadStays ==
  ASSUME IInv, [Next]_vars, NEW n \in DOMAIN ticks, lastTick <= n,
         NEW e \in events, e.tx \notin Open, ~Visible(e.tx, ticks[n])
  PROVE  e \in events' /\ e.tx \notin Open'
<1>t. /\ e.tx \in Nat /\ e.tx < next /\ lastTick \in DOMAIN ticks
      /\ ticks[lastTick] \in Snapshots /\ ticks[n] \in Snapshots /\ step2 \in Nat /\ next \in Nat
      /\ Precedes(ticks[lastTick], ticks[n])
  BY DEF IInv, TypeOK, Events, EventsOK, CursorOK, TicksOK
<1>1. e.tx \notin Open'
  BY <1>t, OpenStep DEF IInv
<1>2. ASSUME NEW j \in Jobs, Sending(j)
      PROVE  e \in events'
  <2>1. CASE Abort(j)
    <3>1. sender[j].tx \in Open
      BY <2>1 DEF Abort, IInv, IdsOK, Open
    <3> QED
      BY <2>1, <3>1 DEF Abort
  <2> QED
    BY <1>2, <2>1 DEF Sending, Begin, Send, Commit
<1>3. CASE RotateStep1
  <2>1. CASE e.table = Following
    <3>1. e.table # cur /\ step2 # 0
      BY <1>3, <2>1, TablesType DEF RotateStep1, IInv, TypeOK
    <3>2. e.tx < step2
      BY <3>1 DEF IInv, TablesOK
    <3>3. Visible(e.tx, ticks[lastTick])
      BY <1>t, <1>3, <3>2 DEF RotateStep1, Above, Visible, Snapshots
    <3> QED
      BY <1>t, <3>3, StillVisible
  <2>2. CASE e.table # Following
    BY <1>1, <1>3, <2>2 DEF RotateStep1
  <2> QED
    BY <2>1, <2>2
<1>4. CASE Move
  BY <1>1, <1>4 DEF Move
<1>5. CASE UNCHANGED events
  BY <1>1, <1>5
<1> QED
  BY <1>1, <1>2, <1>3, <1>4, <1>5, ConsumerFrame
     DEF Next, Tick, Maintain, Take, RotateStep2, vars

(* What no consumer takes away from the retry queue, nobody does but the    *)
(* mover, who makes it an event.                                            *)
LEMMA OutcomesGrow ==
  ASSUME TypeOK, [Next]_vars
  PROVE  /\ handled \subseteq handled' /\ deadLetter \subseteq deadLetter'
         /\ Move \/ retryQueue \subseteq retryQueue'
<1> USE DEF retries, outcomes
<1>1. ASSUME NEW j \in Jobs, Sending(j)
      PROVE  UNCHANGED <<handled, deadLetter, retryQueue>>
  BY <1>1 DEF Sending, Begin, Send, Commit, Abort
<1>2. ASSUME NEW c \in Consumers, NEW v \in consumer[c].todo,
             Handle(c, v) \/ Bury(c, v) \/ Retry(c, v) \/ GiveUp(c, v)
      PROVE  /\ handled \subseteq handled' /\ deadLetter \subseteq deadLetter'
             /\ retryQueue \subseteq retryQueue'
  BY <1>2 DEF Handle, Bury, Retry, GiveUp
<1> QED
  BY <1>1, <1>2
     DEF Next, Consume, Deliver, Receive, ReceiveAgain, Ack, Stop, Tick, Maintain, Take, Move,
         RotateStep1, RotateStep2, vars

(* A job that is to be delivered once more, or is ahead of a tick the cursor *)
(* has not passed, stays so: the mover turns a row of the retry queue into   *)
(* an event no tick has seen.                                                *)
LEMMA DueStays ==
  ASSUME IInv, [Next]_vars, NEW n \in DOMAIN ticks, lastTick <= n,
         NEW j, Waiting(j) \/ Ahead(j, ticks[n])
  PROVE  Waiting(j)' \/ Ahead(j, ticks[n])'
<1>1. ticks'[n] = ticks[n]
  BY TicksStay
<1>3. ASSUME NEW r \in retryQueue, r.job = j
      PROVE  Waiting(j)' \/ Ahead(j, ticks[n])'
  <2>1. CASE r \in retryQueue'
    BY <1>3, <2>1 DEF Waiting
  <2>2. CASE r \notin retryQueue'
    <3>1. Move /\ r \in mover.due
      BY <1>3, <2>2, OutcomesGrow DEF IInv, Move
    <3>2. PICK e \in events' : e.job = j /\ e.tx = next
      <4>1. [job |-> r.job, tx |-> next, retry |-> r.retry, table |-> mover.dest] \in events'
        BY <3>1 DEF Move
      <4> QED
        BY <1>3, <4>1
    <3>3. next \notin Open'
      <4>1. Open' = Open
        BY <3>1 DEF Move, Open
      <4> QED
        BY <4>1, OpenSmaller DEF IInv, TypeOK
    <3>4. ~Visible(next, ticks[n])
      BY DEF IInv, TypeOK, IdsOK, TicksOK, Snapshots, Visible
    <3> QED
      BY <1>1, <3>2, <3>3, <3>4 DEF Ahead, Visible
  <2> QED
    BY <2>1, <2>2
<1>4. ASSUME NEW e \in events, e.job = j, e.tx \notin Open, ~Visible(e.tx, ticks[n])
      PROVE  Waiting(j)' \/ Ahead(j, ticks[n])'
  BY <1>1, <1>4, AheadStays DEF Ahead, Visible
<1> QED
  BY <1>3, <1>4 DEF Waiting, Ahead

(* A job that is settled as of a tick the cursor has not passed stays so.   *)
LEMMA SettledStays ==
  ASSUME IInv, [Next]_vars, NEW n \in DOMAIN ticks, lastTick <= n,
         NEW j, Settled(j, ticks[n])
  PROVE  Settled(j, ticks[n])'
<1>1. CASE j \in handled \/ j \in deadLetter
  BY <1>1, OutcomesGrow DEF IInv, Settled
<1>2. CASE Waiting(j) \/ Ahead(j, ticks[n])
  BY <1>2, DueStays DEF Settled
<1> QED
  BY <1>1, <1>2 DEF Settled

(* The rows between the last tick and the one after it hold one copy of a   *)
(* job at most.                                                             *)
LEMMA OneUpTo ==
  ASSUME CInv, NEW t \in DOMAIN ticks, lastTick < t,
         \A n \in DOMAIN ticks : n <= lastTick \/ t <= n,
         NEW e \in Rows(ticks[lastTick], ticks[t]), NEW f \in Rows(ticks[lastTick], ticks[t]),
         e.job = f.job
  PROVE  e = f
<1>1. /\ lastTick \in DOMAIN ticks /\ lastTick \in Nat /\ t \in Nat
      /\ ticks[lastTick] \in Snapshots /\ ticks[t] \in Snapshots
  BY DEF CInv, IInv, CursorOK, TypeOK
<1>2. Rows(ticks[lastTick], ticks[t]) = Exact(ticks[lastTick], ticks[t])
  BY <1>1, RowsAreExact DEF CInv
<1>3. /\ e \in events /\ f \in events /\ e.job = f.job /\ e.tx \in Nat /\ f.tx \in Nat
      /\ ~Visible(e.tx, ticks[lastTick]) /\ ~Visible(f.tx, ticks[lastTick])
      /\ Visible(e.tx, ticks[t]) /\ Visible(f.tx, ticks[t])
  BY <1>2 DEF Exact, CInv, IInv, TypeOK, Events
<1>4. SUFFICES ASSUME NEW n \in DOMAIN ticks
               PROVE  Visible(e.tx, ticks[n]) <=> Visible(f.tx, ticks[n])
  BY <1>3 DEF CInv, CopiesOK
<1>5. ticks[n] \in Snapshots /\ n \in Nat
  BY DEF CInv, IInv, TypeOK
<1>6. CASE n <= lastTick
  <2>1. Precedes(ticks[n], ticks[lastTick])
    BY <1>1, <1>6 DEF CInv, IInv, TicksOK
  <2> QED
    BY <1>1, <1>3, <1>5, <2>1, StillVisible
<1>7. CASE t <= n
  <2>1. Precedes(ticks[t], ticks[n])
    BY <1>1, <1>7 DEF CInv, IInv, TicksOK
  <2> QED
    BY <1>1, <1>3, <1>5, <2>1, StillVisible
<1> QED
  BY <1>6, <1>7

(* An active batch holds one copy of a job at most.                         *)
LEMMA OneOfEach ==
  ASSUME CInv, nextTick # 0, NEW e \in BatchRows, NEW f \in BatchRows, e.job = f.job
  PROVE  e = f
  BY OneUpTo DEF CInv, IInv, CursorOK, GapOK, BatchRows

LEMMA OneCopy ==
  ASSUME CInv, nextTick # 0, NEW c \in Consumers, NEW v,
         NEW e \in Copies(c, v), NEW f \in Copies(c, v)
  PROVE  e = f
  BY OneOfEach DEF Copies

(* A nack of the active batch has the job wait to be retried.               *)
LEMMA RetryWaits ==
  ASSUME CInv, nextTick # 0, NEW c \in Consumers, NEW v, Retry(c, v)
  PROVE  Waiting(v.job)'
<1>1. PICK e \in Copies(c, v) :
        retryQueue' = IF Conflict(c, v) THEN retryQueue
                      ELSE retryQueue \cup {[job |-> v.job, retry |-> e.retry + 1]}
  BY DEF Retry
<1>2. Copies(c, v) = {e}
  BY <1>1, OneCopy
<1>3. Cardinality(Copies(c, v)) = 1
  BY <1>2, FS_Singleton
<1>4. CASE Conflict(c, v)
  <2>1. \E r \in retryQueue : r.job = v.job
    BY <1>3, <1>4 DEF Conflict
  <2> QED
    BY <1>1, <1>4, <2>1 DEF Waiting
<1>5. CASE ~Conflict(c, v)
  <2>1. [job |-> v.job, retry |-> e.retry + 1] \in retryQueue'
    BY <1>1, <1>5
  <2> QED
    BY <2>1 DEF Waiting
<1> QED
  BY <1>4, <1>5

(* No event enters the batch once its tick was taken.                       *)
LEMMA ExactShrinks ==
  ASSUME IInv, [Next]_vars, nextTick # 0, UNCHANGED <<lastTick, nextTick>>
  PROVE  Exact(ticks[lastTick], ticks[nextTick])' \subseteq Exact(ticks[lastTick], ticks[nextTick])
<1>1. /\ lastTick \in DOMAIN ticks /\ nextTick \in DOMAIN ticks /\ lastTick < nextTick
      /\ lastTick \in Nat /\ nextTick \in Nat /\ ticks[nextTick] \in Snapshots
  BY DEF IInv, CursorOK, TypeOK
<1>2. ticks'[lastTick] = ticks[lastTick] /\ ticks'[nextTick] = ticks[nextTick]
  BY <1>1, TicksStay
<1> SUFFICES ASSUME NEW e \in events', e.tx \notin Open',
                    ~Visible(e.tx, ticks[lastTick]), Visible(e.tx, ticks[nextTick])
             PROVE  e \in events /\ e.tx \notin Open
  BY <1>2 DEF Exact, Visible
<1>3. e.tx \notin Open
  BY <1>1 DEF IInv, TicksOK
<1>4. ASSUME NEW j \in Jobs, Sending(j)
      PROVE  e \in events
  <2>1. CASE Send(j)
    <3>1. sender[j].tx \in Open
      BY <2>1 DEF Send, IInv, IdsOK, Open
    <3> QED
      BY <1>3, <2>1, <3>1 DEF Send
  <2> QED
    BY <1>4, <2>1 DEF Sending, Begin, Commit, Abort
<1>5. CASE Move
  <2>1. e \in events \/ e.tx = next
    BY <1>5 DEF Move
  <2>2. ~Visible(next, ticks[nextTick])
    BY <1>1 DEF IInv, TypeOK, IdsOK, TicksOK, Snapshots, Visible
  <2> QED
    BY <1>3, <2>1, <2>2
<1>6. CASE events' \subseteq events
  BY <1>3, <1>6
<1>7. e \in events
  BY <1>4, <1>5, <1>6, ConsumerFrame DEF Next, Tick, Maintain, Take, RotateStep1, RotateStep2, vars
<1> QED
  BY <1>3, <1>7

(* Deliveries settle what they take from their batch, and nobody else's     *)
(* step unsettles it.                                                       *)
LEMMA HeldStep ==
  ASSUME CInv, Fits', HeldOK, Fits, [Next]_vars
  PROVE  HeldOK'
<1>t. /\ IInv /\ TypeOK /\ lastTick \in Nat /\ nextTick \in Nat
      /\ consumer \in [Consumers -> [batch : Nat, todo : SUBSET Events]]
  BY DEF CInv, IInv, TypeOK
<1> SUFFICES ASSUME NEW c \in Consumers,
                    consumer'[c].batch # 0, consumer'[c].batch = nextTick',
                    NEW e \in Exact(ticks[lastTick], ticks[nextTick])'
             PROVE  e \in consumer'[c].todo \/ Settled(e.job, ticks[nextTick])'
  BY DEF HeldOK
(* A step of the batch: what leaves the hands of its holder is settled.     *)
<1>1. ASSUME UNCHANGED <<lastTick, nextTick>>, consumer'[c].batch = consumer[c].batch,
             \A v \in consumer[c].todo : v \in consumer'[c].todo \/ Settled(v.job, ticks[nextTick])'
      PROVE  e \in consumer'[c].todo \/ Settled(e.job, ticks[nextTick])'
  <2>1. nextTick # 0 /\ nextTick \in DOMAIN ticks /\ lastTick <= nextTick
    BY <1>t, <1>1 DEF IInv, CursorOK
  <2>2. e \in Exact(ticks[lastTick], ticks[nextTick])
    BY <1>t, <1>1, <2>1, ExactShrinks
  <2>3. e \in consumer[c].todo \/ Settled(e.job, ticks[nextTick])
    BY <1>1, <2>2 DEF HeldOK
  <2>4. CASE Settled(e.job, ticks[nextTick])
    <3>1. PICK n \in DOMAIN ticks : n = nextTick /\ lastTick <= n /\ Settled(e.job, ticks[n])
      BY <2>1, <2>4
    <3>2. Settled(e.job, ticks[n])'
      BY <1>t, <3>1, SettledStays
    <3> QED
      BY <1>1, <3>1, <3>2
  <2> QED
    BY <1>1, <2>3, <2>4
<1>2. ASSUME UNCHANGED <<lastTick, nextTick>>, consumer'[c] = consumer[c]
      PROVE  e \in consumer'[c].todo \/ Settled(e.job, ticks[nextTick])'
  BY <1>1, <1>2
<1>3. ASSUME NEW d \in Consumers, Receive(d)
      PROVE  e \in consumer'[c].todo \/ Settled(e.job, ticks[nextTick])'
  <2>1. PICK n \in Later :
          \/ UNCHANGED nextTick
          \/ /\ nextTick' = n /\ UNCHANGED lastTick
             /\ \E some \in Handed(Rows(ticks[lastTick], ticks[n])) :
                  consumer' = [consumer EXCEPT ![d] = [batch |-> n, todo |-> some]]
    BY <1>3 DEF Receive
  <2>2. nextTick = 0 /\ n \in DOMAIN ticks /\ n \in Nat /\ lastTick < n
    BY <1>t, <1>3 DEF Receive, Later, TypeOK
  <2>3. PICK some \in Handed(Rows(ticks[lastTick], ticks[n])) :
          consumer' = [consumer EXCEPT ![d] = [batch |-> n, todo |-> some]]
    BY <2>1, <2>2
  <2>4. nextTick' = n /\ UNCHANGED lastTick
    BY <2>1, <2>2
  <2>5. UNCHANGED <<events, sender, ticks, cur, step1, step2>>
    BY <1>3, ConsumerFrame DEF Consume
  <2>6. CASE c = d
    <3>1. Rows(ticks[lastTick], ticks[n]) = Exact(ticks[lastTick], ticks[n])
      BY <1>t, <2>2, RowsAreExact
    <3>2. e \in Rows(ticks[lastTick], ticks[n])
      BY <2>4, <2>5, <3>1 DEF Exact, Open, Visible
    <3>3. BatchRows' = Rows(ticks[lastTick], ticks[n])
      BY <2>4, <2>5
         DEF BatchRows, Rows, Open, TablesOf, Previous, Selected, Older, InReach, Visible, Above
    <3>4. Cardinality(Rows(ticks[lastTick], ticks[n])) <= MaxReturn
      BY <2>2, <2>4, <3>3 DEF Fits
    <3>5. some = Rows(ticks[lastTick], ticks[n])
      BY <2>3, <3>4 DEF Handed
    <3>6. consumer'[c].todo = some
      BY <1>t, <2>3, <2>6
    <3> QED
      BY <3>2, <3>5, <3>6
  <2>7. CASE c # d
    <3>1. consumer'[c] = consumer[c]
      BY <2>3, <2>7, <1>t
    <3>2. consumer[c].batch \in Nat /\ consumer[c].batch <= lastTick
      BY <1>t, <2>2 DEF CInv, GapOK
    <3> QED
      BY <1>t, <2>2, <2>4, <3>1, <3>2
  <2> QED
    BY <2>6, <2>7
<1>4. ASSUME NEW d \in Consumers, ReceiveAgain(d)
      PROVE  e \in consumer'[c].todo \/ Settled(e.job, ticks[nextTick])'
  <2>1. PICK some \in Handed(BatchRows) :
          consumer' = [consumer EXCEPT ![d] = [batch |-> nextTick, todo |-> some]]
    BY <1>4 DEF ReceiveAgain
  <2>2. UNCHANGED <<events, sender, ticks, lastTick, nextTick>> /\ nextTick # 0
    BY <1>4 DEF ReceiveAgain, cursor
  <2>3. CASE c = d
    <3>1. nextTick \in DOMAIN ticks /\ lastTick <= nextTick
      BY <1>t, <2>2 DEF IInv, CursorOK
    <3>2. e \in BatchRows
      BY <1>t, <2>2, <3>1, RowsAreExact DEF BatchRows, Exact, Open, Visible
    <3>3. some = BatchRows
      BY <2>1, <2>2 DEF Fits, Handed
    <3>4. consumer'[c].todo = some
      BY <1>t, <2>1, <2>3
    <3> QED
      BY <3>2, <3>3, <3>4
  <2>4. CASE c # d
    BY <1>2, <1>t, <2>1, <2>2, <2>4
  <2> QED
    BY <2>3, <2>4
<1>5. ASSUME NEW d \in Consumers, NEW v \in consumer[d].todo,
             Handle(d, v) \/ Bury(d, v) \/ Retry(d, v)
      PROVE  e \in consumer'[c].todo \/ Settled(e.job, ticks[nextTick])'
  <2>1. UNCHANGED <<lastTick, nextTick>> /\ consumer' = [consumer EXCEPT ![d].todo = @ \ {v}]
    BY <1>5 DEF Handle, Bury, Retry, Forget, cursor
  <2>2. /\ consumer'[c].batch = consumer[c].batch
        /\ \A w \in consumer[c].todo : w \in consumer'[c].todo \/ (c = d /\ w = v)
    BY <1>t, <2>1
  <2>3. nextTick # 0
    BY <2>1
  <2>4. Settled(v.job, ticks[nextTick])'
    <3>1. CASE Handle(d, v) \/ Bury(d, v)
      BY <3>1 DEF Handle, Bury, Settled
    <3>2. CASE Retry(d, v)
      BY <2>3, <3>2, RetryWaits DEF Settled
    <3> QED
      BY <1>5, <3>1, <3>2
  <2> QED
    BY <1>1, <2>1, <2>2, <2>4
<1>6. ASSUME NEW d \in Consumers, Ack(d) \/ Stop(d) \/ \E v \in consumer[d].todo : GiveUp(d, v)
      PROVE  e \in consumer'[c].todo \/ Settled(e.job, ticks[nextTick])'
  <2>1. consumer' = [consumer EXCEPT ![d] = Polling]
    BY <1>6 DEF Ack, Stop, GiveUp
  <2>2. c # d /\ consumer'[c] = consumer[c]
    BY <1>t, <2>1 DEF Polling
  <2>3. nextTick' # 0 => UNCHANGED <<lastTick, nextTick>>
    BY <1>6 DEF Ack, Stop, GiveUp, cursor
  <2> QED
    BY <1>2, <2>2, <2>3
<1>7. ASSUME NEW j \in Jobs, Sending(j)
      PROVE  e \in consumer'[c].todo \/ Settled(e.job, ticks[nextTick])'
  <2>1. UNCHANGED <<lastTick, nextTick, consumer>>
    BY <1>7 DEF Sending, Begin, Send, Commit, Abort, cursor
  <2> QED
    BY <1>2, <2>1
<1>8. CASE UNCHANGED <<lastTick, nextTick, consumer>>
  BY <1>2, <1>8
<1> QED
  BY <1>3, <1>4, <1>5, <1>6, <1>7, <1>8
     DEF Next, Consume, Deliver, Tick, Maintain, Take, Move, RotateStep1, RotateStep2, vars, cursor

(* A step that leaves the cursor where it is loses nothing; neither does    *)
(* one that moves it past a batch that is empty or whose events are settled.*)
LEMMA LossStep ==
  ASSUME CInv, HeldOK, NothingLost, [Next]_vars
  PROVE  NothingLost'
<1>t. /\ IInv /\ TypeOK /\ lastTick \in Nat /\ lastTick \in DOMAIN ticks /\ lastTick <= lastTick
  BY DEF CInv, IInv, TypeOK, CursorOK
<1> SUFFICES ASSUME NEW j \in Accepted'
             PROVE  Settled(j, ticks[lastTick])'
  BY DEF NothingLost
<1>1. CASE j \in Accepted /\ lastTick' = lastTick
  <2>1. Settled(j, ticks[lastTick])
    BY <1>1 DEF NothingLost
  <2>2. PICK n \in DOMAIN ticks : n = lastTick /\ lastTick <= n /\ Settled(j, ticks[n])
    BY <1>t, <2>1
  <2>3. Settled(j, ticks[n])'
    BY <1>t, <2>2, SettledStays
  <2> QED
    BY <1>1, <2>2, <2>3
(* The cursor moves to n.                                                   *)
<1>2. ASSUME j \in Accepted, NEW n \in DOMAIN ticks, lastTick' = n, lastTick <= n,
             UNCHANGED <<events, sender, ticks, handled, deadLetter, retryQueue>>,
             \A e \in Exact(ticks[lastTick], ticks[n]) : Settled(e.job, ticks[n])
      PROVE  Settled(j, ticks[lastTick])'
  <2>1. Settled(j, ticks[lastTick])
    BY <1>2 DEF NothingLost
  <2>2. Settled(j, ticks[n])
    BY <1>2, <2>1 DEF Settled, Ahead, Exact
  <2> QED
    BY <1>2, <2>2 DEF Settled, Ahead, Waiting, Open, Visible
<1>3. ASSUME NEW c \in Consumers, Receive(c)
      PROVE  Settled(j, ticks[lastTick])'
  <2>1. PICK n \in Later :
          LET rows == Rows(ticks[lastTick], ticks[n]) IN
            IF rows = {} THEN lastTick' = n ELSE UNCHANGED lastTick
    BY <1>3 DEF Receive
  <2>2. /\ n \in DOMAIN ticks /\ lastTick <= n
        /\ UNCHANGED <<events, sender, ticks, handled, deadLetter, retryQueue>>
    BY <1>t, <1>3 DEF Receive, Later, TypeOK, outcomes, retries
  <2>3. j \in Accepted
    BY <2>2 DEF Accepted
  <2>4. Rows(ticks[lastTick], ticks[n]) = Exact(ticks[lastTick], ticks[n])
    BY <1>t, <2>2, RowsAreExact
  <2> QED
    BY <1>1, <1>2, <2>1, <2>2, <2>3, <2>4
<1>4. ASSUME NEW c \in Consumers, Ack(c)
      PROVE  Settled(j, ticks[lastTick])'
  <2>1. /\ UNCHANGED <<events, sender, ticks, handled, deadLetter, retryQueue>>
        /\ consumer[c].batch # 0 /\ consumer[c].todo = {}
        /\ (consumer[c].batch = nextTick /\ lastTick' = nextTick) \/ lastTick' = lastTick
    BY <1>4 DEF Ack, outcomes, retries
  <2>2. j \in Accepted
    BY <2>1 DEF Accepted
  <2>3. CASE consumer[c].batch = nextTick /\ lastTick' = nextTick
    <3>1. nextTick \in DOMAIN ticks /\ lastTick <= nextTick
      BY <1>t, <2>1, <2>3 DEF IInv, CursorOK, TypeOK
    <3>2. \A e \in Exact(ticks[lastTick], ticks[nextTick]) : Settled(e.job, ticks[nextTick])
      BY <2>1, <2>3 DEF HeldOK
    <3> QED
      BY <1>2, <2>1, <2>2, <2>3, <3>1, <3>2
  <2> QED
    BY <1>1, <2>1, <2>2, <2>3
<1>5. ASSUME NEW k \in Jobs, Sending(k)
      PROVE  Settled(j, ticks[lastTick])'
  <2>1. UNCHANGED <<lastTick, ticks>>
    BY <1>5 DEF Sending, Begin, Send, Commit, Abort, cursor
  <2>2. CASE j \notin Accepted
    <3>1. Commit(k) /\ j = k
      BY <1>5, <1>t, <2>2 DEF Sending, Begin, Send, Commit, Abort, Accepted, NoTx, TypeOK
    <3>2. PICK e \in events : e.job = j /\ e.tx = sender[j].tx
      BY <3>1 DEF Commit, CInv, OriginOK
    <3>3. e.tx \in Open
      BY <3>1, <3>2 DEF Commit, IInv, IdsOK, Open, CInv
    <3>4. ~Visible(e.tx, ticks[lastTick])
      BY <1>t, <3>3 DEF IInv, TicksOK
    <3>5. e.tx \notin Open'
      <4>1. \A i \in Jobs : sender'[i].tx = IF i = j THEN 0 ELSE sender[i].tx
        BY <1>t, <3>1 DEF TypeOK, Commit, NoTx
      <4>2. \A i \in Jobs : i # j => sender[i].tx # e.tx
        BY <1>t, <3>1, <3>2, <3>3 DEF IInv, IdsOK, Open
      <4>3. e.tx # 0
        BY <3>3 DEF Open
      <4> QED
        BY <4>1, <4>2, <4>3 DEF Open
    <3>6. e \in events'
      BY <3>1 DEF Commit
    <3> QED
      BY <2>1, <3>2, <3>4, <3>5, <3>6 DEF Settled, Ahead, Visible
  <2> QED
    BY <1>1, <2>1, <2>2
<1>6. CASE UNCHANGED <<lastTick, sender>>
  BY <1>1, <1>6 DEF Accepted
<1>7. ASSUME NEW c \in Consumers, NEW v \in consumer[c].todo,
             Handle(c, v) \/ Bury(c, v) \/ Retry(c, v) \/ GiveUp(c, v)
      PROVE  Settled(j, ticks[lastTick])'
  BY <1>6, <1>7 DEF Handle, Bury, Retry, GiveUp, cursor
<1> QED
  BY <1>3, <1>4, <1>5, <1>6, <1>7
     DEF Next, Consume, Deliver, ReceiveAgain, Stop, Tick, Maintain, Take, Move, RotateStep1,
         RotateStep2, vars, cursor

(* As long as receive hands out whole batches, a job whose sender committed *)
(* is handled, dead, waiting or still ahead of the cursor.                  *)
THEOREM NothingIsLost == Spec /\ []Fits => []NothingLost
<1>1. Init => HeldOK /\ NothingLost
  BY DEF Init, HeldOK, NothingLost, Accepted, Polling, NoTx
<1>2. CInv /\ Fits /\ Fits' /\ HeldOK /\ NothingLost /\ [Next]_vars => HeldOK' /\ NothingLost'
  BY HeldStep, LossStep
<1> QED
  BY <1>1, <1>2, CopiesInvariance, PTL DEF Spec

(* A batch holds a job once, so that it fits whenever the jobs there are do. *)
LEMMA FewFit ==
  ASSUME IsFiniteSet(Jobs), Cardinality(Jobs) <= MaxReturn, CInv
  PROVE  Fits
<1> SUFFICES ASSUME nextTick # 0 PROVE Cardinality(BatchRows) <= MaxReturn
  BY DEF Fits
<1> DEFINE job == [e \in BatchRows |-> e.job]
<1>1. \A e \in BatchRows : e.job \in Jobs
  BY DEF CInv, IInv, TypeOK, Events, BatchRows, Rows
<1>2. job \in Injection(BatchRows, Jobs)
  BY <1>1, OneOfEach DEF Injection, IsInjective
<1>3. IsFiniteSet(BatchRows) /\ Cardinality(BatchRows) <= Cardinality(Jobs)
  BY <1>2, FS_Injection
<1> QED
  BY <1>3, FS_CardinalityType, QueueAssumption

(* With no more jobs than one receive returns, no committed job vanishes,   *)
(* whatever the senders, consumers, ticks and rotations do.                 *)
THEOREM FewAreNeverLost ==
  ASSUME IsFiniteSet(Jobs), Cardinality(Jobs) <= MaxReturn
  PROVE  Spec => []NothingLost
<1>1. CInv => Fits
  BY FewFit
<1> QED
  BY <1>1, CopiesInvariance, NothingIsLost, PTL
=============================================================================
