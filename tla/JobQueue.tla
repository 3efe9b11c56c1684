------------------------------ MODULE JobQueue ------------------------------
(***************************************************************************)
(* The job queue as dockzilla runs it: PgQue's event tables, ticks,        *)
(* batches, retry queue and table rotation (pgque.sql), a job sent on its  *)
(* sender's transaction (jobs.UseCase.Enqueue, pgqueue.Send), and consumer *)
(* processes that share one consumer name (pgqueue.Consume, Jobs.Consume). *)
(*                                                                         *)
(* Transactions that write no event are left out of the numbering of       *)
(* transaction ids.  A batch is named by the tick that closes it.          *)
(***************************************************************************)
EXTENDS Naturals, FiniteSets

CONSTANTS
  Jobs,          \* jobs somebody may send
  Malformed,     \* those whose payload decode or the typed handler rejects
  Consumers,     \* processes that consume the queue
  MaxRetries,    \* queue_max_retries
  MaxReturn,     \* the most messages one receive returns
  NTables,       \* event tables per queue
  Nearby,        \* how far batch_event_sql stretches its range of ids
  Maintained,    \* whether anybody runs PgQue's maintenance
  Budgets        \* BOUND: how many rotations begin and how many consumer
                 \* processes end within a batch, the pairs to check

ASSUME QueueAssumption ==
  /\ Malformed \subseteq Jobs
  /\ MaxRetries \in Nat /\ MaxReturn \in Nat \ {0} /\ Nearby \in Nat
  /\ NTables \in Nat \ {0, 1}
  /\ Maintained \in BOOLEAN
  /\ Budgets \subseteq [rotations : Nat, stops : Nat]

VARIABLES
  next,          \* the transaction id to be assigned next
  horizon,       \* one more than the highest id of a transaction that ended
  sender,        \* sender[j]: the transaction that sends j
  events,        \* rows of the event tables
  cur,           \* queue_cur_table
  step1, step2,  \* queue_switch_step1, queue_switch_step2 (0: null)
  ticks,         \* tick id -> tick_snapshot
  newest,        \* the tick sequence
  lastTick,      \* sub_last_tick
  nextTick,      \* sub_next_tick of the active batch (0: none)
  retryQueue,    \* retry_queue
  mover,         \* maint_retry_events: the rows it moves and the table it read
  deadLetter,    \* jobs in dead_letter
  handled,       \* jobs some handler returned nil for
  consumer,      \* consumer[c]: its batch and the messages left of it
  rotations,     \* those of the budget still to come
  stops          \* likewise

ids == <<next, horizon>>
rotation == <<cur, step1, step2, rotations>>
cursor == <<ticks, newest, lastTick, nextTick>>
retries == <<retryQueue, mover>>
outcomes == <<deadLetter, handled>>
vars == <<ids, sender, events, rotation, cursor, retries, outcomes, consumer, stops>>

Tables == 0 .. NTables - 1
Events == [job : Jobs, tx : Nat, retry : Nat, table : Tables]
Snapshots == [xmax : Nat, xip : SUBSET Nat]

NoTx(state) == [state |-> state, tx |-> 0]
Polling == [batch |-> 0, todo |-> {}]
Resting == [due |-> {}, dest |-> 0]

(* create_queue in transaction 1, which also issues the first tick, and     *)
(* register_consumer at that tick.                                          *)
Init ==
  /\ next = 2 /\ horizon = 2
  /\ sender = [j \in Jobs |-> NoTx("idle")]
  /\ events = {}
  /\ cur = 0 /\ step1 = 1 /\ step2 = 1
  /\ ticks = [n \in {1} |-> [xmax |-> 1, xip |-> {}]]
  /\ newest = 1 /\ lastTick = 1 /\ nextTick = 0
  /\ retryQueue = {} /\ mover = Resting /\ deadLetter = {} /\ handled = {}
  /\ consumer = [c \in Consumers |-> Polling]
  /\ \E b \in Budgets : rotations = b.rotations /\ stops = b.stops

-----------------------------------------------------------------------------
(* Transactions and snapshots.                                              *)
Open == {sender[j].tx : j \in Jobs} \ {0}
Accepted == {j \in Jobs : sender[j].state = "committed"}

CurrentSnapshot == [xmax |-> horizon, xip |-> {x \in Open : x < horizon}]

(* pg_visible_in_snapshot                                                   *)
Visible(x, s) == x < s.xmax /\ x \notin s.xip

(* pg_snapshot_xmin(s) > x                                                  *)
Above(s, x) == s.xmax > x /\ \A y \in s.xip : y > x

Ended(x) == horizon' = IF x < horizon THEN horizon ELSE x + 1

(* A transaction of its own, for a statement that is not a sender's.        *)
Alone == next' = next + 1 /\ horizon' = next + 1

-----------------------------------------------------------------------------
(* Sending.                                                                 *)

(* The sender's transaction gets its id with its first write, the domain    *)
(* row.                                                                     *)
Begin(j) ==
  /\ sender[j].state = "idle"
  /\ sender' = [sender EXCEPT ![j] = [state |-> "open", tx |-> next]]
  /\ next' = next + 1
  /\ UNCHANGED <<horizon, events, rotation, cursor, retries, outcomes, consumer, stops>>

(* Mutant: the event is sent on a connection of its own.                    *)
SendOnPool(j) ==
  /\ sender[j].state = "open"
  /\ events' = events \cup {[job |-> j, tx |-> next, retry |-> 0, table |-> cur]}
  /\ sender' = [sender EXCEPT ![j].state = "sent"]
  /\ Alone
  /\ UNCHANGED <<rotation, cursor, retries, outcomes, consumer, stops>>

(* The event joins the sender's transaction.                                *)
Send(j) ==
  /\ sender[j].state = "open"
  /\ events' = events \cup {[job |-> j, tx |-> sender[j].tx, retry |-> 0, table |-> cur]}
  /\ sender' = [sender EXCEPT ![j].state = "sent"]
  /\ UNCHANGED <<ids, rotation, cursor, retries, outcomes, consumer, stops>>

Commit(j) ==
  /\ sender[j].state = "sent"
  /\ sender' = [sender EXCEPT ![j] = NoTx("committed")]
  /\ Ended(sender[j].tx)
  /\ UNCHANGED <<next, events, rotation, cursor, retries, outcomes, consumer, stops>>

Abort(j) ==
  /\ sender[j].state \in {"open", "sent"}
  /\ sender' = [sender EXCEPT ![j] = NoTx("aborted")]
  /\ events' = {e \in events : e.tx # sender[j].tx}
  /\ Ended(sender[j].tx)
  /\ UNCHANGED <<next, rotation, cursor, retries, outcomes, consumer, stops>>

-----------------------------------------------------------------------------
(* Ticks and batches.                                                       *)

(* Mutant: a snapshot that forgets the transactions in progress.            *)
TickBlind ==
  /\ ticks[newest] # CurrentSnapshot
  /\ newest' = newest + 1
  /\ ticks' = [n \in DOMAIN ticks \cup {newest + 1} |->
                 IF n = newest + 1 THEN [xmax |-> horizon, xip |-> {}] ELSE ticks[n]]
  /\ UNCHANGED <<ids, sender, events, rotation, lastTick, nextTick, retries, outcomes, consumer, stops>>

(* RunTicker.  ONE TICKER: the function takes no lock and draws the tick's  *)
(* number and its snapshot one after the other, so that two processes that  *)
(* run it may number ticks in another order than their snapshots; here one  *)
(* process does.  BOUND: a tick that would see what the newest one sees     *)
(* cuts an empty batch and is left out.                                     *)
Tick ==
  /\ ticks[newest] # CurrentSnapshot
  /\ newest' = newest + 1
  /\ ticks' = [n \in DOMAIN ticks \cup {newest + 1} |->
                 IF n = newest + 1 THEN CurrentSnapshot ELSE ticks[n]]
  /\ UNCHANGED <<ids, sender, events, rotation, lastTick, nextTick, retries, outcomes, consumer, stops>>

(* The transactions in progress at the last tick that had ended by the next *)
(* one, and those of them the range of ids is stretched to: each is within  *)
(* Nearby of the one above it.                                              *)
Older(last, this) == last.xip \ this.xip
InReach(last, this, x) ==
  \A y \in Older(last, this) : y >= x =>
    \E z \in Older(last, this) \cup {last.xmax} : y < z /\ z <= y + Nearby

(* Mutant: the stretched range is not tested against the last snapshot.     *)
RangeUntested(last, this, x) ==
  /\ x <= this.xmax
  /\ \/ x >= last.xmax
     \/ \E y \in Older(last, this) : InReach(last, this, y) /\ y <= x
  /\ Visible(x, this)

(* The ids batch_event_sql selects: a range tested against both snapshots,  *)
(* and, by "union all", a list.                                             *)
InRange(last, this, x) ==
  /\ x <= this.xmax
  /\ \/ x >= last.xmax
     \/ \E y \in Older(last, this) : InReach(last, this, y) /\ y <= x
  /\ Visible(x, this) /\ ~Visible(x, last)

(* Mutant: what the range was stretched to is in the list as well.          *)
ListWhole(last, this, x) == x \in Older(last, this)

InList(last, this, x) == x \in Older(last, this) /\ ~InReach(last, this, x)

Selected(last, this, x) == InRange(last, this, x) \/ InList(last, this, x)

Previous == IF cur = 0 THEN NTables - 1 ELSE cur - 1

(* batch_event_tables                                                       *)
TablesOf(last, this) ==
  IF this.xmax < step1 THEN {Previous}
  ELSE IF step2 # 0 /\ Above(last, step2) THEN {cur} ELSE {Previous, cur}

(* get_batch_events, for the subscription's ticks.                          *)
Rows(last, this) ==
  {e \in events : /\ e.tx \notin Open
                  /\ e.table \in TablesOf(last, this)
                  /\ Selected(last, this, e.tx)}

BatchRows == Rows(ticks[lastTick], ticks[nextTick])

-----------------------------------------------------------------------------
(* Consuming.                                                               *)

(* receive stops at MaxReturn rows.                                         *)
Handed(rows) ==
  IF Cardinality(rows) <= MaxReturn THEN {rows}
  ELSE {some \in SUBSET rows : Cardinality(some) = MaxReturn}

Later == {n \in DOMAIN ticks : n > lastTick}

(* receive, when a batch is active: it is handed out again, to whichever    *)
(* process asks.                                                            *)
ReceiveAgain(c) ==
  /\ consumer[c] = Polling /\ nextTick # 0
  /\ \E some \in Handed(BatchRows) :
       consumer' = [consumer EXCEPT ![c] = [batch |-> nextTick, todo |-> some]]
  /\ UNCHANGED <<ids, sender, events, rotation, cursor, retries, outcomes, stops>>

(* receive, when there is none: the batch to the following tick becomes     *)
(* active, and an empty one is finished at once.                            *)
Receive(c) ==
  /\ consumer[c] = Polling /\ nextTick = 0
  /\ \E n \in Later :
       /\ \A m \in Later : n <= m
       /\ LET rows == Rows(ticks[lastTick], ticks[n]) IN
            IF rows = {}
            THEN lastTick' = n /\ UNCHANGED <<nextTick, consumer>>
            ELSE /\ nextTick' = n /\ UNCHANGED lastTick
                 /\ \E some \in Handed(rows) :
                      consumer' = [consumer EXCEPT ![c] = [batch |-> n, todo |-> some]]
  /\ UNCHANGED <<ids, sender, events, rotation, ticks, newest, retries, outcomes, stops>>

(* What delivering a job can come to: decode refuses a malformed payload    *)
(* with a Terminal error, a handler may fail.                               *)
Outcome(j) == IF j \in Malformed THEN {"terminal"} ELSE {"ok", "failed"}

Forget(c, v) == consumer' = [consumer EXCEPT ![c].todo = @ \ {v}]

(* The handler returned nil.                                                *)
Handle(c, v) ==
  /\ v \in consumer[c].todo /\ "ok" \in Outcome(v.job)
  /\ handled' = handled \cup {v.job}
  /\ Forget(c, v)
  /\ UNCHANGED <<ids, sender, events, rotation, cursor, retries, deadLetter, stops>>

(* Mutant: nack takes any row of the job, whatever batch it was in.         *)
CopiesAnywhere(c, v) == {e \in events : e.tx \notin Open /\ e.job = v.job}

(* The handler or decode returned an error, Terminal or not: the client     *)
(* calls nack, which looks the message up in its batch again.               *)
Copies(c, v) ==
  {e \in events : consumer[c].batch = nextTick /\ e \in BatchRows /\ e.job = v.job}

Nackable(c, v) ==
  v \in consumer[c].todo /\ Outcome(v.job) # {"ok"}

Bury(c, v) ==
  /\ Nackable(c, v)
  /\ \E e \in Copies(c, v) : e.retry >= MaxRetries
  /\ deadLetter' = deadLetter \cup {v.job}
  /\ Forget(c, v)
  /\ UNCHANGED <<ids, sender, events, rotation, cursor, retries, handled, stops>>

(* event_retry inserts one row per copy in the batch; that a key is already *)
(* there makes it insert nothing and report success.                        *)
Conflict(c, v) == (\E r \in retryQueue : r.job = v.job) \/ Cardinality(Copies(c, v)) > 1

(* Mutant: a retry is due again, whatever became of it before.              *)
RetryForgotten(c, v) ==
  /\ Nackable(c, v)
  /\ \E e \in Copies(c, v) :
       /\ e.retry < MaxRetries
       /\ retryQueue' = retryQueue
  /\ Forget(c, v)
  /\ UNCHANGED <<ids, sender, events, rotation, cursor, mover, outcomes, stops>>

Retry(c, v) ==
  /\ Nackable(c, v)
  /\ \E e \in Copies(c, v) :
       /\ e.retry < MaxRetries
       /\ retryQueue' = IF Conflict(c, v) THEN retryQueue
                        ELSE retryQueue \cup {[job |-> v.job, retry |-> e.retry + 1]}
  /\ Forget(c, v)
  /\ UNCHANGED <<ids, sender, events, rotation, cursor, mover, outcomes, stops>>

(* nack finds no such batch or message: the client drops the batch unacked. *)
GiveUp(c, v) ==
  /\ Nackable(c, v) /\ Copies(c, v) = {}
  /\ consumer' = [consumer EXCEPT ![c] = Polling]
  /\ UNCHANGED <<ids, sender, events, rotation, cursor, retries, outcomes, stops>>

(* Mutant: the batch is finished as soon as it has been handed out.         *)
AckFirst(c) ==
  /\ consumer[c].batch # 0
  /\ IF consumer[c].batch = nextTick
     THEN lastTick' = nextTick /\ nextTick' = 0
     ELSE UNCHANGED <<lastTick, nextTick>>
  /\ consumer' = [consumer EXCEPT ![c] = Polling]
  /\ UNCHANGED <<ids, sender, events, rotation, ticks, newest, retries, outcomes, stops>>

(* finish_batch; a batch somebody else finished only draws a warning.       *)
Ack(c) ==
  /\ consumer[c].batch # 0 /\ consumer[c].todo = {}
  /\ IF consumer[c].batch = nextTick
     THEN lastTick' = nextTick /\ nextTick' = 0
     ELSE UNCHANGED <<lastTick, nextTick>>
  /\ consumer' = [consumer EXCEPT ![c] = Polling]
  /\ UNCHANGED <<ids, sender, events, rotation, ticks, newest, retries, outcomes, stops>>

(* Mutant: a process that ends acknowledges what it was handed.             *)
StopAcks(c) ==
  /\ stops > 0 /\ consumer[c].batch # 0
  /\ stops' = stops - 1
  /\ IF consumer[c].batch = nextTick
     THEN lastTick' = nextTick /\ nextTick' = 0
     ELSE UNCHANGED <<lastTick, nextTick>>
  /\ consumer' = [consumer EXCEPT ![c] = Polling]
  /\ UNCHANGED <<ids, sender, events, rotation, ticks, newest, retries, outcomes>>

(* The process ends, or its context is cancelled, within a batch.           *)
Stop(c) ==
  /\ stops > 0 /\ consumer[c].batch # 0
  /\ stops' = stops - 1
  /\ consumer' = [consumer EXCEPT ![c] = Polling]
  /\ UNCHANGED <<ids, sender, events, rotation, cursor, retries, outcomes>>

-----------------------------------------------------------------------------
(* Maintenance.                                                             *)

(* TIMING: a nacked job waits 60 seconds and the ticker ticks at least      *)
(* every 3 when there are events, so that a copy that was moved back to the *)
(* event table is behind a tick before the job is moved again.  The code    *)
(* does not look: with the ticker down for a minute while maintenance runs, *)
(* two copies of a job could meet in one batch.                             *)
TickedSince(j) == \A e \in events : e.job = j => Visible(e.tx, ticks[newest])

(* maint_retry_events takes some of those that are due; insert_event_raw    *)
(* reads the number of the current table ...                                *)
Take(due) ==
  /\ Maintained /\ mover = Resting /\ due # {}
  /\ \A r \in due : TickedSince(r.job)
  /\ mover' = [due |-> due, dest |-> cur]
  /\ UNCHANGED <<ids, sender, events, rotation, cursor, retryQueue, outcomes, consumer, stops>>

(* ... and inserts into that table; only then has the transaction an id.    *)
Move ==
  /\ mover.due # {}
  /\ events' = events \cup
       {[job |-> r.job, tx |-> next, retry |-> r.retry, table |-> mover.dest] : r \in mover.due}
  /\ retryQueue' = retryQueue \ mover.due
  /\ mover' = Resting
  /\ Alone
  /\ UNCHANGED <<sender, rotation, cursor, outcomes, consumer, stops>>

(* Mutant: the tables are not taken in turn.                                *)
FollowingUnwrapped == cur + 1

Following == IF cur = NTables - 1 THEN 0 ELSE cur + 1

(* Mutant: nobody asks where the consumer is.                               *)
RotateBlindly ==
  /\ Maintained /\ rotations > 0
  /\ step2 # 0
  /\ \A e \in events : e.tx \in Open => e.table # Following
  /\ rotations' = rotations - 1
  /\ events' = {e \in events : e.table # Following}
  /\ cur' = Following /\ step1' = next /\ step2' = 0
  /\ ticks' = [n \in {m \in DOMAIN ticks : Above(ticks[m], step2 - 1)} |-> ticks[n]]
  /\ Alone
  /\ UNCHANGED <<sender, newest, lastTick, nextTick, retries, outcomes, consumer, stops>>

(* maint_rotate_tables_step1: truncates the following table, unless the     *)
(* consumer may need it or a sender holds it, and old ticks with it.        *)
RotateStep1 ==
  /\ Maintained /\ rotations > 0
  /\ step2 # 0 /\ Above(ticks[lastTick], step2)
  /\ \A e \in events : e.tx \in Open => e.table # Following
  /\ rotations' = rotations - 1
  /\ events' = {e \in events : e.table # Following}
  /\ cur' = Following /\ step1' = next /\ step2' = 0
  /\ ticks' = [n \in {m \in DOMAIN ticks : Above(ticks[m], step2 - 1)} |-> ticks[n]]
  /\ Alone
  /\ UNCHANGED <<sender, newest, lastTick, nextTick, retries, outcomes, consumer, stops>>

(* maint_rotate_tables_step2, in a transaction of its own.                  *)
(* TIMING: it runs seconds later, when whoever has read the number of the   *)
(* table before the switch has written to it; the code does not look, and a *)
(* row written later than that would be truncated with its table.           *)
RotateStep2 ==
  /\ Maintained /\ step2 = 0 /\ mover = Resting
  /\ step2' = next
  /\ Alone
  /\ UNCHANGED <<sender, events, cur, step1, rotations, cursor, retries, outcomes, consumer, stops>>

-----------------------------------------------------------------------------
Deliver(c) ==
  \/ \E v \in consumer[c].todo : Handle(c, v) \/ Bury(c, v) \/ Retry(c, v) \/ GiveUp(c, v)
  \/ Ack(c)

Consume(c) == Receive(c) \/ ReceiveAgain(c) \/ Deliver(c)

Maintain ==
  \/ \E due \in SUBSET retryQueue : Take(due)
  \/ Move \/ RotateStep1 \/ RotateStep2

Sending(j) == Begin(j) \/ Send(j) \/ Commit(j) \/ Abort(j)

Next ==
  \/ \E j \in Jobs : Sending(j)
  \/ Tick
  \/ \E c \in Consumers : Consume(c) \/ Stop(c)
  \/ Maintain

Spec == Init /\ [][Next]_vars

-----------------------------------------------------------------------------
TypeOK ==
  /\ next \in Nat /\ horizon \in Nat
  /\ sender \in [Jobs -> [state : {"idle", "open", "sent", "committed", "aborted"}, tx : Nat]]
  /\ events \subseteq Events
  /\ cur \in Tables /\ step1 \in Nat /\ step2 \in Nat /\ rotations \in Nat
  /\ DOMAIN ticks \subseteq Nat \ {0} /\ \A n \in DOMAIN ticks : ticks[n] \in Snapshots
  /\ newest \in Nat /\ lastTick \in Nat /\ nextTick \in Nat
  /\ retryQueue \subseteq [job : Jobs, retry : Nat]
  /\ mover \in [due : SUBSET retryQueue, dest : Tables]
  /\ deadLetter \subseteq Jobs /\ handled \subseteq Jobs
  /\ consumer \in [Consumers -> [batch : Nat, todo : SUBSET Events]]
  /\ stops \in Nat

(* What a batch ought to hold: the committed events the following tick sees *)
(* and the last one did not.                                                *)
Exact(last, this) ==
  {e \in events : e.tx \notin Open /\ ~Visible(e.tx, last) /\ Visible(e.tx, this)}

(* batch_event_sql, with its range, its list and its choice of tables,      *)
(* finds exactly the events between the two ticks and none of them twice,   *)
(* whatever transactions were open at either and however often the tables   *)
(* were switched since.  Rests on ticks numbered in the order of their      *)
(* snapshots (Tick).                                                        *)
BatchesAreExact ==
  nextTick # 0 =>
    LET last == ticks[lastTick]
        this == ticks[nextTick] IN
    /\ BatchRows = Exact(last, this)
    /\ \A e \in BatchRows : ~(InRange(last, this, e.tx) /\ InList(last, this, e.tx))

(* The ticks the subscription names are there: receive never reports        *)
(* "PgQ corruption", although rotation deletes ticks (next_batch_custom).   *)
CursorKept == {lastTick, nextTick} \ {0} \subseteq DOMAIN ticks

(* An event the cursor has not passed; the job is on its way to a consumer. *)
Ahead(j, s) == \E e \in events : e.job = j /\ e.tx \notin Open /\ ~Visible(e.tx, s)
Waiting(j) == \E r \in retryQueue : r.job = j
Settled(j, s) == j \in handled \/ j \in deadLetter \/ Waiting(j) \/ Ahead(j, s)

(* A job whose sender committed is handled, dead or still to be delivered:  *)
(* no stop, retry, second consumer or rotation makes it vanish.             *)
NothingLost == \A j \in Accepted : Settled(j, ticks[lastTick])

(* A handler only ever sees jobs whose sender committed.                    *)
OnlyCommitted == \A c \in Consumers : \A v \in consumer[c].todo : v.job \in Accepted

(* Jobs a consumer was given: run, buried, nacked, moved back after a nack, *)
(* or in the hands of a process that is not done with its batch.            *)
HandedOut ==
  handled \cup deadLetter \cup {r.job : r \in retryQueue}
    \cup {e.job : e \in {f \in events : f.retry # 0}}
    \cup {v.job : v \in UNION {consumer[c].todo : c \in Consumers}}

(* No batch holds the first copy of a job that an earlier batch handed out: *)
(* only a nack or an unfinished batch makes a job run twice.  Rests on      *)
(* ticks numbered in the order of their snapshots (Tick).                   *)
NoReplay ==
  [][nextTick = 0 /\ nextTick' # 0 =>
       \A e \in BatchRows' : e.retry = 0 => e.job \notin HandedOut]_vars

(* What the queue still has to deliver of what it accepted.                 *)
Owed == {j \in Accepted : Waiting(j) \/ Ahead(j, ticks[lastTick])}

(* The queue implements at-least-once delivery: whatever is retried,        *)
(* redelivered, rotated or stopped, a job is settled only when it was run   *)
(* or is dead, no settled job is ever handed out, retried or buried again,  *)
(* and a consumer that is late with a batch changes nothing that others     *)
(* settled (receive, nack, finish_batch).                                   *)
Promise == INSTANCE AtLeastOnce
             WITH accepted <- Accepted, owed <- Owed, dead <- deadLetter,
                  handed <- [c \in Consumers |-> {v.job : v \in consumer[c].todo}]

PromiseKept == Promise!Spec

(* domain/jobs.go:125-127: "a Terminal error dead-letters it immediately".  *)
TerminalDeadLetters == \A r \in retryQueue : r.job \notin Malformed
=============================================================================
