-------------------------- MODULE JobPromiseProofs --------------------------
(***************************************************************************)
(* JobQueue implements AtLeastOnce, for any jobs, consumers, retries,      *)
(* tables and rotations.                                                   *)
(***************************************************************************)
EXTENDS JobQueueProofs

(* Who has messages has a batch, and one copy of a job.                     *)
HandsOK ==
  \A c \in Consumers :
    /\ consumer[c].batch = 0 => consumer[c].todo = {}
    /\ \A v, w \in consumer[c].todo : v.job = w.job => v = w

LEMMA HandsStep ==
  ASSUME CInv, HandsOK, [Next]_vars
  PROVE  HandsOK'
<1>t. /\ consumer \in [Consumers -> [batch : Nat, todo : SUBSET Events]]
      /\ lastTick \in Nat /\ nextTick \in Nat
      /\ IInv /\ \A n \in DOMAIN ticks : n \in Nat \ {0}
  BY DEF CInv, IInv, TypeOK
<1>1. CASE UNCHANGED consumer
  BY <1>1 DEF HandsOK
<1>2. ASSUME NEW c \in Consumers, NEW n \in DOMAIN ticks, n # 0,
             NEW some, \A v, w \in some : v.job = w.job => v = w,
             consumer' = [consumer EXCEPT ![c] = [batch |-> n, todo |-> some]]
      PROVE  HandsOK'
  BY <1>t, <1>2 DEF HandsOK
<1>3. ASSUME NEW c \in Consumers, NEW new, new.todo \subseteq consumer[c].todo,
             new.batch = consumer[c].batch \/ new.todo = {},
             consumer' = [consumer EXCEPT ![c] = new]
      PROVE  HandsOK'
  BY <1>t, <1>3 DEF HandsOK
<1>4. ASSUME NEW c \in Consumers, Receive(c)
      PROVE  HandsOK'
  <2>1. PICK n \in Later :
          /\ \A m \in Later : n <= m
          /\ \/ UNCHANGED consumer
             \/ \E some \in Handed(Rows(ticks[lastTick], ticks[n])) :
                  consumer' = [consumer EXCEPT ![c] = [batch |-> n, todo |-> some]]
    BY <1>4 DEF Receive
  <2>2. /\ n \in DOMAIN ticks /\ n # 0 /\ lastTick < n
        /\ \A m \in DOMAIN ticks : m <= lastTick \/ n <= m
    BY <1>t, <2>1 DEF Later
  <2>3. \A e, f \in Rows(ticks[lastTick], ticks[n]) : e.job = f.job => e = f
    BY <2>2, OneUpTo
  <2>4. ASSUME NEW some \in Handed(Rows(ticks[lastTick], ticks[n]))
        PROVE  \A v, w \in some : v.job = w.job => v = w
    BY <2>3, <2>4, HandedIsPart
  <2> QED
    BY <1>1, <1>2, <2>1, <2>2, <2>4
<1>5. ASSUME NEW c \in Consumers, ReceiveAgain(c)
      PROVE  HandsOK'
  <2>1. nextTick \in DOMAIN ticks /\ nextTick # 0
    BY <1>5 DEF ReceiveAgain, CInv, IInv, CursorOK
  <2>2. \A e, f \in BatchRows : e.job = f.job => e = f
    BY <2>1, OneOfEach
  <2>3. PICK some \in Handed(BatchRows) :
          consumer' = [consumer EXCEPT ![c] = [batch |-> nextTick, todo |-> some]]
    BY <1>5 DEF ReceiveAgain
  <2>4. \A v, w \in some : v.job = w.job => v = w
    BY <2>2, <2>3, HandedIsPart
  <2> QED
    BY <1>2, <2>1, <2>3, <2>4
<1>6. ASSUME NEW c \in Consumers, NEW v \in consumer[c].todo,
             Handle(c, v) \/ Bury(c, v) \/ Retry(c, v)
      PROVE  HandsOK'
  <2>1. consumer' = [consumer EXCEPT ![c] = [consumer[c] EXCEPT !.todo = @ \ {v}]]
    BY <1>t, <1>6 DEF Handle, Bury, Retry, Forget
  <2> QED
    BY <1>t, <1>3, <2>1
<1>7. ASSUME NEW c \in Consumers,
             Ack(c) \/ Stop(c) \/ \E v \in consumer[c].todo : GiveUp(c, v)
      PROVE  HandsOK'
  <2>1. consumer' = [consumer EXCEPT ![c] = Polling]
    BY <1>7 DEF Ack, Stop, GiveUp
  <2> QED
    BY <1>3, <2>1 DEF Polling
<1>8. ASSUME NEW j \in Jobs, Sending(j)
      PROVE  HandsOK'
  BY <1>1, <1>8 DEF Sending, Begin, Send, Commit, Abort
<1> QED
  BY <1>1, <1>4, <1>5, <1>6, <1>7, <1>8
     DEF Next, Consume, Deliver, Tick, Maintain, Take, Move, RotateStep1, RotateStep2, vars

-----------------------------------------------------------------------------
(* What is owed.                                                            *)

(* A row of a job that was accepted is no longer its sender's.              *)
LEMMA AcceptedEnded ==
  ASSUME CInv, NEW e \in events
  PROVE  e.tx \notin Open <=> e.job \in Accepted
<1>1. e.job \in Jobs /\ e.tx # 0
  BY DEF CInv, IInv, TypeOK, Events, EventsOK
<1>2. e.tx \notin Open => e.job \in Accepted
  BY <1>1 DEF CInv, IInv, EventsOK, Open, Accepted
<1>3. e.tx \in Open => e.job \notin Accepted
  BY <1>1 DEF CInv, IInv, IdsOK, OriginOK, Accepted
<1> QED
  BY <1>2, <1>3

(* What is in a batch to come is owed.                                      *)
LEMMA RowsAreOwed ==
  ASSUME CInv, NEW n \in DOMAIN ticks, lastTick <= n, NEW e \in Rows(ticks[lastTick], ticks[n])
  PROVE  e.job \in Owed
<1>1. e \in events /\ e.tx \notin Open /\ ~Visible(e.tx, ticks[lastTick])
  BY RowsAreExact DEF CInv, Exact
<1> QED
  BY <1>1, AcceptedEnded DEF Owed, Ahead

LEMMA CopiesAreOwed ==
  ASSUME CInv, HandsOK, NEW c \in Consumers, NEW v \in consumer[c].todo, Copies(c, v) # {}
  PROVE  v.job \in Owed
<1>1. PICK e \in BatchRows : e.job = v.job /\ consumer[c].batch = nextTick
  BY DEF Copies
<1>2. nextTick # 0
  BY <1>1 DEF HandsOK
<1>3. nextTick \in DOMAIN ticks /\ lastTick <= nextTick
  BY <1>2 DEF CInv, IInv, CursorOK, TypeOK
<1> QED
  BY <1>1, <1>3, RowsAreOwed DEF BatchRows

(* Unless the cursor moves, what is owed stays owed.                        *)
LEMMA OwedStays ==
  ASSUME CInv, [Next]_vars, UNCHANGED lastTick
  PROVE  Owed \subseteq Owed'
<1>1. lastTick \in DOMAIN ticks /\ lastTick <= lastTick
  BY DEF CInv, IInv, CursorOK, TypeOK
<1>2. ticks'[lastTick'] = ticks[lastTick]
  BY <1>1, TicksStay DEF CInv
<1>3. Accepted \subseteq Accepted'
  BY AcceptedGrows DEF CInv, IInv
<1>4. \A j : Waiting(j) \/ Ahead(j, ticks[lastTick])
               => Waiting(j)' \/ Ahead(j, ticks[lastTick])'
  BY <1>1, DueStays DEF CInv
<1> QED
  BY <1>2, <1>3, <1>4 DEF Owed, Ahead, Visible

(* No step makes owed again what no longer was: an event that appears is a  *)
(* sender's or was waiting, a job that starts to wait has an event.         *)
LEMMA NothingNewOwed ==
  ASSUME CInv, HandsOK, [Next]_vars
  PROVE  Owed' \cap Accepted \subseteq Owed
<1>t. /\ lastTick \in DOMAIN ticks /\ lastTick \in Nat /\ IInv
  BY DEF CInv, IInv, CursorOK, TypeOK
<1> SUFFICES ASSUME NEW j \in Accepted, Waiting(j)' \/ Ahead(j, ticks[lastTick])'
             PROVE  Waiting(j) \/ Ahead(j, ticks[lastTick])
  BY DEF Owed
<1>1. ASSUME NEW r \in retryQueue', r.job = j
      PROVE  Waiting(j) \/ Ahead(j, ticks[lastTick])
  <2>1. CASE r \in retryQueue
    BY <1>1, <2>1 DEF Waiting
  <2>2. ASSUME NEW c \in Consumers, NEW v \in consumer[c].todo, Retry(c, v), r \notin retryQueue
        PROVE  Waiting(j) \/ Ahead(j, ticks[lastTick])
    <3>1. Copies(c, v) # {} /\ r.job = v.job
      BY <1>1, <2>2 DEF Retry
    <3> QED
      BY <1>1, <3>1, CopiesAreOwed DEF Owed
  <2>3. ASSUME NEW k \in Jobs, Sending(k)
        PROVE  UNCHANGED retryQueue
    BY <2>3 DEF Sending, Begin, Send, Commit, Abort, retries
  <2>4. retryQueue' \subseteq retryQueue
        \/ \E c \in Consumers : \E v \in consumer[c].todo : Retry(c, v)
    BY <2>3 DEF Next, Consume, Deliver, Receive, ReceiveAgain, Handle, Bury, GiveUp, Ack, Stop,
       Tick, Maintain, Take, Move, RotateStep1, RotateStep2, vars, retries
  <2> QED
    BY <2>1, <2>2, <2>4
<1>2. ASSUME NEW e \in events', e.job = j, e.tx \notin Open', ~Visible(e.tx, ticks[lastTick])',
             e \in events
      PROVE  Ahead(j, ticks[lastTick])
  <2>1. e.tx \notin Open
    BY <1>2, AcceptedEnded
  <2>2. ~Visible(e.tx, ticks[lastTick])
    <3>1. CASE lastTick' = lastTick
      <4>1. ticks'[lastTick'] = ticks[lastTick]
        BY <1>t, <3>1, TicksStay
      <4> QED
        BY <1>2, <4>1 DEF Visible
    <3>2. ASSUME NEW c \in Consumers, Consume(c) \/ Stop(c)
          PROVE  ~Visible(e.tx, ticks[lastTick])
      <4>1. ticks' = ticks
        BY <3>2, ConsumerFrame
      <4>2. Visible(e.tx, ticks[lastTick]) => Visible(e.tx, ticks[lastTick'])
        BY <1>2, <1>t, <3>2, CursorAdvances DEF IInv
      <4> QED
        BY <1>2, <4>1, <4>2 DEF Visible
    <3>3. ASSUME NEW k \in Jobs, Sending(k)
          PROVE  lastTick' = lastTick
      BY <3>3 DEF Sending, Begin, Send, Commit, Abort, cursor
    <3> QED
      BY <3>1, <3>2, <3>3
         DEF Next, Tick, Maintain, Take, Move, RotateStep1, RotateStep2, vars, cursor
  <2> QED
    BY <1>2, <2>1, <2>2 DEF Ahead
<1>3. ASSUME NEW e \in events', e.job = j, e \notin events
      PROVE  Waiting(j)
  <2>1. ASSUME NEW k \in Jobs, Sending(k)
        PROVE  FALSE
    BY <1>3, <2>1 DEF Sending, Begin, Send, Commit, Abort, Accepted
  <2>2. CASE Move
    <3>1. PICK r \in mover.due :
            e = [job |-> r.job, tx |-> next, retry |-> r.retry, table |-> mover.dest]
      BY <1>3, <2>2 DEF Move
    <3>2. r \in retryQueue /\ r.job = j
      BY <1>3, <1>t, <3>1 DEF IInv, TypeOK
    <3> QED
      BY <3>2 DEF Waiting
  <2> QED
    BY <1>3, <2>1, <2>2, ConsumerFrame
       DEF Next, Tick, Maintain, Take, RotateStep1, RotateStep2, vars
<1> QED
  BY <1>1, <1>2, <1>3 DEF Waiting, Ahead

-----------------------------------------------------------------------------
(* Each step is one of the promise's, or none.                              *)
HandedTo(c) == {v.job : v \in consumer[c].todo}

LEMMA AcceptedStep ==
  ASSUME TypeOK, [Next]_vars, \A j \in Jobs : ~Commit(j)
  PROVE  Accepted' = Accepted
<1>1. ASSUME NEW j \in Jobs, Sending(j)
      PROVE  Accepted' = Accepted
  BY <1>1 DEF Sending, Begin, Send, Abort, TypeOK, Accepted, NoTx
<1>2. CASE UNCHANGED sender
  BY <1>2 DEF Accepted
<1> QED
  BY <1>1, <1>2, ConsumerFrame DEF Next, Tick, Maintain, Take, Move, RotateStep1, RotateStep2, vars

(* Nothing that leaves the cursor and the senders alone changes what is     *)
(* owed.                                                                    *)
LEMMA OwedSame ==
  ASSUME CInv, HandsOK, [Next]_vars, UNCHANGED lastTick, \A j \in Jobs : ~Commit(j)
  PROVE  Owed' = Owed /\ Accepted' = Accepted
<1>1. Accepted' = Accepted
  BY AcceptedStep DEF CInv, IInv
<1>2. Owed' \subseteq Accepted'
  BY DEF Owed
<1> QED
  BY <1>1, <1>2, OwedStays, NothingNewOwed

(* A commit has the job owed: no tick has seen its event.                   *)
LEMMA CommitAccepts ==
  ASSUME CInv, HandsOK, NEW j \in Jobs, Commit(j)
  PROVE  Promise!Accept(j)
<1>1. /\ sender[j].state = "sent" /\ sender' = [sender EXCEPT ![j] = NoTx("committed")]
      /\ UNCHANGED <<events, ticks, lastTick, handled, deadLetter, consumer>>
  BY DEF Commit, cursor, outcomes
<1>2. j \notin Accepted /\ Accepted' = Accepted \cup {j}
  BY <1>1 DEF Accepted, NoTx, CInv, IInv, TypeOK
<1>3. PICK e \in events : e.job = j /\ e.tx = sender[j].tx
  BY <1>1 DEF CInv, OriginOK
<1>4. e.tx \in Open /\ ~Visible(e.tx, ticks[lastTick])
  BY <1>1, <1>3 DEF Open, CInv, IInv, IdsOK, TicksOK, CursorOK
<1>5. e.tx \notin Open'
  <2>1. \A k \in Jobs : sender'[k].tx = IF k = j THEN 0 ELSE sender[k].tx
    BY <1>1 DEF CInv, IInv, TypeOK, NoTx
  <2> QED
    BY <1>3, <1>4, <2>1 DEF Open, CInv, IInv, IdsOK
<1>6. j \in Owed'
  BY <1>1, <1>2, <1>3, <1>4, <1>5 DEF Owed, Ahead, Visible
<1>7. Owed \subseteq Owed' /\ Owed' \cap Accepted \subseteq Owed
  BY <1>1, OwedStays, NothingNewOwed DEF Next, Sending
<1>8. Owed' = Owed \cup {j}
  BY <1>2, <1>6, <1>7 DEF Owed
<1> QED
  BY <1>1, <1>2, <1>8 DEF Promise!Accept

(* Handing out a batch.                                                     *)
LEMMA BatchIsHanded ==
  ASSUME CInv, HandsOK, [Next]_vars, NEW c \in Consumers, consumer[c] = Polling,
         NEW n \in DOMAIN ticks, lastTick <= n,
         NEW some \in Handed(Rows(ticks[lastTick], ticks[n])),
         consumer' = [consumer EXCEPT ![c] = [batch |-> n, todo |-> some]],
         UNCHANGED <<lastTick, sender, handled, deadLetter>>
  PROVE  Promise!Hand(c, {v.job : v \in some})
<1>1. {v.job : v \in some} \subseteq Owed
  BY RowsAreOwed, HandedIsPart
<1>2. Owed' = Owed /\ Accepted' = Accepted
  <2>1. \A j \in Jobs : ~Commit(j)
    BY DEF Commit, NoTx, CInv, IInv, TypeOK
  <2> QED
    BY <2>1, OwedSame
<1>3. HandedTo(c) = {}
  BY DEF HandedTo, Polling
<1>4. \A b \in Consumers : consumer'[b] = IF b = c THEN [batch |-> n, todo |-> some] ELSE consumer[b]
  BY DEF CInv, IInv, TypeOK
<1>5. [b \in Consumers |-> HandedTo(b)]'
        = [[b \in Consumers |-> HandedTo(b)] EXCEPT ![c] = {v.job : v \in some}]
  <2>1. \A b \in Consumers : HandedTo(b)' = IF b = c THEN {v.job : v \in some} ELSE HandedTo(b)
    BY <1>4 DEF HandedTo
  <2> QED
    BY <2>1
<1> QED
  BY <1>1, <1>2, <1>3, <1>5 DEF Promise!Hand, HandedTo

(* Messages a consumer is through with.                                     *)
LEMMA MessageFinished ==
  ASSUME CInv, HandsOK, NEW c \in Consumers, NEW v \in consumer[c].todo, Forget(c, v)
  PROVE  Promise!Finish(c, v.job) /\ v.job \in Jobs
<1>1. \A b \in Consumers : consumer'[b].todo = IF b = c THEN consumer[c].todo \ {v} ELSE consumer[b].todo
  BY DEF Forget, CInv, IInv, TypeOK
<1>2. v.job \in Jobs
  BY DEF CInv, IInv, TypeOK, Events
<1>3. HandedTo(c)' = HandedTo(c) \ {v.job}
  BY <1>1 DEF HandedTo, HandsOK
<1>4. \A b \in Consumers : b # c => HandedTo(b)' = HandedTo(b)
  BY <1>1 DEF HandedTo
<1>5. [b \in Consumers |-> HandedTo(b)]'
        = [[b \in Consumers |-> HandedTo(b)] EXCEPT ![c] = @ \ {v.job}]
  BY <1>3, <1>4
<1>6. v.job \in HandedTo(c)
  BY DEF HandedTo
<1> QED
  BY <1>2, <1>5, <1>6 DEF Promise!Finish, HandedTo

LEMMA BatchDropped ==
  ASSUME CInv, NEW c \in Consumers, consumer' = [consumer EXCEPT ![c] = Polling]
  PROVE  [b \in Consumers |-> HandedTo(b)]' = [[b \in Consumers |-> HandedTo(b)] EXCEPT ![c] = {}]
<1>1. \A b \in Consumers : consumer'[b].todo = IF b = c THEN {} ELSE consumer[b].todo
  BY DEF Polling, CInv, IInv, TypeOK
<1>2. \A b \in Consumers : HandedTo(b)' = IF b = c THEN {} ELSE HandedTo(b)
  BY <1>1 DEF HandedTo
<1> QED
  BY <1>2

(* A step of a consuming process.                                           *)
LEMMA ConsumerImplements ==
  ASSUME CInv, HandsOK, NothingLost', [Next]_vars, NEW c \in Consumers, Consume(c) \/ Stop(c)
  PROVE  Promise!Next \/ UNCHANGED Promise!vars
<1>t. /\ lastTick \in DOMAIN ticks /\ lastTick \in Nat /\ nextTick \in Nat
      /\ \A n \in DOMAIN ticks : n \in Nat
      /\ UNCHANGED <<sender, ticks, events>>
  BY ConsumerFrame DEF CInv, IInv, CursorOK, TypeOK
<1>c. \A j \in Jobs : ~Commit(j)
  BY <1>t DEF Commit, NoTx, CInv, IInv, TypeOK
<1>1. CASE Receive(c)
  <2>1. PICK n \in Later :
          LET rows == Rows(ticks[lastTick], ticks[n]) IN
            IF rows = {}
            THEN lastTick' = n /\ UNCHANGED <<nextTick, consumer>>
            ELSE /\ nextTick' = n /\ UNCHANGED lastTick
                 /\ \E some \in Handed(rows) :
                      consumer' = [consumer EXCEPT ![c] = [batch |-> n, todo |-> some]]
    BY <1>1 DEF Receive
  <2>2. n \in DOMAIN ticks /\ lastTick <= n
    BY <1>t, <2>1 DEF Later
  <2>3. consumer[c] = Polling /\ UNCHANGED <<retryQueue, handled, deadLetter>>
    BY <1>1 DEF Receive, retries, outcomes
  <2>4. CASE Rows(ticks[lastTick], ticks[n]) = {}
    <3>1. lastTick' = n /\ UNCHANGED consumer
      BY <2>1, <2>4
    <3>2. \A e \in events : e.tx \notin Open /\ ~Visible(e.tx, ticks[lastTick]) => ~Visible(e.tx, ticks[n])
      BY <2>2, <2>4, RowsAreExact DEF CInv, Exact
    <3>3. Accepted' = Accepted
      BY <1>c, AcceptedStep DEF CInv, IInv
    <3>4. Open' = Open
      BY <1>t DEF Open
    <3>5. Owed \subseteq Owed'
      BY <1>t, <2>3, <3>1, <3>2, <3>3, <3>4 DEF Owed, Waiting, Ahead, Visible
    <3>6. Owed' \subseteq Accepted'
      BY DEF Owed
    <3>7. Owed' = Owed
      BY <3>3, <3>5, <3>6, NothingNewOwed
    <3> QED
      BY <2>3, <3>1, <3>3, <3>7 DEF Promise!vars
  <2>5. CASE Rows(ticks[lastTick], ticks[n]) # {}
    <3>1. PICK some \in Handed(Rows(ticks[lastTick], ticks[n])) :
            consumer' = [consumer EXCEPT ![c] = [batch |-> n, todo |-> some]]
      BY <2>1, <2>5
    <3>2. UNCHANGED <<lastTick, sender, handled, deadLetter>>
      BY <1>t, <2>1, <2>3, <2>5
    <3>3. Promise!Hand(c, {v.job : v \in some})
      BY <2>2, <2>3, <3>1, <3>2, BatchIsHanded
    <3>4. {v.job : v \in some} \in SUBSET Owed
      BY <2>2, <3>1, RowsAreOwed, HandedIsPart
    <3> QED
      BY <3>3, <3>4 DEF Promise!Next
  <2> QED
    BY <2>4, <2>5
<1>2. CASE ReceiveAgain(c)
  <2>1. /\ consumer[c] = Polling /\ nextTick \in DOMAIN ticks /\ lastTick <= nextTick
        /\ UNCHANGED <<lastTick, sender, handled, deadLetter>>
    BY <1>2, <1>t DEF ReceiveAgain, CInv, IInv, CursorOK, cursor, outcomes
  <2>2. PICK some \in Handed(Rows(ticks[lastTick], ticks[nextTick])) :
          consumer' = [consumer EXCEPT ![c] = [batch |-> nextTick, todo |-> some]]
    BY <1>2 DEF ReceiveAgain, BatchRows
  <2>3. Promise!Hand(c, {v.job : v \in some})
    BY <2>1, <2>2, BatchIsHanded
  <2>4. {v.job : v \in some} \in SUBSET Owed
    BY <2>1, <2>2, RowsAreOwed, HandedIsPart
  <2> QED
    BY <2>3, <2>4 DEF Promise!Next
<1>3. ASSUME NEW v \in consumer[c].todo, Handle(c, v) \/ Bury(c, v) \/ Retry(c, v)
      PROVE  Promise!Next
  <2>1. Promise!Finish(c, v.job) /\ v.job \in Jobs
    BY <1>3, MessageFinished DEF Handle, Bury, Retry
  <2>2. Owed' = Owed /\ Accepted' = Accepted
    <3>1. UNCHANGED lastTick
      BY <1>3 DEF Handle, Bury, Retry, cursor
    <3> QED
      BY <1>c, <3>1, OwedSame
  <2>3. CASE Handle(c, v)
    <3>1. Promise!Run(c, v.job)
      BY <2>1, <2>2, <2>3 DEF Handle, Promise!Run
    <3> QED
      BY <2>1, <3>1 DEF Promise!Next
  <2>4. CASE Bury(c, v) \/ Retry(c, v)
    <3>1. Copies(c, v) # {}
      BY <2>4 DEF Bury, Retry
    <3>2. v.job \in Owed
      BY <3>1, CopiesAreOwed
    <3>3. UNCHANGED handled /\ deadLetter' \in {deadLetter, deadLetter \cup {v.job}}
      BY <2>4 DEF Bury, Retry, outcomes
    <3>4. Promise!Fail(c, v.job)
      BY <2>1, <2>2, <3>2, <3>3 DEF Promise!Fail
    <3> QED
      BY <2>1, <3>4 DEF Promise!Next
  <2> QED
    BY <1>3, <2>3, <2>4
<1>4. ASSUME Stop(c) \/ \E v \in consumer[c].todo : GiveUp(c, v)
      PROVE  Promise!Next
  <2>1. /\ consumer' = [consumer EXCEPT ![c] = Polling]
        /\ UNCHANGED <<lastTick, handled, deadLetter>>
    BY <1>4 DEF Stop, GiveUp, cursor, outcomes
  <2>2. Promise!Drop(c)
    BY <1>c, <2>1, OwedSame, BatchDropped DEF Promise!Drop, HandedTo
  <2> QED
    BY <2>2 DEF Promise!Next
<1>5. CASE Ack(c)
  <2>1. /\ consumer[c].todo = {} /\ consumer' = [consumer EXCEPT ![c] = Polling]
        /\ UNCHANGED <<retryQueue, handled, deadLetter>>
    BY <1>5 DEF Ack, retries, outcomes
  <2>2. HandedTo(c) = {} /\ \A b \in Consumers : HandedTo(b)' = HandedTo(b)
    BY <2>1 DEF HandedTo, Polling, CInv, IInv, TypeOK
  <2>3. Accepted' = Accepted
    BY <1>c, AcceptedStep DEF CInv, IInv
  <2>4. Owed' \subseteq Owed
    <3>1. Owed' \subseteq Accepted'
      BY DEF Owed
    <3> QED
      BY <2>3, <3>1, NothingNewOwed
  <2>5. Owed \ Owed' \subseteq handled \cup deadLetter
    <3>1. ASSUME NEW j \in Owed, j \notin Owed' PROVE j \in handled \cup deadLetter
      <4>1. j \in Accepted'
        BY <2>3, <3>1 DEF Owed
      <4>2. Settled(j, ticks[lastTick])'
        BY <4>1 DEF NothingLost
      <4>3. ~ (Waiting(j)' \/ Ahead(j, ticks[lastTick])')
        BY <3>1, <4>1 DEF Owed
      <4> QED
        BY <2>1, <4>2, <4>3 DEF Settled
    <3> QED
      BY <3>1
  <2>6. Promise!Settle(c, Owed \ Owed')
    <3>1. Owed' = Owed \ (Owed \ Owed')
      BY <2>4
    <3>2. Owed \ Owed' \subseteq Owed \cap (handled \cup deadLetter)
      BY <2>5
    <3>3. UNCHANGED [b \in Consumers |-> HandedTo(b)]
      BY <2>2
    <3> QED
      BY <2>1, <2>2, <2>3, <3>1, <3>2, <3>3 DEF Promise!Settle, HandedTo
  <2>7. Owed \ Owed' \in SUBSET Owed
    OBVIOUS
  <2> QED
    BY <2>6, <2>7 DEF Promise!Next
<1> QED
  BY <1>1, <1>2, <1>3, <1>4, <1>5 DEF Consume, Deliver

LEMMA StepImplements ==
  ASSUME CInv, HandsOK, NothingLost', [Next]_vars
  PROVE  Promise!Next \/ UNCHANGED Promise!vars
<1>1. ASSUME NEW j \in Jobs, Commit(j)
      PROVE  Promise!Next
  BY <1>1, CommitAccepts DEF Promise!Next
<1>2. ASSUME NEW c \in Consumers, Consume(c) \/ Stop(c)
      PROVE  Promise!Next \/ UNCHANGED Promise!vars
  BY <1>2, ConsumerImplements
<1>3. ASSUME UNCHANGED <<lastTick, handled, deadLetter, consumer>>, \A j \in Jobs : ~Commit(j)
      PROVE  UNCHANGED Promise!vars
  BY <1>3, OwedSame DEF Promise!vars
<1>4. ASSUME NEW j \in Jobs, Sending(j)
      PROVE  UNCHANGED <<lastTick, handled, deadLetter, consumer>>
  BY <1>4 DEF Sending, Begin, Send, Commit, Abort, cursor, outcomes
<1>5. \/ \E c \in Consumers : Consume(c) \/ Stop(c)
      \/ UNCHANGED <<lastTick, handled, deadLetter, consumer>>
  BY <1>4 DEF Next, Tick, Maintain, Take, Move, RotateStep1, RotateStep2, vars, cursor, outcomes
<1> QED
  BY <1>1, <1>2, <1>3, <1>5

LEMMA HandsInvariance == Spec => []HandsOK
<1>1. Init => HandsOK
  BY DEF Init, HandsOK, Polling
<1> QED
  BY <1>1, HandsStep, CopiesInvariance, PTL DEF Spec

(* As long as receive hands out whole batches, the queue implements the     *)
(* at-least-once promise: ticks, tables, snapshots and retries hidden.      *)
THEOREM QueueKeepsPromise == Spec /\ []Fits => PromiseKept
<1>1. Init => Promise!Init
  BY DEF Init, Promise!Init, Accepted, Owed, NoTx, Polling
<1>2. CInv /\ HandsOK /\ NothingLost' /\ [Next]_vars => [Promise!Next]_(Promise!vars)
  BY StepImplements
<1> QED
  BY <1>1, <1>2, CopiesInvariance, HandsInvariance, NothingIsLost, PTL
     DEF Spec, PromiseKept, Promise!Spec

(* Which asks for nothing when there are no more jobs than one receive      *)
(* returns.                                                                 *)
THEOREM FewKeepPromise ==
  ASSUME IsFiniteSet(Jobs), Cardinality(Jobs) <= MaxReturn
  PROVE  Spec => PromiseKept
<1>1. CInv => Fits
  BY FewFit
<1> QED
  BY <1>1, CopiesInvariance, QueueKeepsPromise, PTL
=============================================================================
