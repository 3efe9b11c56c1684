----------------------------- MODULE AtLeastOnce -----------------------------
(***************************************************************************)
(* What a job queue promises its senders and its consumers, without ticks, *)
(* tables or snapshots.  An accepted job is owed until it was run or given *)
(* up for dead; a consumer is handed nothing but what is owed, and what is *)
(* no longer owed never comes back.  A consumer that was handed a job may  *)
(* be late with it: it may still run it after another one settled it, and  *)
(* that is all it may do.                                                  *)
(***************************************************************************)
CONSTANTS Jobs, Consumers

VARIABLES
  accepted,   \* jobs whose sender was promised delivery
  owed,       \* those still to be delivered, for the first time or again
  handed,     \* handed[c]: the jobs consumer c was given and has not finished
  handled,    \* jobs some consumer ran with success
  dead        \* jobs given up

vars == <<accepted, owed, handed, handled, dead>>

Init ==
  /\ accepted = {} /\ owed = {} /\ handled = {} /\ dead = {}
  /\ handed = [c \in Consumers |-> {}]

Accept(j) ==
  /\ j \notin accepted
  /\ accepted' = accepted \cup {j} /\ owed' = owed \cup {j}
  /\ UNCHANGED <<handed, handled, dead>>

Hand(c, some) ==
  /\ handed[c] = {} /\ some \subseteq owed
  /\ handed' = [handed EXCEPT ![c] = some]
  /\ UNCHANGED <<accepted, owed, handled, dead>>

Finish(c, j) == j \in handed[c] /\ handed' = [handed EXCEPT ![c] = @ \ {j}]

Run(c, j) ==
  /\ Finish(c, j)
  /\ handled' = handled \cup {j}
  /\ UNCHANGED <<accepted, owed, dead>>

(* A job that failed stays owed, or is given up; either only while it is.   *)
Fail(c, j) ==
  /\ Finish(c, j) /\ j \in owed
  /\ dead' \in {dead, dead \cup {j}}
  /\ UNCHANGED <<accepted, owed, handled>>

Drop(c) ==
  /\ handed' = [handed EXCEPT ![c] = {}]
  /\ UNCHANGED <<accepted, owed, handled, dead>>

(* Only what was run or given up is settled, by a consumer that is through. *)
Settle(c, some) ==
  /\ handed[c] = {} /\ some \subseteq owed \cap (handled \cup dead)
  /\ owed' = owed \ some
  /\ UNCHANGED <<accepted, handed, handled, dead>>

Next ==
  \/ \E c \in Consumers :
       \/ Drop(c)
       \/ \E j \in Jobs : Run(c, j) \/ Fail(c, j)
       \/ \E some \in SUBSET owed : Hand(c, some) \/ Settle(c, some)
  \/ \E j \in Jobs : Accept(j)

Spec == Init /\ [][Next]_vars
=============================================================================
