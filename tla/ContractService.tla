-------------------------- MODULE ContractService --------------------------
(***************************************************************************)
(* What the job payload schema registry promises its callers, without      *)
(* replicas, caches or SQL: one write-once contract per reference, and     *)
(* answers that are about that contract.                                   *)
(*                                                                         *)
(* A call is open while status[w] = "pending".  A contract is the document *)
(* of an open registration, or of one that got no answer or "failed": such *)
(* a registration is undecided and may set the contract at any later time. *)
(***************************************************************************)
CONSTANTS Workers,            \* callers
          Refs,               \* schema references (kind/version)
          Docs,               \* JSON Schema documents
          None,               \* "no document"
          WellFormed(_, _),   \* a reference and a document Register may store
          Comparable(_, _),   \* documents the registry can compare
          Same(_, _)          \* the registry's notion of "the same document"

VARIABLES contract,     \* contract[ref]: the published document, or None
          undecided,    \* registrations that may be published yet
          retired,      \* references retired by an operator
          call,         \* call[w]: what w asked last
          status,       \* status[w]: "none", "pending" or the answer
          held,         \* held[w]: the document the answer is about
          seen          \* seen[w]: ref was already published when w asked

vars == <<contract, undecided, retired, call, status, held, seen>>

Ops == {"register", "retrieve", "validate"}

Init ==
  /\ contract = [ref \in Refs |-> None]
  /\ undecided = {}
  /\ retired = {}
  /\ call \in [Workers -> [op : Ops, ref : Refs, doc : Docs \cup {None}]]
  /\ status = [w \in Workers |-> "none"]
  /\ held = [w \in Workers |-> None]
  /\ seen = [w \in Workers |-> FALSE]

Registering(w) == status[w] = "pending" /\ call[w].op = "register"
Submission(w) == [ref |-> call[w].ref, doc |-> call[w].doc]

(***************************************************************************)
(* The answers an open call may get, c being the contract it leaves        *)
(* behind.  Only "failed" says nothing about the contract.                 *)
(***************************************************************************)
Accepted(w, c) == c # None /\ Same(c, call[w].doc)
Refused(w, c, answer) ==
  /\ c # None
  /\ \/ answer = "immutable" /\ Comparable(c, call[w].doc) /\ ~Same(c, call[w].doc)
     \/ answer = "uncomparable" /\ ~Comparable(c, call[w].doc)

Answerable(w, c, answer, doc) ==
  \/ answer = "failed"
  \/ answer = "not_found" /\ (seen[w] \/ call[w].op = "register" => call[w].ref \in retired)
  \/ call[w].op = "register" /\ answer = "ok" /\ Accepted(w, c)
  \/ call[w].op = "register" /\ Refused(w, c, answer)
  \/ call[w].op = "retrieve" /\ answer = "ok" /\ c # None /\ doc = c
  \/ call[w].op = "validate" /\ answer = "ok" /\ c # None /\ Same(c, doc)

(* A caller asks.  A registration that is not well formed never opens; a   *)
(* validation may be answered at once, by a contract known to be in force. *)
Ask(w) ==
  /\ status[w] # "pending"
  /\ \E op \in Ops, ref \in Refs, doc \in Docs \cup {None} :
       /\ call' = [call EXCEPT ![w] = [op |-> op, ref |-> ref, doc |-> doc]]
       /\ seen' = [seen EXCEPT ![w] = contract[ref] # None /\ ref \notin retired]
       /\ \/ /\ op = "register" => WellFormed(ref, doc)
             /\ status' = [status EXCEPT ![w] = "pending"]
             /\ held' = [held EXCEPT ![w] = None]
          \/ /\ op = "register" /\ ~WellFormed(ref, doc)
             /\ \E why \in {"invalid_ref", "invalid_schema"} :
                  status' = [status EXCEPT ![w] = why]
             /\ held' = [held EXCEPT ![w] = None]
          \/ \E d \in Docs :
               /\ op = "validate" /\ contract[ref] # None /\ Same(contract[ref], d)
               /\ status' = [status EXCEPT ![w] = "ok"]
               /\ held' = [held EXCEPT ![w] = d]
  /\ UNCHANGED <<contract, undecided, retired>>

(* A contract is set once; what else was submitted for it is too late.     *)
Publish(entry) ==
  /\ contract[entry.ref] = None
  /\ contract' = [contract EXCEPT ![entry.ref] = entry.doc]
  /\ undecided' = {e \in undecided : e.ref # entry.ref}

(* Open calls make progress, publish, or are answered.                     *)
Progress(w) ==
  /\ status[w] = "pending"
  /\ (Registering(w) /\ Publish(Submission(w))) \/ UNCHANGED <<contract, undecided>>
  /\ \E doc \in Docs \cup {None} :
       /\ held' = [held EXCEPT ![w] = doc]
       /\ \E answer \in {"pending", "ok", "immutable", "uncomparable", "not_found", "failed"} :
            /\ answer # "pending" => Answerable(w, contract'[call[w].ref], answer, doc)
            /\ status' = [status EXCEPT ![w] = answer]
  /\ UNCHANGED <<retired, call, seen>>

(* Some callers are given up on: told "failed", or lost with their replica. *)
(* Their registrations are undecided.                                       *)
GiveUp(ws, answer) ==
  /\ status' = [w \in Workers |-> IF w \in ws THEN answer ELSE status[w]]
  /\ held' = [w \in Workers |-> IF w \in ws THEN None ELSE held[w]]
  /\ \E sent \in SUBSET {Submission(w) : w \in {v \in ws : Registering(v)}} :
       undecided' = undecided \cup {entry \in sent : contract[entry.ref] = None}
  /\ UNCHANGED <<contract, retired, call, seen>>

(* An undecided registration is published after all.                       *)
Late == \E entry \in undecided : Publish(entry) /\ UNCHANGED <<retired, call, status, held, seen>>

(* An operator retires a version; its contract stays what it was.          *)
Retire(ref) ==
  /\ retired' = retired \cup {ref}
  /\ UNCHANGED <<contract, undecided, call, status, held, seen>>

Next ==
  \/ \E w \in Workers : Ask(w) \/ Progress(w)
  \/ \E ws \in SUBSET Workers : GiveUp(ws, "none")
  \/ \E w \in Workers : status[w] = "pending" /\ GiveUp({w}, "failed")
  \/ Late
  \/ \E ref \in Refs : Retire(ref)

Spec == Init /\ [][Next]_vars
=============================================================================
