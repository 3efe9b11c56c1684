----------------------------- MODULE ImageNames -----------------------------
(***************************************************************************)
(* What an image store promises about identifiers, whatever keeps the      *)
(* images: an image has one identifier at a time, and an identifier        *)
(* belongs to one image for ever.  Only a store that forgets an image may  *)
(* give it another identifier later.                                       *)
(***************************************************************************)
CONSTANTS Entries   \* [digest, id] pairs

VARIABLES names,    \* the pairs in force
          given     \* every pair there ever was

vars == <<names, given>>

(* No image has two identifiers, no identifier two images.                  *)
OneToOne(pairs) == \A p, q \in pairs : p.digest = q.digest <=> p.id = q.id

Init == names = {} /\ given = {}

(* Images without an identifier get one that no image ever had.             *)
Name(new) ==
  /\ OneToOne(names \cup new)
  /\ \A p \in new, q \in given : p.id # q.id
  /\ names' = names \cup new
  /\ given' = given \cup new

Forget(p) == names' = names \ {p} /\ UNCHANGED given

Next ==
  \/ \E new \in SUBSET Entries : Name(new)
  \/ \E p \in Entries : Forget(p)

Spec == Init /\ [][Next]_vars
=============================================================================
