--------------------------- MODULE ImageStoreProofs ---------------------------
(***************************************************************************)
(* Proofs about ImageStore, for any images, references, identifiers and    *)
(* number of callers.                                                      *)
(***************************************************************************)
EXTENDS ImageStore, TLAPS

(* No entry ever given shares its identifier with another image's.          *)
Owned == \A p, q \in given : p.id = q.id => p.digest = q.digest

(* What the store says of an image is one identifier, and was given.        *)
InForce ==
  /\ digestToID \subseteq given
  /\ \A p, q \in digestToID : p.digest = q.digest => p.id = q.id

(* The adapter keeps every entry; only the fake's calls are one step.       *)
Kept ==
  /\ store = "docker" => digestToID = given
  /\ store = "fake" => \A c \in Callers : pc[c] = "idle"

(* An answer only names entries that were given.                            *)
Answered == told \subseteq given

IInv == TypeOK /\ MapsAgree /\ Owned /\ InForce /\ Kept /\ Answered /\ RemovesWhatWasAsked

-----------------------------------------------------------------------------
(* What New and Enter do together.                                          *)
LEMMA NewEntries ==
  ASSUME TypeOK, Owned, InForce, NEW images \in SUBSET Digests, NEW new \in New(images)
  PROVE  /\ new \subseteq Entries
         /\ \A p, q \in given \cup new : p.id = q.id => p.digest = q.digest
         /\ \A p, q \in digestToID \cup new : p.digest = q.digest => p.id = q.id
         /\ {p.digest : p \in new} = {d \in images : IdOf(d) = {}}
<1>1. /\ new \subseteq Entries
      /\ \A p \in new : IdOf(p.digest) = {}
      /\ \A p \in new, q \in given : p.id # q.id
      /\ \A p, q \in new : p.digest = q.digest <=> p.id = q.id
  BY DEF New
<1>2. \A p \in new, q \in digestToID : p.digest # q.digest
  BY <1>1 DEF IdOf
<1>3. {p.digest : p \in new} = {d \in images : IdOf(d) = {}}
  BY DEF New
<1> QED
  BY <1>1, <1>2, <1>3 DEF Owned, InForce

(* The initial states satisfy the invariant.                                *)
LEMMA InitIInv == Init => IInv
<1> SUFFICES ASSUME Init PROVE IInv
  OBVIOUS
<1>1. TypeOK
  BY DEF Init, TypeOK, Entries
<1>2. MapsAgree /\ Owned /\ InForce /\ Kept /\ Answered
  BY DEF Init, MapsAgree, Owned, InForce, Kept, Answered
<1>3. RemovesWhatWasAsked
  BY DEF Init, RemovesWhatWasAsked
<1> QED
  BY <1>1, <1>2, <1>3 DEF IInv

(* A step of the adapter keeps it.                                          *)
LEMMA AdapterStep ==
  ASSUME IInv, NEW c \in Callers, Adapter(c)
  PROVE  IInv'
<1> USE DEF IInv
<1>1. ASSUME NEW t \in Tags, Inspect(c, t)
      PROVE  IInv'
  <2>1. TypeOK'
    BY <1>1 DEF TypeOK, Inspect, Goto, maps, outside
  <2>2. MapsAgree' /\ Owned' /\ InForce' /\ Kept' /\ Answered'
    BY <1>1 DEF Inspect, maps, MapsAgree, Owned, InForce, Kept, Answered
  <2>3. RemovesWhatWasAsked'
    BY <1>1 DEF Inspect, Goto, maps, TypeOK, RemovesWhatWasAsked, DigestOf
  <2> QED
    BY <2>1, <2>2, <2>3
<1>2. CASE List(c)
  <2>1. TypeOK'
    BY <1>2 DEF TypeOK, List, Goto, maps, outside
  <2>2. MapsAgree' /\ Owned' /\ InForce' /\ Kept' /\ Answered'
    BY <1>2 DEF List, maps, MapsAgree, Owned, InForce, Kept, Answered
  <2>3. RemovesWhatWasAsked'
    BY <1>2 DEF List, Goto, maps, TypeOK, RemovesWhatWasAsked, DigestOf
  <2> QED
    BY <2>1, <2>2, <2>3
<1>3. CASE Record(c)
  <2>1. store = "docker" /\ held[c] \in SUBSET Digests
    BY <1>3 DEF Record, Kept, TypeOK
  <2>2. PICK new \in New(held[c]) : Enter(new)
    BY <1>3 DEF Record
  <2>3. /\ new \subseteq Entries
        /\ \A p, q \in given \cup new : p.id = q.id => p.digest = q.digest
        /\ \A p, q \in digestToID \cup new : p.digest = q.digest => p.id = q.id
    BY <2>1, NewEntries
  <2>4. /\ digestToID' = digestToID \cup new /\ idToDigest' = idToDigest \cup new
        /\ given' = given \cup new
    BY <2>2 DEF Enter
  <2>5. TypeOK'
    BY <1>3, <2>3, <2>4 DEF Record, Return, Goto, TypeOK, outside
  <2>6. MapsAgree' /\ Owned' /\ InForce' /\ Answered'
    BY <1>3, <2>3, <2>4 DEF Record, MapsAgree, Owned, InForce, Answered
  <2>7. Kept'
    BY <1>3, <2>1, <2>4 DEF Record, Kept
  <2>8. RemovesWhatWasAsked'
    <3> SUFFICES ASSUME NEW b \in Callers, pc'[b] = "remove"
                 PROVE  held'[b] = {p.digest : p \in DigestOf(asked[b])'} /\ held'[b] # {}
      BY <1>3 DEF Record, Return, Goto, RemovesWhatWasAsked, TypeOK, DigestOf
    <3>1. /\ b # c /\ pc[b] = "remove" /\ held'[b] = held[b] /\ asked'[b] = asked[b]
          /\ held[b] = {p.digest : p \in DigestOf(asked[b])} /\ held[b] # {}
      BY <1>3 DEF Record, Return, Goto, RemovesWhatWasAsked, TypeOK
    <3>2. PICK p \in idToDigest : p.id = asked[b]
      BY <3>1 DEF DigestOf
    <3>3. \A q \in idToDigest' : q.id = asked[b] => q.digest = p.digest
      BY <2>3, <2>4, <3>2 DEF MapsAgree, InForce
    <3> QED
      BY <2>4, <3>1, <3>2, <3>3 DEF DigestOf
  <2> QED
    BY <2>5, <2>6, <2>7, <2>8
<1>4. ASSUME NEW id \in Ids, LookUp(c, id)
      PROVE  IInv'
  <2>1. TypeOK'
    BY <1>4 DEF TypeOK, LookUp, Goto, DigestOf, Entries, maps, outside
  <2>2. MapsAgree' /\ Owned' /\ InForce' /\ Kept' /\ Answered'
    BY <1>4 DEF LookUp, maps, MapsAgree, Owned, InForce, Kept, Answered
  <2>3. RemovesWhatWasAsked'
    <3> SUFFICES ASSUME NEW b \in Callers, pc'[b] = "remove"
                 PROVE  held'[b] = {p.digest : p \in DigestOf(asked[b])'} /\ held'[b] # {}
      BY <1>4 DEF LookUp, Goto, maps, TypeOK, RemovesWhatWasAsked, DigestOf
    <3>1. CASE b = c
      <4>1. asked'[b] = id /\ held'[b] = {p.digest : p \in DigestOf(id)}
        BY <1>4, <3>1 DEF LookUp, Goto, TypeOK
      <4>2. DigestOf(asked[b])' = DigestOf(id)
        BY <1>4, <4>1 DEF LookUp, maps, DigestOf
      <4> QED
        BY <1>4, <4>1, <4>2 DEF LookUp
    <3>2. CASE b # c
      <4>1. pc[b] = "remove" /\ asked'[b] = asked[b] /\ held'[b] = held[b]
        BY <1>4, <3>2 DEF LookUp, Goto, TypeOK
      <4>2. DigestOf(asked[b])' = DigestOf(asked[b])
        BY <1>4, <4>1 DEF LookUp, maps, DigestOf
      <4> QED
        BY <4>1, <4>2 DEF RemovesWhatWasAsked
    <3> QED
      BY <3>1, <3>2
  <2> QED
    BY <2>1, <2>2, <2>3
<1>5. CASE Remove(c) \/ RemoveFails(c)
  <2>1. TypeOK'
    BY <1>5, ImageAssumption DEF TypeOK, Remove, RemoveFails, Return, Goto, Drop, maps, outside
  <2>2. MapsAgree' /\ Owned' /\ InForce' /\ Kept' /\ Answered'
    BY <1>5 DEF Remove, RemoveFails, Return, Goto, TypeOK, maps, MapsAgree, Owned, InForce, Kept, Answered
  <2>3. RemovesWhatWasAsked'
    BY <1>5 DEF Remove, RemoveFails, Return, Goto, maps, TypeOK, RemovesWhatWasAsked, DigestOf
  <2> QED
    BY <2>1, <2>2, <2>3
<1>6. ASSUME NEW d \in Digests, Load(c, d)
      PROVE  IInv'
  BY <1>6 DEF Load, TypeOK, maps, calls, MapsAgree, Owned, InForce, Kept, Answered,
     RemovesWhatWasAsked, DigestOf
<1> QED
  BY <1>1, <1>2, <1>3, <1>4, <1>5, <1>6 DEF Adapter

(* What the daemon's other users do is nothing to the store.                *)
LEMMA DaemonStep ==
  ASSUME IInv, Daemon
  PROVE  IInv'
<1>1. UNCHANGED <<store, maps, calls, told>>
  BY DEF Daemon, Pull, Prune
<1>2. TypeOK'
  <2>1. CASE \E t \in Tags, d \in Digests : Pull(t, d)
    BY <1>1, <2>1 DEF IInv, TypeOK, Pull, maps, calls
  <2>2. CASE \E d \in Digests : Prune(d)
    BY <1>1, <2>2 DEF IInv, TypeOK, Prune, Drop, maps, calls
  <2> QED
    BY <2>1, <2>2 DEF Daemon
<1>3. MapsAgree' /\ Owned' /\ InForce' /\ Kept' /\ Answered'
  BY <1>1 DEF IInv, maps, calls, MapsAgree, Owned, InForce, Kept, Answered
<1>4. RemovesWhatWasAsked'
  BY <1>1 DEF IInv, maps, calls, RemovesWhatWasAsked, DigestOf
<1> QED
  BY <1>2, <1>3, <1>4 DEF IInv

(* What the fake's FakeLoad does to its maps.                               *)
LEMMA FakeLoadEntries ==
  ASSUME IInv, NEW d \in Digests, FakeLoad(d)
  PROVE  \E new \in New({d}) :
           /\ digestToID' = digestToID \cup new
           /\ idToDigest' = idToDigest \cup new
           /\ given' = given \cup new
<1>1. PICK new \in New({d}) :
        /\ digestToID' = digestToID \cup new
        /\ idToDigest' = idToDigest \cup IdOf(d) \cup new
        /\ given' = given \cup new
  BY DEF FakeLoad
<1>2. IdOf(d) \subseteq idToDigest
  BY DEF IInv, MapsAgree, IdOf
<1> QED
  BY <1>1, <1>2

(* FakeRemove takes the same entries out of both maps.                      *)
LEMMA FakeRemoveEntries ==
  ASSUME IInv, NEW id \in Ids, FakeRemove(id)
  PROVE  \E p \in digestToID :
           /\ p.id = id
           /\ digestToID' = digestToID \ {p}
           /\ idToDigest' = digestToID \ {p}
<1>1. PICK p \in digestToID : p.id = id
  BY DEF FakeRemove, DigestOf, IInv, MapsAgree
<1>2. \A q \in digestToID : q \in Entries /\ (q.id = id \/ q.digest = p.digest => q = p)
  <2> TAKE q \in digestToID
  <2>1. p \in Entries /\ q \in Entries
    BY DEF IInv, TypeOK
  <2>2. q.id = p.id <=> q.digest = p.digest
    BY DEF IInv, Owned, InForce
  <2> QED
    BY <1>1, <2>1, <2>2 DEF Entries
<1>3. DigestOf(id) = {p}
  BY <1>1, <1>2 DEF DigestOf, IInv, MapsAgree
<1>4. idToDigest' = digestToID \ {p}
  BY <1>3 DEF FakeRemove, IInv, MapsAgree
<1>5. digestToID' = {q \in digestToID : q.digest # p.digest}
  BY <1>3 DEF FakeRemove
<1> QED
  BY <1>1, <1>2, <1>4, <1>5

(* A step of the fake keeps the invariant.                                  *)
LEMMA FakeStep ==
  ASSUME IInv, Fake
  PROVE  IInv'
<1>1. store = "fake" /\ UNCHANGED <<store, outside, calls>>
  BY DEF Fake, FakeInventory, FakeResolve, FakeLoad, FakeRemove
<1>2. Kept' /\ RemovesWhatWasAsked'
  BY <1>1 DEF IInv, Kept, RemovesWhatWasAsked, calls
<1>3. CASE FakeInventory
  BY <1>1, <1>2, <1>3 DEF FakeInventory, IInv, TypeOK, MapsAgree, Owned, InForce, Answered,
     maps, outside, calls
<1>4. ASSUME NEW d \in Digests, FakeResolve(d)
      PROVE  IInv'
  BY <1>1, <1>2, <1>4 DEF FakeResolve, IInv, TypeOK, MapsAgree, Owned, InForce, Answered,
     IdOf, maps, outside, calls
<1>5. ASSUME NEW d \in Digests, FakeLoad(d)
      PROVE  IInv'
  <2>1. PICK new \in New({d}) :
          /\ digestToID' = digestToID \cup new
          /\ idToDigest' = idToDigest \cup new
          /\ given' = given \cup new
    BY <1>5, FakeLoadEntries
  <2>2. /\ new \subseteq Entries
        /\ \A p, q \in given \cup new : p.id = q.id => p.digest = q.digest
        /\ \A p, q \in digestToID \cup new : p.digest = q.digest => p.id = q.id
    BY NewEntries DEF IInv
  <2>3. told' = told
    BY <1>5 DEF FakeLoad
  <2> QED
    BY <1>1, <1>2, <2>1, <2>2, <2>3 DEF IInv, TypeOK, MapsAgree, Owned, InForce, Answered,
       outside, calls
<1>6. ASSUME NEW id \in Ids, FakeRemove(id)
      PROVE  IInv'
  <2>1. digestToID' \subseteq digestToID /\ idToDigest' = digestToID'
    BY <1>6, FakeRemoveEntries
  <2>2. given' = given /\ told' = told
    BY <1>6 DEF FakeRemove
  <2> QED
    BY <1>1, <1>2, <2>1, <2>2 DEF IInv, TypeOK, MapsAgree, Owned, InForce, Answered,
       outside, calls
<1> QED
  BY <1>3, <1>4, <1>5, <1>6 DEF Fake

(* Every step keeps the invariant.                                          *)
LEMMA NextIInv == IInv /\ [Next]_vars => IInv'
<1> SUFFICES ASSUME IInv, [Next]_vars PROVE IInv'
  OBVIOUS
<1>1. ASSUME NEW c \in Callers, Adapter(c)
      PROVE  IInv'
  BY <1>1, AdapterStep
<1>2. CASE Daemon
  BY <1>2, DaemonStep
<1>3. CASE Fake
  BY <1>3, FakeStep
<1>4. CASE UNCHANGED vars
  BY <1>4 DEF vars, outside, maps, calls, IInv, TypeOK, MapsAgree, Owned, InForce, Kept,
     Answered, RemovesWhatWasAsked, DigestOf
<1> QED
  BY <1>1, <1>2, <1>3, <1>4 DEF Next

(* The invariant holds in every reachable state.                            *)
LEMMA Invariance == Spec => []IInv
<1> QED
  BY InitIInv, NextIInv, PTL DEF Spec

-----------------------------------------------------------------------------
(* Every variable keeps its type, whichever store is in use.                *)
THEOREM TypeCorrect == Spec => []TypeOK
<1>1. IInv => TypeOK
  BY DEF IInv
<1> QED
  BY <1>1, Invariance, PTL

(* The two maps of either store always agree, however calls interleave.     *)
THEOREM MapsAlwaysAgree == Spec => []MapsAgree
<1>1. IInv => MapsAgree
  BY DEF IInv
<1> QED
  BY <1>1, Invariance, PTL

(* An identifier handed out never comes to mean another image, and through  *)
(* the adapter it works for ever.                                           *)
THEOREM TrueForGood == Spec => []ToldStaysTrue
<1>1. IInv => ToldStaysTrue
  BY DEF IInv, MapsAgree, Owned, InForce, Kept, Answered, ToldStaysTrue
<1> QED
  BY <1>1, Invariance, PTL

(* A removal asks the daemon for the image its caller named, although the   *)
(* lock was given back in between.                                          *)
THEOREM RemovesTheRightImage == Spec => []RemovesWhatWasAsked
<1>1. IInv => RemovesWhatWasAsked
  BY DEF IInv
<1> QED
  BY <1>1, Invariance, PTL

-----------------------------------------------------------------------------
(* Entries for images without one are a naming of the promise.              *)
LEMMA EnteringNames ==
  ASSUME IInv, NEW images \in SUBSET Digests, NEW new \in New(images),
         digestToID' = digestToID \cup new, given' = given \cup new
  PROVE  Promise!Next
<1>1. /\ new \subseteq Entries
      /\ \A p, q \in given \cup new : p.id = q.id => p.digest = q.digest
      /\ \A p, q \in digestToID \cup new : p.digest = q.digest => p.id = q.id
  BY NewEntries DEF IInv
<1>2. digestToID \subseteq given
  BY DEF IInv, InForce
<1>3. Promise!OneToOne(digestToID \cup new)
  BY <1>1, <1>2 DEF Promise!OneToOne
<1>4. \A p \in new, q \in given : p.id # q.id
  BY DEF New
<1> QED
  BY <1>1, <1>3, <1>4 DEF Promise!Next, Promise!Name

(* Every step names images, forgets one, or is nothing to the promise.      *)
LEMMA StepImplementsPromise == IInv /\ [Next]_vars => [Promise!Next]_Promise!vars
<1> SUFFICES ASSUME IInv, [Next]_vars PROVE Promise!Next \/ UNCHANGED Promise!vars
  OBVIOUS
<1>1. ASSUME NEW c \in Callers, Record(c)
      PROVE  Promise!Next
  <2>1. PICK new \in New(held[c]) : Enter(new)
    BY <1>1 DEF Record
  <2>2. held[c] \in SUBSET Digests
    BY DEF IInv, TypeOK
  <2> QED
    BY <2>1, <2>2, EnteringNames DEF Enter
<1>2. ASSUME NEW c \in Callers, Adapter(c), ~ Record(c)
      PROVE  UNCHANGED Promise!vars
  BY <1>2 DEF Adapter, List, Inspect, LookUp, Remove, RemoveFails, Load, maps, Promise!vars
<1>3. CASE Daemon
  BY <1>3 DEF Daemon, Pull, Prune, maps, Promise!vars
<1>4. CASE FakeInventory \/ \E d \in Digests : FakeResolve(d)
  BY <1>4 DEF FakeInventory, FakeResolve, maps, Promise!vars
<1>5. ASSUME NEW d \in Digests, FakeLoad(d)
      PROVE  Promise!Next
  BY <1>5, FakeLoadEntries, EnteringNames
<1>6. ASSUME NEW id \in Ids, FakeRemove(id)
      PROVE  Promise!Next
  <2>1. PICK p \in digestToID : digestToID' = digestToID \ {p}
    BY <1>6, FakeRemoveEntries
  <2>2. p \in Entries /\ given' = given
    BY <1>6 DEF FakeRemove, IInv, TypeOK
  <2> QED
    BY <2>1, <2>2 DEF Promise!Next, Promise!Forget
<1>7. CASE UNCHANGED vars
  BY <1>7 DEF vars, maps, Promise!vars
<1> QED
  BY <1>1, <1>2, <1>3, <1>4, <1>5, <1>6, <1>7 DEF Next, Fake

(* Both stores implement ImageNames: no image ever has two identifiers, and *)
(* an identifier given to an image is never given to another.               *)
THEOREM StoreKeepsPromise == Spec => PromiseKept
<1>1. Init => Promise!Init
  BY DEF Init, Promise!Init
<1> QED
  BY <1>1, Invariance, StepImplementsPromise, PTL DEF Spec, PromiseKept, Promise!Spec
=============================================================================
