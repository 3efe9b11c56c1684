----------------------------- MODULE ImageStore -----------------------------
(***************************************************************************)
(* The images port (domain.DockerImageAPI, images.Store) and what stands   *)
(* behind it: docker.ImageAdapter, which gives the Docker daemon's images  *)
(* identifiers of dockzilla's own, or images.FakeStore, which keeps the    *)
(* images itself.                                                          *)
(*                                                                         *)
(* The adapter asks the daemon without holding its lock, so a call is a    *)
(* daemon call and a locked section, in the order of the code; the fake    *)
(* holds its lock for a whole call.  The daemon has other users.           *)
(***************************************************************************)
CONSTANTS
  Digests,   \* images, by their content
  Tags,      \* references the daemon resolves
  Ids,       \* BOUND: the identifiers uuidGen comes to return
  Callers,   \* goroutines that use the port
  None       \* no image, no identifier

ASSUME ImageAssumption == None \notin Digests \cup Ids

VARIABLES
  store,       \* what the port is: "docker" or "fake"
  daemon,      \* the images the Docker daemon has
  tag,         \* the image each reference names, or None
  digestToID,  \* the map of that name, as its entries
  idToDigest,  \* the adapter's idToDigest; the fake's images
  pc,          \* where each call is: "idle", "record" or "remove"
  asked,       \* the identifier a removal was given
  held,        \* the images a call read
  told,        \* history: the entries that were in an answer
  given        \* history: the entries that ever were in digestToID

maps == <<digestToID, idToDigest, given>>
outside == <<daemon, tag>>
calls == <<pc, asked, held>>
vars == <<store, outside, maps, calls, told>>

Entries == [digest : Digests, id : Ids]
IdOf(d) == {p \in digestToID : p.digest = d}
DigestOf(id) == {p \in idToDigest : p.id = id}

Init ==
  /\ store \in {"docker", "fake"}
  /\ daemon \in SUBSET Digests
  /\ tag \in [Tags -> daemon \cup {None}]
  /\ digestToID = {} /\ idToDigest = {} /\ given = {}
  /\ pc = [c \in Callers |-> "idle"]
  /\ asked = [c \in Callers |-> None]
  /\ held = [c \in Callers |-> {}]
  /\ told = {}

Goto(c, label, id, images) ==
  /\ pc' = [pc EXCEPT ![c] = label]
  /\ asked' = [asked EXCEPT ![c] = id]
  /\ held' = [held EXCEPT ![c] = images]

Return(c) == Goto(c, "idle", None, {})

(* Entries for the images that have none, with identifiers uuidGen never    *)
(* returned before.                                                         *)
New(images) ==
  {new \in SUBSET Entries :
     /\ {p.digest : p \in new} = {d \in images : IdOf(d) = {}}
     /\ \A p \in new, q \in given : p.id # q.id
     /\ \A p, q \in new : p.digest = q.digest <=> p.id = q.id}

Enter(new) ==
  /\ digestToID' = digestToID \cup new
  /\ idToDigest' = idToDigest \cup new
  /\ given' = given \cup new

-----------------------------------------------------------------------------
(* docker.ImageAdapter                                                      *)

(* Inventory: the daemon lists its images.                                  *)
List(c) ==
  /\ store = "docker" /\ pc[c] = "idle"
  /\ Goto(c, "record", None, daemon)
  /\ UNCHANGED <<store, outside, maps, told>>

(* Resolve: the daemon inspects a reference; one it does not know is an     *)
(* error.                                                                   *)
Inspect(c, t) ==
  /\ store = "docker" /\ pc[c] = "idle"
  /\ tag[t] # None
  /\ Goto(c, "record", None, {tag[t]})
  /\ UNCHANGED <<store, outside, maps, told>>

(* Mutant: the entries are made from what the maps held before the lock.    *)
RecordBlindly(c) ==
  /\ pc[c] = "record"
  /\ \E new \in SUBSET Entries :
       /\ {p.digest : p \in new} = held[c]
       /\ \A p \in new, q \in given : p.id # q.id
       /\ \A p, q \in new : p.digest = q.digest <=> p.id = q.id
       /\ Enter(new)
       /\ told' = told \cup new
  /\ Return(c)
  /\ UNCHANGED <<store, outside>>

(* Mutant: the reverse map is forgotten.                                    *)
RecordOneWay(c) ==
  /\ pc[c] = "record"
  /\ \E new \in New(held[c]) :
       /\ digestToID' = digestToID \cup new
       /\ given' = given \cup new
       /\ UNCHANGED idToDigest
  /\ told' = told \cup {p \in digestToID' : p.digest \in held[c]}
  /\ Return(c)
  /\ UNCHANGED <<store, outside>>

(* Either call then gives what it read identifiers, under the lock.         *)
Record(c) ==
  /\ pc[c] = "record"
  /\ \E new \in New(held[c]) : Enter(new)
  /\ told' = told \cup {p \in digestToID' : p.digest \in held[c]}
  /\ Return(c)
  /\ UNCHANGED <<store, outside>>

(* Mutant: an unknown identifier is looked up like any other.               *)
LookUpUnchecked(c, id) ==
  /\ store = "docker" /\ pc[c] = "idle"
  /\ Goto(c, "remove", id,
          IF DigestOf(id) = {} THEN {None} ELSE {p.digest : p \in DigestOf(id)})
  /\ UNCHANGED <<store, outside, maps, told>>

(* Remove looks the identifier up and gives the lock back ...               *)
LookUp(c, id) ==
  /\ store = "docker" /\ pc[c] = "idle"
  /\ DigestOf(id) # {}
  /\ Goto(c, "remove", id, {p.digest : p \in DigestOf(id)})
  /\ UNCHANGED <<store, outside, maps, told>>

(* The daemon drops images, and with them the references to them.           *)
Drop(images) ==
  /\ daemon' = daemon \ images
  /\ tag' = [t \in Tags |-> IF tag[t] \in images THEN None ELSE tag[t]]

(* Mutant: Remove also forgets the identifier.                              *)
RemoveForgets(c) ==
  /\ pc[c] = "remove"
  /\ held[c] \subseteq daemon
  /\ Drop(held[c])
  /\ digestToID' = digestToID \ DigestOf(asked[c])
  /\ idToDigest' = idToDigest \ DigestOf(asked[c])
  /\ Return(c)
  /\ UNCHANGED <<store, given, told>>

(* ... and then asks the daemon.                                            *)
Remove(c) ==
  /\ pc[c] = "remove"
  /\ held[c] \subseteq daemon
  /\ Drop(held[c])
  /\ Return(c)
  /\ UNCHANGED <<store, maps, told>>

(* The daemon has no such image, refuses, or cannot be reached, before or   *)
(* after it did as it was told.                                             *)
RemoveFails(c) ==
  /\ pc[c] = "remove"
  /\ Drop(held[c]) \/ UNCHANGED outside
  /\ Return(c)
  /\ UNCHANGED <<store, maps, told>>

(* Load tells the adapter nothing: the digest it returns is empty.          *)
Load(c, d) ==
  /\ store = "docker" /\ pc[c] = "idle"
  /\ daemon' = daemon \cup {d}
  /\ UNCHANGED <<store, tag, maps, calls, told>>

-----------------------------------------------------------------------------
(* The daemon's other users.                                                *)
Pull(t, d) ==
  /\ store = "docker"
  /\ daemon' = daemon \cup {d}
  /\ tag' = [tag EXCEPT ![t] = d]
  /\ UNCHANGED <<store, maps, calls, told>>

Prune(d) ==
  /\ store = "docker" /\ d \in daemon
  /\ Drop({d})
  /\ UNCHANGED <<store, maps, calls, told>>

-----------------------------------------------------------------------------
(* images.FakeStore                                                         *)
FakeInventory ==
  /\ store = "fake"
  /\ told' = told \cup idToDigest
  /\ UNCHANGED <<store, outside, maps, calls>>

FakeResolve(d) ==
  /\ store = "fake"
  /\ told' = told \cup IdOf(d)
  /\ UNCHANGED <<store, outside, maps, calls>>

FakeLoad(d) ==
  /\ store = "fake"
  /\ \E new \in New({d}) :
       /\ digestToID' = digestToID \cup new
       /\ idToDigest' = idToDigest \cup IdOf(d) \cup new
       /\ given' = given \cup new
  /\ UNCHANGED <<store, outside, calls, told>>

(* Mutant: the digest keeps its identifier.                                 *)
FakeRemoveKeepsDigest(id) ==
  /\ store = "fake"
  /\ DigestOf(id) # {}
  /\ idToDigest' = idToDigest \ DigestOf(id)
  /\ UNCHANGED <<store, outside, digestToID, given, calls, told>>

(* Both maps forget the image.                                              *)
FakeRemove(id) ==
  /\ store = "fake"
  /\ DigestOf(id) # {}
  /\ idToDigest' = idToDigest \ DigestOf(id)
  /\ digestToID' = {q \in digestToID : \A p \in DigestOf(id) : q.digest # p.digest}
  /\ UNCHANGED <<store, outside, given, calls, told>>

-----------------------------------------------------------------------------
Adapter(c) ==
  \/ List(c) \/ Record(c) \/ Remove(c) \/ RemoveFails(c)
  \/ \E t \in Tags : Inspect(c, t)
  \/ \E id \in Ids : LookUp(c, id)
  \/ \E d \in Digests : Load(c, d)

Daemon ==
  \/ \E t \in Tags, d \in Digests : Pull(t, d)
  \/ \E d \in Digests : Prune(d)

Fake ==
  \/ FakeInventory
  \/ \E d \in Digests : FakeResolve(d) \/ FakeLoad(d)
  \/ \E id \in Ids : FakeRemove(id)

Next == (\E c \in Callers : Adapter(c)) \/ Daemon \/ Fake

Spec == Init /\ [][Next]_vars

-----------------------------------------------------------------------------
TypeOK ==
  /\ store \in {"docker", "fake"}
  /\ daemon \subseteq Digests /\ tag \in [Tags -> Digests \cup {None}]
  /\ digestToID \subseteq Entries /\ idToDigest \subseteq Entries
  /\ told \subseteq Entries /\ given \subseteq Entries
  /\ pc \in [Callers -> {"idle", "record", "remove"}]
  /\ asked \in [Callers -> Ids \cup {None}]
  /\ held \in [Callers -> SUBSET Digests]

(* The two maps never disagree, although Remove leaves the adapter's alone  *)
(* and the fake takes an image out of both (ImageAdapter, FakeStore).       *)
MapsAgree == digestToID = idToDigest

(* An identifier never comes to mean another image, and through the adapter *)
(* an image never comes to have another identifier and an identifier never  *)
(* stops working: whoever asked, however long ago, whatever was removed,    *)
(* pulled and loaded again since.                                           *)
ToldStaysTrue ==
  /\ \A p \in told, q \in told \cup idToDigest : p.id = q.id => p.digest = q.digest
  /\ store = "docker" => told \subseteq idToDigest

(* What Remove asks the daemon to delete, after giving the lock back, is    *)
(* still the image its caller named.                                        *)
RemovesWhatWasAsked ==
  \A c \in Callers : pc[c] = "remove" =>
    held[c] = {p.digest : p \in DigestOf(asked[c])} /\ held[c] # {}

-----------------------------------------------------------------------------
(* Either store implements the naming of images.                            *)
Promise == INSTANCE ImageNames WITH names <- digestToID

PromiseKept == Promise!Spec
=============================================================================
