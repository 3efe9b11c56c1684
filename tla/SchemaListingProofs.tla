------------------------- MODULE SchemaListingProofs -------------------------
(***************************************************************************)
(* What is proved about SchemaListing for any replicas, workers, references*)
(* and catalogs: the order of the ids is linear whatever interleaves, List *)
(* enumerates the live rows along it, Latest is its first, and a version   *)
(* published before another stays behind it.                               *)
(***************************************************************************)
EXTENDS SchemaListing, SchemaRegistryProofs, FiniteSetTheorems, WellFoundedInduction

(* The ids of S compare as numbers do.                                      *)
Linear(S) ==
  /\ \A x \in S : <<x, x>> \in order
  /\ \A x, y \in S : <<x, y>> \in order \/ <<y, x>> \in order
  /\ \A x, y \in S : <<x, y>> \in order /\ <<y, x>> \in order => x = y
  /\ \A x, y, z \in S : <<x, y>> \in order /\ <<y, z>> \in order => <<x, z>> \in order

(* The newer of two rows has fewer that are no older.                       *)
LEMMA NewerHasFewer ==
  ASSUME NEW S, Linear(S), NEW x \in S, NEW y \in S, x # y, <<x, y>> \in order
  PROVE  NotOlder(y, S) \subseteq NotOlder(x, S) /\ NotOlder(y, S) # NotOlder(x, S)
<1>1. NotOlder(y, S) \subseteq NotOlder(x, S)
  BY DEF Linear, NotOlder
<1>2. x \in NotOlder(x, S) /\ x \notin NotOlder(y, S)
  BY DEF Linear, NotOlder
<1>q. QED
  BY <1>1, <1>2

LEMMA NewestExists ==
  ASSUME NEW S, IsFiniteSet(S), Linear(S), S # {}
  PROVE  \E x \in S : NotOlder(x, S) = {x}
<1> DEFINE T == {NotOlder(x, S) : x \in S}
<1>1. IsWellFoundedOn(StrictSubsetOrdering(S), FiniteSubsetsOf(S))
  BY FS_StrictSubsetOrderingWellFounded
<1>2. T \subseteq FiniteSubsetsOf(S) /\ T # {}
  <2>1. \A x \in S : NotOlder(x, S) \in SUBSET S
    BY DEF NotOlder
  <2>2. \A U \in SUBSET S : IsFiniteSet(U)
    BY FS_Subset
  <2>q. QED
    BY <2>1, <2>2 DEF FiniteSubsetsOf
<1>3. PICK U \in T : \A V \in T : ~ (<<V, U>> \in StrictSubsetOrdering(S))
  <2> HIDE DEF T
  <2>q. QED
    BY <1>1, <1>2, WFMin
<1>4. PICK x \in S : U = NotOlder(x, S)
  OBVIOUS
<1>5. ASSUME NEW y \in NotOlder(x, S), y # x PROVE FALSE
  <2>1. y \in S /\ <<x, y>> \in order
    BY DEF NotOlder
  <2>2. NotOlder(y, S) \in T /\ NotOlder(y, S) \subseteq U /\ NotOlder(y, S) # U
    BY <1>4, <1>5, <2>1, NewerHasFewer
  <2>3. NotOlder(y, S) \in SUBSET S /\ U \in SUBSET S
    BY <1>4 DEF NotOlder
  <2>q. QED
    BY <1>3, <2>2, <2>3 DEF StrictSubsetOrdering
<1>6. x \in NotOlder(x, S)
  BY DEF Linear, NotOlder
<1>q. QED
  BY <1>5, <1>6

(* A row's position in the list is the number of rows no older than it.     *)
LEMMA Positions ==
  ASSUME NEW S, IsFiniteSet(S), Linear(S)
  PROVE  /\ \A x \in S : Cardinality(NotOlder(x, S)) \in 1 .. Cardinality(S)
         /\ \A x, y \in S :
              Cardinality(NotOlder(x, S)) <= Cardinality(NotOlder(y, S)) => <<y, x>> \in order
         /\ \A x, y \in S :
              Cardinality(NotOlder(x, S)) = Cardinality(NotOlder(y, S)) => x = y
<1>1. \A x \in S : /\ NotOlder(x, S) \in SUBSET S /\ IsFiniteSet(NotOlder(x, S))
                   /\ Cardinality(NotOlder(x, S)) \in Nat
  <2>1. ASSUME NEW x \in S
        PROVE  NotOlder(x, S) \in SUBSET S /\ IsFiniteSet(NotOlder(x, S))
    BY FS_Subset DEF NotOlder
  <2>q. QED
    BY <2>1, FS_CardinalityType
<1>2. Cardinality(S) \in Nat
  BY FS_CardinalityType
<1>3. ASSUME NEW x \in S PROVE Cardinality(NotOlder(x, S)) \in 1 .. Cardinality(S)
  <2>1. Cardinality(NotOlder(x, S)) <= Cardinality(S)
    BY <1>1, FS_Subset
  <2>2. Cardinality(NotOlder(x, S)) # 0
    <3>1. x \in NotOlder(x, S)
      BY DEF Linear, NotOlder
    <3>q. QED
      BY <1>1, <3>1, FS_EmptySet
  <2>q. QED
    BY <1>1, <1>2, <2>1, <2>2
<1>4. ASSUME NEW x \in S, NEW y \in S, x # y, <<x, y>> \in order
      PROVE  Cardinality(NotOlder(y, S)) < Cardinality(NotOlder(x, S))
  <2>1. NotOlder(y, S) \in SUBSET NotOlder(x, S) /\ NotOlder(y, S) # NotOlder(x, S)
    BY <1>4, NewerHasFewer
  <2>2. /\ Cardinality(NotOlder(y, S)) <= Cardinality(NotOlder(x, S))
        /\ Cardinality(NotOlder(x, S)) # Cardinality(NotOlder(y, S))
    BY <1>1, <2>1, FS_Subset
  <2>q. QED
    BY <1>1, <2>2
<1>5. ASSUME NEW x \in S, NEW y \in S,
             Cardinality(NotOlder(x, S)) <= Cardinality(NotOlder(y, S))
      PROVE  <<y, x>> \in order
  <2>1. CASE <<x, y>> \in order /\ x # y
    <3>1. Cardinality(NotOlder(y, S)) < Cardinality(NotOlder(x, S))
      BY <1>4, <2>1
    <3>2. Cardinality(NotOlder(x, S)) \in Nat /\ Cardinality(NotOlder(y, S)) \in Nat
      BY <1>1
    <3>q. QED
      BY <1>5, <3>1, <3>2
  <2>q. QED
    BY <2>1 DEF Linear
<1>6. ASSUME NEW x \in S, NEW y \in S,
             Cardinality(NotOlder(x, S)) = Cardinality(NotOlder(y, S))
      PROVE  x = y
  <2>1. Cardinality(NotOlder(x, S)) \in Nat
    BY <1>1
  <2>2. <<x, y>> \in order /\ <<y, x>> \in order
    BY <1>5, <1>6, <2>1
  <2>q. QED
    BY <2>2 DEF Linear
<1>q. QED
  BY <1>3, <1>5, <1>6

(* ORDER BY id DESC lists each row once, a newer one before an older one.   *)
LEMMA ListsInOrder ==
  ASSUME NEW S, IsFiniteSet(S), Linear(S)
  PROVE  LET list == NewestFirst(S) IN
         /\ list \in [1 .. Cardinality(S) -> S]
         /\ \A x \in S : \E n \in 1 .. Cardinality(S) : list[n] = x
         /\ \A m, n \in 1 .. Cardinality(S) :
              m < n => list[m] # list[n] /\ <<list[n], list[m]>> \in order
<1> DEFINE N == Cardinality(S)
           list == NewestFirst(S)
           place == [x \in S |-> Cardinality(NotOlder(x, S))]
<1>0. N \in Nat /\ IsFiniteSet(1 .. N) /\ Cardinality(1 .. N) = N
  <2>1. N \in Nat
    BY FS_CardinalityType
  <2>q. QED
    BY <2>1, FS_Interval
<1>1. place \in Injection(S, 1 .. N)
  BY Positions DEF Injection, IsInjective
<1>2. place \in Surjection(S, 1 .. N)
  BY <1>0, <1>1, FS_Injection
<1>3. \A n \in 1 .. N : \E x \in S : Cardinality(NotOlder(x, S)) = n
  BY <1>2 DEF Surjection
<1>4. \A n \in 1 .. N : list[n] \in S /\ Cardinality(NotOlder(list[n], S)) = n
  BY <1>3 DEF NewestFirst
<1>5. list \in [1 .. N -> S]
  BY <1>4 DEF NewestFirst
<1>6. ASSUME NEW x \in S PROVE \E n \in 1 .. N : list[n] = x
  <2>1. Cardinality(NotOlder(x, S)) \in 1 .. N
    BY Positions
  <2>2. list[Cardinality(NotOlder(x, S))] = x
    BY <1>4, <2>1, Positions
  <2>q. QED
    BY <2>1, <2>2
<1>7. ASSUME NEW m \in 1 .. N, NEW n \in 1 .. N, m < n
      PROVE  list[m] # list[n] /\ <<list[n], list[m]>> \in order
  <2>1. /\ list[m] \in S /\ Cardinality(NotOlder(list[m], S)) = m
        /\ list[n] \in S /\ Cardinality(NotOlder(list[n], S)) = n
    BY <1>4
  <2>2. m <= n /\ m # n
    BY <1>0, <1>7
  <2>q. QED
    BY <2>1, <2>2, Positions
<1>q. QED
  BY <1>5, <1>6, <1>7

-----------------------------------------------------------------------------
(* The ids of the stored rows, and only theirs, compare as numbers do.      *)
OrderOK == order \subseteq Stored \X Stored /\ Linear(Stored)

TableOK == IsFiniteSet(Stored)

(* What every build publishes before new is in the table before anybody     *)
(* inserts new, and has the lower id.                                       *)
InTurn ==
  \A old, new \in Refs :
    Before(old, new) =>
      /\ rows[new] # None => (rows[old] # None /\ <<old, new>> \in order)
      /\ \A w \in Workers :
           (pc[w] = "insert" /\ call[w].ref = new) => (rows[old] # None /\ old \in began[w])
      /\ \A entry \in limbo :
           entry.ref = new => (rows[old] # None /\ old \in since[entry])

SinceOK == \A entry \in Entries \ limbo : since[entry] = Refs

-----------------------------------------------------------------------------
(* A step stores no row, or one.                                            *)
StoresOne(ref) ==
  /\ rows[ref] = None /\ rows'[ref] # None
  /\ \A other \in Refs \ {ref} : rows'[other] = rows[other]

LEMMA StoreStores ==
  ASSUME TypeOK, NEW ref \in Refs, NEW doc \in Docs, Store(ref, doc)
  PROVE  UNCHANGED rows \/ StoresOne(ref)
<1>1. CASE rows[ref] = None
  BY <1>1, RegistryAssumption DEF TypeOK, Store, StoresOne
<1>2. CASE rows[ref] # None
  BY <1>2 DEF TypeOK, Store
<1>q. QED
  BY <1>1, <1>2

LEMMA StepStores ==
  ASSUME IInv, Next
  PROVE  UNCHANGED rows \/ \E ref \in Refs : StoresOne(ref)
<1>1. ASSUME NEW w \in Workers, Insert(w) \/ InsertFails(w)
      PROVE  UNCHANGED rows \/ StoresOne(call[w].ref)
  <2>1. call[w].ref \in Refs /\ call[w].doc \in Docs
    BY <1>1, RegistryAssumption DEF Insert, InsertFails, IInv, TypeOK, OpenCalls
  <2>q. QED
    BY <1>1, <2>1, StoreStores DEF Insert, InsertFails, IInv
<1>2. ASSUME NEW entry \in limbo, Land(entry) PROVE UNCHANGED rows \/ StoresOne(entry.ref)
  <2>1. entry.ref \in Refs /\ entry.doc \in Docs
    BY RegistryAssumption DEF IInv, TypeOK, PublishedUsable, Compiles
  <2>q. QED
    BY <1>2, <2>1, StoreStores DEF Land, IInv
<1>3. \/ UNCHANGED rows
      \/ \E w \in Workers : Insert(w) \/ InsertFails(w)
      \/ \E entry \in limbo : Land(entry)
  BY DEF Next, Step, Calls, Boot, Reread, Compare, CacheHit, CacheMiss, Load, SelectFails, Fill,
     CompileStored, CallRegister, BeginRegister, CallRetrieve, CallValidate, BootRegister,
     BootAdvance, BootFail, Exit, Start, Serve, WiringFails, Crash, Evict, Archive
<1>4. /\ \A w \in Workers : call[w].ref \in Refs
      /\ \A entry \in limbo : entry.ref \in Refs
  BY DEF IInv, TypeOK
<1>q. QED
  BY <1>1, <1>2, <1>3, <1>4

LEMMA StoredGrows ==
  ASSUME NEW ref \in Refs, StoresOne(ref)
  PROVE  Stored' = Stored \cup {ref} /\ ref \notin Stored
BY DEF StoresOne, Stored

LEMMA TableStep ==
  ASSUME TableOK, UNCHANGED rows \/ \E ref \in Refs : StoresOne(ref)
  PROVE  TableOK'
<1>1. CASE UNCHANGED rows
  BY <1>1 DEF TableOK, Stored
<1>2. ASSUME NEW ref \in Refs, StoresOne(ref) PROVE TableOK'
  BY <1>2, StoredGrows, FS_AddElement DEF TableOK
<1>q. QED
  BY <1>1, <1>2

(* A row whose id comes anywhere above those of the earlier rows.           *)
LEMMA PlaceKeepsOrder ==
  ASSUME OrderOK, NEW ref \in Refs, StoresOne(ref), NEW earlier, Place(ref, earlier)
  PROVE  /\ OrderOK' /\ order \subseteq order'
         /\ \A x \in earlier : <<x, ref>> \in order'
<1>1. PICK older \in SUBSET Stored :
        /\ earlier \subseteq older
        /\ \A x \in older, y \in Stored \ older : <<x, y>> \in order
        /\ order' = order \cup ((older \cup {ref}) \X {ref}) \cup ({ref} \X (Stored \ older))
  BY DEF Place
<1>2. Stored' = Stored \cup {ref} /\ ref \notin Stored
  BY StoredGrows
<1>3. \A x, y : <<x, y>> \in order => x \in Stored /\ y \in Stored
  BY DEF OrderOK
<1>4. \A x, y : <<x, y>> \in order' <=>
        \/ <<x, y>> \in order
        \/ y = ref /\ (x \in older \/ x = ref)
        \/ x = ref /\ y \in Stored \ older
  BY <1>1
<1>5. order' \subseteq Stored' \X Stored'
  BY <1>1, <1>2 DEF OrderOK
<1>6. Linear(Stored)
  BY DEF OrderOK
(* The rows below the new one are a lower part of the order.                *)
<1>7. \A x, y \in Stored : (<<x, y>> \in order /\ y \in older) => x \in older
  BY <1>1, <1>6 DEF Linear
<1>8. /\ \A x \in Stored' : <<x, x>> \in order'
      /\ \A x, y \in Stored' : <<x, y>> \in order' \/ <<y, x>> \in order'
  BY <1>2, <1>4, <1>6 DEF Linear
<1>9. \A x, y \in Stored' : <<x, y>> \in order' /\ <<y, x>> \in order' => x = y
  BY <1>2, <1>3, <1>4, <1>6 DEF Linear
<1>10. \A x, y, z \in Stored' :
         <<x, y>> \in order' /\ <<y, z>> \in order' => <<x, z>> \in order'
  <2> SUFFICES ASSUME NEW x \in Stored', NEW y \in Stored', NEW z \in Stored',
                      <<x, y>> \in order', <<y, z>> \in order', x # ref \/ z # ref
               PROVE  <<x, z>> \in order'
    BY <1>4
  <2>1. CASE y = ref
    BY <1>1, <1>2, <1>3, <1>4, <2>1
  <2>2. CASE y # ref /\ z = ref
    <3>1. x \in Stored /\ y \in older /\ <<x, y>> \in order
      BY <1>2, <1>3, <1>4, <2>2
    <3>q. QED
      BY <1>4, <1>7, <2>2, <3>1
  <2>3. CASE y # ref /\ x = ref
    <3>1. y \in Stored \ older /\ z \in Stored /\ <<y, z>> \in order
      BY <1>2, <1>3, <1>4, <2>3
    <3>q. QED
      BY <1>4, <1>7, <2>3, <3>1
  <2>4. CASE x # ref /\ y # ref /\ z # ref
    <3>1. <<x, y>> \in order /\ <<y, z>> \in order
      BY <1>4, <2>4
    <3>q. QED
      BY <1>3, <1>4, <1>6, <3>1 DEF Linear
  <2>q. QED
    BY <2>1, <2>2, <2>3, <2>4
<1>11. Linear(Stored)'
  BY <1>8, <1>9, <1>10 DEF Linear
<1>q. QED
  BY <1>1, <1>4, <1>5, <1>11 DEF OrderOK

(* The step of an INSERT or of an undecided one, if it stores a row.        *)
LEMMA OrderStep ==
  ASSUME IInv, OrderOK, Numbered, UNCHANGED rows \/ \E ref \in Refs : StoresOne(ref)
  PROVE  /\ OrderOK' /\ order \subseteq order'
         /\ \A new \in Refs : (rows[new] = None /\ rows'[new] # None) =>
              \/ \E w \in Workers :
                   /\ pc[w] = "insert" /\ call[w].ref = new
                   /\ \A x \in began[w] : <<x, new>> \in order'
              \/ \E entry \in limbo :
                   /\ entry.ref = new
                   /\ \A x \in since[entry] : <<x, new>> \in order'
<1>1. CASE UNCHANGED rows
  <2>1. \A ref \in Refs : ~ Appears(ref)
    BY <1>1 DEF Appears
  <2>2. /\ \A w \in Workers : call[w].ref \in Refs
        /\ \A entry \in limbo : entry.ref \in Refs
    BY DEF IInv, TypeOK
  <2>3. UNCHANGED order
    BY <2>1, <2>2 DEF Numbered, Lands
  <2>q. QED
    BY <1>1, <2>3 DEF OrderOK, Linear, Stored
<1>2. ASSUME NEW ref \in Refs, StoresOne(ref), ~ UNCHANGED rows
      PROVE  /\ OrderOK' /\ order \subseteq order'
             /\ \A new \in Refs : (rows[new] = None /\ rows'[new] # None) =>
                  \/ \E w \in Workers :
                       /\ pc[w] = "insert" /\ call[w].ref = new
                       /\ \A x \in began[w] : <<x, new>> \in order'
                  \/ \E entry \in limbo :
                       /\ entry.ref = new
                       /\ \A x \in since[entry] : <<x, new>> \in order'
  <2>1. \A other \in Refs : Appears(other) => other = ref
    BY <1>2 DEF Appears, StoresOne
  <2>2. \A new \in Refs : (rows[new] = None /\ rows'[new] # None) => new = ref
    BY <1>2 DEF StoresOne
  <2>3. ASSUME NEW w \in Workers, InsertEnds(w), Appears(call[w].ref),
               Place(call[w].ref, began[w])
        PROVE  /\ call[w].ref = ref /\ pc[w] = "insert" /\ Place(ref, began[w])
    <3>1. call[w].ref \in Refs
      BY DEF IInv, TypeOK
    <3>q. QED
      BY <2>1, <2>3, <3>1 DEF InsertEnds
  <2>4. ASSUME NEW entry \in limbo, Lands(entry), Place(entry.ref, since[entry])
        PROVE  entry.ref = ref /\ Place(ref, since[entry])
    <3>1. entry.ref \in Refs
      BY DEF IInv, TypeOK
    <3>q. QED
      BY <2>1, <2>4, <3>1 DEF Lands
  <2>q. QED
    BY <1>2, <2>2, <2>3, <2>4, PlaceKeepsOrder DEF Numbered
<1>q. QED
  BY <1>1, <1>2

-----------------------------------------------------------------------------
(* Publishing in turn.                                                      *)

(* Whoever starts to insert a version has published, or found published,    *)
(* what every build publishes before it.                                    *)
LEMMA InsertsBegin ==
  ASSUME IInv, Next, NEW w \in Workers, pc'[w] = "insert"
  PROVE  \/ pc[w] = "insert" /\ call'[w] = call[w]
         \/ /\ UNCHANGED rows /\ pc[w] = "idle"
            /\ \A old \in Refs : Before(old, call'[w].ref) => rows[old] # None
<1> USE RegistryAssumption
<1>t. /\ pc \in [Workers -> PCs] /\ Host[w] \in Replicas
      /\ call \in [Workers -> [op : Ops, ref : Refs, doc : Doc]]
  BY DEF IInv, TypeOK
(* Another worker's step, or one that opens no call.                        *)
<1>1. CASE pc'[w] = pc[w] /\ call'[w] = call[w]
  BY <1>1
<1>2. ASSUME NEW v \in Workers, Step(v)
      PROVE  pc'[w] = pc[w] /\ call'[w] = call[w]
  <2>1. UNCHANGED call /\ \E label \in PCs \ {"insert"} : pc' = [pc EXCEPT ![v] = label]
    BY <1>2 DEF Step, Insert, InsertFails, Reread, Compare, CacheHit, CacheMiss, Load, SelectFails,
                Fill, CompileStored, Retrieved, Goto, Return, PCs
  <2>q. QED
    BY <1>t, <2>1
<1>3. ASSUME NEW v \in Workers, NEW ref \in Refs, NEW doc, BeginRegister(v, ref, doc), v # w
      PROVE  pc'[w] = pc[w] /\ call'[w] = call[w]
  BY <1>t, <1>3 DEF BeginRegister, Begin, Goto, Return
<1>4. ASSUME NEW ref \in Refs, NEW doc, BeginRegister(w, ref, doc)
      PROVE  UNCHANGED rows /\ pc[w] = "idle" /\ call'[w].ref = ref
  BY <1>t, <1>4 DEF BeginRegister, Begin
<1>5. ASSUME NEW v \in Workers, Calls(v)
      PROVE  \/ pc'[w] = pc[w] /\ call'[w] = call[w]
             \/ /\ UNCHANGED rows /\ pc[w] = "idle"
                /\ \A old \in Refs : Before(old, call'[w].ref) => rows[old] # None
  <2>1. CASE \E ref \in Refs : CallRetrieve(v, ref) \/ CallValidate(v, ref)
    BY <1>t, <2>1 DEF CallRetrieve, CallValidate, Begin, Goto, Return
  <2>2. ASSUME NEW ref \in Refs, NEW doc \in Docs, CallRegister(v, ref, doc), v = w,
               NEW old \in Refs, Before(old, ref)
        PROVE  rows[old] # None
    <3>1. phase[Host[w]] = "serving"
      BY <2>2 DEF CallRegister
    <3>2. \A i \in 1 .. Len(Catalog[Host[w]]) : rows[Catalog[Host[w]][i].ref] # None
      BY <1>t, <3>1 DEF IInv, BootProgress, EntryIn
    <3>q. QED
      BY <1>t, <2>2, <3>2 DEF Before
  <2>q. QED
    BY <1>3, <1>4, <1>5, <2>1, <2>2 DEF Calls, CallRegister
<1>6. ASSUME NEW v \in Workers, BootRegister(v)
      PROVE  \/ pc'[w] = pc[w] /\ call'[w] = call[w]
             \/ /\ UNCHANGED rows /\ pc[w] = "idle"
                /\ \A old \in Refs : Before(old, call'[w].ref) => rows[old] # None
  <2> DEFINE r == Host[v]
             next == booted[r] + 1
  <2>1. /\ phase[r] = "booting" /\ booted[r] < Len(Catalog[r]) /\ r \in Replicas
        /\ BeginRegister(v, Catalog[r][next].ref, Catalog[r][next].doc)
    BY <1>6 DEF BootRegister
  <2>2. /\ Catalog[r] \in Seq(Entries) /\ booted[r] \in Nat /\ Len(Catalog[r]) \in Nat
        /\ next \in 1 .. Len(Catalog[r]) /\ Catalog[r][next].ref \in Refs
    <3>1. Catalog[r] \in Seq(Entries) /\ booted[r] \in Nat
      BY <2>1 DEF IInv, TypeOK
    <3>2. Len(Catalog[r]) \in Nat /\ next \in 1 .. Len(Catalog[r])
      BY <2>1, <3>1
    <3>3. Catalog[r][next] \in Entries
      BY <3>1, <3>2
    <3>q. QED
      BY <3>1, <3>2, <3>3 DEF Entries
  <2>3. \A i \in 1 .. booted[r] : rows[Catalog[r][i].ref] # None
    BY <2>1 DEF IInv, BootProgress, EntryIn
  <2>4. ASSUME NEW old \in Refs, Before(old, Catalog[r][next].ref)
        PROVE  rows[old] # None
    <3>1. PICK m \in 1 .. Len(Catalog[r]) :
            /\ Catalog[r][m].ref = old
            /\ \A k \in 1 .. Len(Catalog[r]) : Catalog[r][k].ref = Catalog[r][next].ref => m < k
      BY <2>1, <2>4 DEF Before
    <3>2. m < next
      BY <2>2, <3>1
    <3>q. QED
      BY <2>2, <2>3, <3>1, <3>2
  <2>q. QED
    BY <1>3, <1>4, <2>1, <2>2, <2>4
<1>7. ASSUME NEW r \in Replicas, Exit(r)
      PROVE  pc'[w] = pc[w] /\ call'[w] = call[w]
  BY <1>7 DEF Exit
<1>8. ASSUME NEW v \in Workers, BootAdvance(v)
      PROVE  pc'[w] = pc[w] /\ call'[w] = call[w]
  BY <1>t, <1>8 DEF BootAdvance, Return
<1>9. (\E v \in Workers : BootFail(v)) \/ (\E r \in Replicas : WiringFails(r) \/ Crash(r))
        => \E r \in Replicas : Exit(r)
  BY DEF BootFail, WiringFails, Crash
<1>10. \/ (\E r \in Replicas : Start(r) \/ Serve(r)) \/ (\E key \in Keys : Evict(key))
       \/ (\E ref \in Refs : Archive(ref)) \/ (\E entry \in limbo : Land(entry))
       => pc'[w] = pc[w] /\ call'[w] = call[w]
  BY DEF Start, Serve, Evict, Archive, Land
<1>q. QED
  BY <1>1, <1>2, <1>5, <1>6, <1>7, <1>8, <1>9, <1>10 DEF Next, Boot

(* An INSERT becomes undecided when the call that sent it ends.             *)
LEMMA LimboFromInserts ==
  ASSUME IInv, Next, NEW entry \in limbo', entry \notin limbo
  PROVE  \E w \in Workers : pc[w] = "insert" /\ Submitted(w) = entry
<1>1. ASSUME NEW w \in Workers, InsertFails(w)
      PROVE  pc[w] = "insert" /\ Submitted(w) = entry
  BY <1>1 DEF InsertFails, Store
<1>2. ASSUME NEW r \in Replicas, Exit(r)
      PROVE  \E w \in Workers : pc[w] = "insert" /\ Submitted(w) = entry
  BY <1>2 DEF Exit, Unanswered, WorkersOf
<1>3. \/ \E w \in Workers : InsertFails(w)
      \/ \E r \in Replicas : Exit(r)
  <2>1. ASSUME NEW w \in Workers, Step(w) PROVE InsertFails(w)
    BY <2>1 DEF Step, Insert, Store, Reread, Compare, CacheHit, CacheMiss, Load, SelectFails, Fill,
       CompileStored
  <2>2. ASSUME NEW w \in Workers, Calls(w) \/ Boot(w) PROVE \E r \in Replicas : Exit(r)
    <3>1. Host[w] \in Replicas
      BY RegistryAssumption
    <3>q. QED
      BY <2>2, <3>1 DEF Calls, Boot, CallRegister, BeginRegister, CallRetrieve, CallValidate,
         BootRegister, BootAdvance, BootFail
  <2>q. QED
    BY <2>1, <2>2 DEF Next, Start, Serve, WiringFails, Crash, Evict, Archive, Land, Store
<1>q. QED
  BY <1>1, <1>2, <1>3

LEMMA InTurnStep ==
  ASSUME IInv, OrderOK, SinceOK, InTurn, Next, Numbered, Begun, Sent
  PROVE  InTurn' /\ SinceOK'
<1>1. UNCHANGED rows \/ \E ref \in Refs : StoresOne(ref)
  BY StepStores
<1>2. \A ref \in Refs : rows[ref] # None => rows'[ref] # None
  BY <1>1 DEF StoresOne
<1>3. TypeOK' /\ TypeOK
  BY TypeStep DEF IInv
<1>4. SinceOK'
  BY DEF Sent, SinceOK
<1> SUFFICES ASSUME NEW old \in Refs, NEW new \in Refs, Before(old, new)
             PROVE  /\ rows'[new] # None => (rows'[old] # None /\ <<old, new>> \in order')
                    /\ \A w \in Workers :
                         (pc'[w] = "insert" /\ call'[w].ref = new) =>
                           (rows'[old] # None /\ old \in began'[w])
                    /\ \A entry \in limbo' :
                         entry.ref = new => (rows'[old] # None /\ old \in since'[entry])
  BY <1>4 DEF InTurn, Before
<1>5. ASSUME rows'[new] # None PROVE rows'[old] # None /\ <<old, new>> \in order'
  <2>1. CASE rows[new] # None
    BY <1>1, <1>2, <2>1, OrderStep DEF InTurn
  <2>2. CASE rows[new] = None
    <3>1. \/ \E w \in Workers :
              /\ pc[w] = "insert" /\ call[w].ref = new
              /\ \A x \in began[w] : <<x, new>> \in order'
          \/ \E entry \in limbo :
              /\ entry.ref = new
              /\ \A x \in since[entry] : <<x, new>> \in order'
      BY <1>1, <1>5, <2>2, OrderStep
    <3>q. QED
      BY <1>2, <3>1 DEF InTurn
  <2>q. QED
    BY <2>1, <2>2
<1>6. ASSUME NEW w \in Workers, pc'[w] = "insert", call'[w].ref = new
      PROVE  rows'[old] # None /\ old \in began'[w]
  <2>1. CASE pc[w] = "insert" /\ call'[w] = call[w]
    <3>1. rows[old] # None /\ old \in began[w]
      BY <1>6, <2>1 DEF InTurn
    <3>q. QED
      BY <1>2, <1>6, <2>1, <3>1 DEF Begun
  <2>2. CASE /\ UNCHANGED rows /\ pc[w] = "idle"
             /\ \A o \in Refs : Before(o, call'[w].ref) => rows[o] # None
    <3>1. rows[old] # None
      BY <1>6, <2>2
    <3>q. QED
      BY <1>2, <1>6, <2>2, <3>1 DEF Begun, Stored
  <2>q. QED
    BY <1>6, <2>1, <2>2, InsertsBegin
<1>7. ASSUME NEW entry \in limbo', entry.ref = new
      PROVE  rows'[old] # None /\ old \in since'[entry]
  <2>1. entry \in Entries
    <3>1. entry \in [ref : Refs, doc : Doc]
      BY <1>3 DEF TypeOK
    <3>2. entry.doc \in Docs
      <4>1. CASE entry \in limbo
        BY <4>1, RegistryAssumption DEF IInv, PublishedUsable, Compiles
      <4>2. CASE entry \notin limbo
        <5>1. PICK w \in Workers : pc[w] = "insert" /\ Submitted(w) = entry
          BY <4>2, LimboFromInserts
        <5>q. QED
          BY <5>1, RegistryAssumption DEF IInv, OpenCalls, Submitted
      <4>q. QED
        BY <4>1, <4>2
    <3>q. QED
      BY <3>1, <3>2 DEF Entries
  <2>2. ASSUME NEW w \in Workers, pc[w] = "insert", Submitted(w) = entry
        PROVE  rows[old] # None /\ old \in began[w]
    <3>1. call[w].ref = new
      BY <1>7, <2>2 DEF Submitted
    <3>q. QED
      BY <2>2, <3>1 DEF InTurn
  <2>3. rows[old] # None /\ old \in since[entry]
    <3>1. CASE entry \in limbo
      BY <1>7, <3>1 DEF InTurn
    <3>2. CASE entry \notin limbo
      BY <2>1, <2>2, <3>2, LimboFromInserts DEF SinceOK
    <3>q. QED
      BY <3>1, <3>2
  <2>q. QED
    BY <1>2, <1>7, <2>1, <2>2, <2>3 DEF Sent, InsertEnds
<1>q. QED
  BY <1>5, <1>6, <1>7

-----------------------------------------------------------------------------
(* Every step, and the whole.                                               *)
Listed == IInv /\ OrderOK /\ TableOK

Tracked == SinceOK /\ InTurn

LEMMA ListedInit == ListingInit => Listed /\ Tracked
<1> SUFFICES ASSUME ListingInit PROVE Listed /\ Tracked
  OBVIOUS
<1>1. IInv
  BY InvInit DEF ListingInit
<1>2. /\ rows = [ref \in Refs |-> None] /\ pc = [w \in Workers |-> "idle"] /\ limbo = {}
      /\ order = {} /\ since = [entry \in Entries |-> Refs]
  BY DEF ListingInit, Init
<1>3. Stored = {}
  BY <1>2 DEF Stored
<1>4. OrderOK /\ TableOK
  BY <1>2, <1>3, FS_EmptySet DEF OrderOK, Linear, TableOK
<1>5. Tracked
  BY <1>2 DEF Tracked, SinceOK, InTurn
<1>q. QED
  BY <1>1, <1>4, <1>5 DEF Listed

LEMMA ListedStep ==
  ASSUME PlainKinds, Listed, Tracked, [ListingNext]_registry
  PROVE  Listed' /\ Tracked'
<1>1. CASE UNCHANGED registry
  <2>1. UNCHANGED vars /\ UNCHANGED <<order, began, since, rows, limbo, pc, call>>
    BY <1>1 DEF registry, vars
  <2>2. IInv'
    BY <2>1, InvNext DEF Listed
  <2>3. OrderOK' /\ TableOK'
    BY <2>1 DEF Listed, OrderOK, Linear, TableOK, Stored
  <2>4. Tracked'
    BY <2>1 DEF Tracked, SinceOK, InTurn
  <2>q. QED
    BY <2>2, <2>3, <2>4 DEF Listed
<1>2. CASE ListingNext
  <2>1. Next /\ Numbered /\ Begun /\ Sent
    BY <1>2 DEF ListingNext
  <2>2. IInv'
    BY <2>1, InvNext DEF Listed
  <2>q. QED
    BY <2>1, <2>2, StepStores, OrderStep, TableStep, InTurnStep DEF Listed, Tracked
<1>q. QED
  BY <1>1, <1>2

(* The ids only watch the registry: its own theorems hold with them.        *)
THEOREM RegistryUndisturbed == ListingSpec => Spec
<1>1. ListingInit => Init
  BY DEF ListingInit
<1>2. [ListingNext]_registry => [Next]_vars
  BY DEF ListingNext, registry
<1>q. QED
  BY <1>1, <1>2, PTL DEF ListingSpec, Spec

(* Ids order the rows linearly, whatever interleaves, fails or lands late,  *)
(* and an older built-in version has the lower one.                         *)
THEOREM ListedAlways ==
  ASSUME PlainKinds
  PROVE  ListingSpec => [](Listed /\ InTurn)
<1>1. Listed /\ Tracked /\ [ListingNext]_registry => (Listed /\ Tracked)'
  BY ListedStep
<1>2. Tracked => InTurn
  BY DEF Tracked
<1>q. QED
  BY <1>1, <1>2, ListedInit, PTL DEF ListingSpec

-----------------------------------------------------------------------------
(* What the reads answer.                                                   *)

LEMMA SelectionOK ==
  ASSUME OrderOK, TableOK, NEW S, S \subseteq Stored
  PROVE  IsFiniteSet(S) /\ Linear(S)
<1>1. IsFiniteSet(S)
  BY FS_Subset DEF TableOK
<1>q. QED
  BY <1>1 DEF OrderOK, Linear

(* No version of a replica's catalog is Latest once a later one is live.    *)
LEMMA OlderIsBehind ==
  ASSUME OrderOK, InTurn, NEW old \in Refs, NEW new \in Refs,
         old # new, Before(old, new), old.kind = new.kind, Live(new)
  PROVE  old \notin Latest(old.kind)
<1>1. <<old, new>> \in order
  BY DEF InTurn, Live
<1>2. new \in NotOlder(old, LiveOf(old.kind))
  BY <1>1 DEF NotOlder, LiveOf
<1>q. QED
  BY <1>2 DEF Latest

(* In a rolling deploy whose builds append to the catalog, a serving        *)
(* replica's Latest is never an older version of its own catalog, however   *)
(* boots, publications and crashes interleave.                              *)
THEOREM LatestIsTheNewest ==
  ASSUME PlainKinds, BuildsExtend
  PROVE  ListingSpec => []LatestFollowsTheDeploy
<1>1. ASSUME Listed, InTurn PROVE LatestFollowsTheDeploy
  <2> SUFFICES ASSUME NEW r \in Replicas, NEW i \in 1 .. Len(Catalog[r]),
                      NEW j \in 1 .. Len(Catalog[r]), i < j,
                      Catalog[r][i].ref.kind = Catalog[r][j].ref.kind, Live(Catalog[r][j].ref)
               PROVE  Catalog[r][i].ref \notin Latest(Catalog[r][i].ref.kind)
    BY DEF LatestFollowsTheDeploy
  <2> DEFINE old == Catalog[r][i].ref
             new == Catalog[r][j].ref
  <2>1. Before(old, new)
    BY DEF BuildsExtend
  <2>2. old # new
    <3>1. PICK m \in 1 .. Len(Catalog[r]) :
            /\ Catalog[r][m].ref = old
            /\ \A k \in 1 .. Len(Catalog[r]) : Catalog[r][k].ref = new => m < k
      BY <2>1 DEF Before
    <3>2. ~ (m < m)
      OBVIOUS
    <3>q. QED
      BY <3>1, <3>2
  <2>3. old \in Refs /\ new \in Refs
    <3>1. Catalog[r] \in Seq(Entries)
      BY RegistryAssumption
    <3>2. Catalog[r][i] \in Entries /\ Catalog[r][j] \in Entries
      BY <3>1
    <3>q. QED
      BY <3>2 DEF Entries
  <2>q. QED
    BY <1>1, <2>1, <2>2, <2>3, OlderIsBehind DEF Listed
<1>q. QED
  BY <1>1, ListedAlways, PTL

(* Latest is the first of List.                                             *)
LEMMA LatestIsFirst ==
  ASSUME Listed, NEW kind, kind # Empty
  PROVE  Latest(kind) = IF List(kind) = <<>> THEN {} ELSE {List(kind)[1]}
<1> DEFINE S == LiveOf(kind)
           listed == List(kind)
<1>1. {ref \in Refs : Live(ref) /\ (kind = Empty \/ ref.kind = kind)} = S
  BY DEF LiveOf
<1>2. listed = NewestFirst(S)
  BY <1>1 DEF List
<1>3. IsFiniteSet(S) /\ Linear(S)
  BY SelectionOK DEF LiveOf, Stored, Live, Listed
<1>4. Cardinality(S) \in Nat /\ (Cardinality(S) = 0 <=> S = {})
  BY <1>3, FS_CardinalityType, FS_EmptySet
<1>5. CASE S = {}
  <2>1. Latest(kind) = {}
    BY <1>5 DEF Latest
  <2>2. listed = <<>>
    <3>1. 1 .. Cardinality(S) = {}
      BY <1>4, <1>5
    <3>2. listed = [n \in {} |-> CHOOSE x \in S : Cardinality(NotOlder(x, S)) = n]
      BY <1>2, <3>1 DEF NewestFirst
    <3>q. QED
      BY <3>2
  <2>q. QED
    BY <2>1, <2>2
<1>6. CASE S # {}
  <2>1. PICK x \in S : NotOlder(x, S) = {x}
    BY <1>3, <1>6, NewestExists
  <2>2. Cardinality(NotOlder(x, S)) = 1
    BY <2>1, FS_Singleton
  <2>3. 1 \in 1 .. Cardinality(S)
    BY <1>4, <1>6
  <2>4. listed[1] \in S /\ Cardinality(NotOlder(listed[1], S)) = 1
    BY <1>2, <2>2, <2>3 DEF NewestFirst
  <2>5. listed[1] = x
    BY <1>3, <2>2, <2>4, Positions
  <2>6. \A y \in S : NotOlder(y, S) = {y} => y = x
    <3>1. \A y \in S : NotOlder(y, S) = {y} => Cardinality(NotOlder(y, S)) = 1
      BY FS_Singleton
    <3>q. QED
      BY <1>3, <2>2, <3>1, Positions
  <2>7. Latest(kind) = {x}
    BY <2>1, <2>6 DEF Latest
  <2>8. DOMAIN listed = 1 .. Cardinality(S)
    BY <1>2 DEF NewestFirst
  <2>9. listed # <<>>
    <3>1. ASSUME NEW list, list = <<>> PROVE 1 \notin DOMAIN list
      BY <3>1
    <3>2. 1 \in DOMAIN listed
      BY <2>3, <2>8
    <3> HIDE DEF listed
    <3>q. QED
      BY <3>1, <3>2
  <2>q. QED
    BY <2>5, <2>7, <2>9
<1>q. QED
  BY <1>5, <1>6

(* List and Latest never contradict each other, nor an answered             *)
(* registration.                                                            *)
THEOREM ReadsAlwaysAgree ==
  ASSUME PlainKinds
  PROVE  ListingSpec => []ReadsAgree
<1>1. ASSUME Listed PROVE ReadsAgree
  <2>1. ASSUME NEW w \in Workers, call[w].op = "register", status[w] = "ok",
               call[w].ref \notin archived
        PROVE  \E n \in DOMAIN List(Empty) : List(Empty)[n] = call[w].ref
    <3> DEFINE S == {ref \in Refs : Live(ref)}
    <3>1. List(Empty) = NewestFirst(S)
      BY DEF List
    <3>2. IsFiniteSet(S) /\ Linear(S)
      BY <1>1, SelectionOK DEF Stored, Live, Listed
    <3>3. call[w].ref \in Refs
      BY <1>1 DEF Listed, IInv, TypeOK
    <3>4. call[w].ref \in S
      BY <1>1, <2>1, <3>3 DEF Listed, IInv, AnswersTrue, AnswerTrue, RegisterAnswer, Live
    <3>5. DOMAIN NewestFirst(S) = 1 .. Cardinality(S)
      BY DEF NewestFirst
    <3>6. \A x \in S : \E n \in 1 .. Cardinality(S) : NewestFirst(S)[n] = x
      BY <3>2, ListsInOrder
    <3>q. QED
      BY <3>1, <3>4, <3>5, <3>6
  <2>q. QED
    BY <1>1, <2>1, LatestIsFirst DEF ReadsAgree
<1>q. QED
  BY <1>1, ListedAlways, PTL

(* List shows every live row of what it was asked for once, and a row with  *)
(* a higher id before one with a lower.                                     *)
ListNewestFirst ==
  \A kind \in {Empty} \cup {ref.kind : ref \in Refs} :
    LET listed == List(kind)
        shown == {ref \in Refs : Live(ref) /\ (kind = Empty \/ ref.kind = kind)} IN
    /\ listed \in [1 .. Cardinality(shown) -> shown]
    /\ \A ref \in shown : \E n \in DOMAIN listed : listed[n] = ref
    /\ \A m, n \in DOMAIN listed :
         m < n => listed[m] # listed[n] /\ <<listed[n], listed[m]>> \in order

THEOREM ListIsInOrder ==
  ASSUME PlainKinds
  PROVE  ListingSpec => []ListNewestFirst
<1>1. ASSUME Listed PROVE ListNewestFirst
  <2> SUFFICES ASSUME NEW kind
               PROVE  LET listed == List(kind)
                          shown == {ref \in Refs : Live(ref) /\ (kind = Empty \/ ref.kind = kind)} IN
                      /\ listed \in [1 .. Cardinality(shown) -> shown]
                      /\ \A ref \in shown : \E n \in DOMAIN listed : listed[n] = ref
                      /\ \A m, n \in DOMAIN listed :
                           m < n => listed[m] # listed[n] /\ <<listed[n], listed[m]>> \in order
    BY DEF ListNewestFirst
  <2> DEFINE shown == {ref \in Refs : Live(ref) /\ (kind = Empty \/ ref.kind = kind)}
  <2>1. IsFiniteSet(shown) /\ Linear(shown)
    BY <1>1, SelectionOK DEF Stored, Live, Listed
  <2>2. List(kind) = NewestFirst(shown) /\ DOMAIN NewestFirst(shown) = 1 .. Cardinality(shown)
    BY DEF List, NewestFirst
  <2>3. LET list == NewestFirst(shown) IN
        /\ list \in [1 .. Cardinality(shown) -> shown]
        /\ \A x \in shown : \E n \in 1 .. Cardinality(shown) : list[n] = x
        /\ \A m, n \in 1 .. Cardinality(shown) :
             m < n => list[m] # list[n] /\ <<list[n], list[m]>> \in order
    BY <2>1, ListsInOrder
  <2>q. QED
    BY <2>2, <2>3
<1>q. QED
  BY <1>1, ListedAlways, PTL
=============================================================================
