---------------------------- MODULE SchemaListing ----------------------------
(***************************************************************************)
(* The registry's reads over many versions, Latest and List, which order   *)
(* the rows of job_schemas by their id column.  An INSERT draws its id     *)
(* while it runs and its row is visible when it is done, so that ids are   *)
(* drawn in another order than rows appear: the id is higher than those of *)
(* the rows that were there when the INSERT began, and may be higher or    *)
(* lower than that of a row stored since.  An INSERT that is undecided     *)
(* still has the id it drew when it began.                                 *)
(*                                                                         *)
(* Either read is one SELECT and changes nothing: it is an operator on the *)
(* table, whose value in a state is what the SELECT answers there.         *)
(***************************************************************************)
EXTENDS SchemaRegistry, FiniteSets

VARIABLES
  order,   \* <<x, y>>: the row of x has an id no higher than that of y
  began,   \* began[w]: the rows there were when w's INSERT began
  since    \* since[e]: those there were when the undecided INSERT e began

registry == <<vars, order, began, since>>

Stored == {ref \in Refs : rows[ref] # None}

(* A row appears, from an INSERT that began when there were the given rows: *)
(* its id comes anywhere above theirs.                                      *)
Place(ref, earlier) ==
  \E older \in SUBSET Stored :
    /\ earlier \subseteq older
    /\ \A x \in older, y \in Stored \ older : <<x, y>> \in order
    /\ order' = order \cup ((older \cup {ref}) \X {ref}) \cup ({ref} \X (Stored \ older))

Appears(ref) == rows'[ref] # rows[ref]

InsertEnds(w) == pc[w] = "insert" /\ pc'[w] # "insert"

Lands(entry) == entry \in limbo /\ Appears(entry.ref) /\ UNCHANGED pc

Numbered ==
  \/ UNCHANGED rows /\ UNCHANGED order
  \/ \E w \in Workers :
       InsertEnds(w) /\ Appears(call[w].ref) /\ Place(call[w].ref, began[w])
  \/ \E entry \in limbo :
       Lands(entry) /\ rows'[entry.ref] = entry.doc /\ Place(entry.ref, since[entry])

(* What a running INSERT began after; Refs stands for no INSERT.            *)
Begun ==
  began' = [w \in Workers |->
              IF pc'[w] # "insert" THEN Refs
              ELSE IF pc[w] = "insert" THEN began[w] ELSE Stored]

(* Of alike undecided INSERTs, either of which may store the row, the one   *)
(* that began first leaves the choice of the other.                         *)
Sent ==
  since' = [entry \in Entries |->
              IF entry \notin limbo' THEN Refs
              ELSE {ref \in since[entry] :
                      \A w \in Workers :
                        (InsertEnds(w) /\ Submitted(w) = entry) => ref \in began[w]}]

ListingInit ==
  /\ Init
  /\ order = {}
  /\ began = [w \in Workers |-> Refs]
  /\ since = [entry \in Entries |-> Refs]

ListingNext == Next /\ Numbered /\ Begun /\ Sent

ListingSpec == ListingInit /\ [][ListingNext]_registry

-----------------------------------------------------------------------------
(* Those of S that are no older than x.                                     *)
NotOlder(x, S) == {y \in S : <<x, y>> \in order}

(* ORDER BY id DESC                                                         *)
NewestFirst(S) ==
  [n \in 1 .. Cardinality(S) |-> CHOOSE x \in S : Cardinality(NotOlder(x, S)) = n]

(* Mutant: List shows retired versions too.                                 *)
ListRetired(kind) ==
  NewestFirst({ref \in Refs : rows[ref] # None /\ (kind = Empty \/ ref.kind = kind)})

(* Schemas.List: the live rows of a kind, or of all of them, newest first.  *)
List(kind) ==
  NewestFirst({ref \in Refs : Live(ref) /\ (kind = Empty \/ ref.kind = kind)})

LiveOf(kind) == {ref \in Refs : Live(ref) /\ ref.kind = kind}

(* Mutant: ascending instead of descending.                                 *)
OldestOf(kind) == {x \in LiveOf(kind) : NotOlder(x, LiveOf(kind)) = LiveOf(kind)}

(* Schemas.Latest: the live row of a kind that has the highest id, if any.  *)
Latest(kind) == {x \in LiveOf(kind) : NotOlder(x, LiveOf(kind)) = {x}}

-----------------------------------------------------------------------------
(* old comes before new in the catalog of every build that ships new, and   *)
(* no build lacks old.                                                      *)
Before(old, new) ==
  \A s \in Replicas :
    \E m \in 1 .. Len(Catalog[s]) :
      /\ Catalog[s][m].ref = old
      /\ \A k \in 1 .. Len(Catalog[s]) : Catalog[s][k].ref = new => m < k

(* catalog.go:11-15: a frozen version is not edited, "the answer is almost   *)
(* always to add a new version", so that the builds of a rolling deploy      *)
(* differ in what they append.  Nothing enforces it, so it is a hypothesis   *)
(* and not an assumption.                                                    *)
BuildsExtend ==
  \A r \in Replicas : \A i, j \in 1 .. Len(Catalog[r]) :
    (i < j /\ Catalog[r][i].ref.kind = Catalog[r][j].ref.kind)
      => Before(Catalog[r][i].ref, Catalog[r][j].ref)

(* In a rolling deploy a replica that serves finds the newest version of    *)
(* each kind its build ships, or one that came later, to be the latest:     *)
(* whichever replicas booted, died or published at the same time, no older  *)
(* version of its own catalog is (Bootstrap, Latest).                       *)
LatestFollowsTheDeploy ==
  \A r \in Replicas :
    phase[r] = "serving" =>
      \A i, j \in 1 .. Len(Catalog[r]) :
        LET old == Catalog[r][i].ref
            new == Catalog[r][j].ref IN
        (i < j /\ old.kind = new.kind /\ Live(new)) => old \notin Latest(old.kind)

(* List and Latest, which are two queries, agree on which version is the    *)
(* newest, and both show a version as soon as its registration was answered *)
(* (Schemas.List, Schemas.Latest, Register).                                *)
ReadsAgree ==
  /\ \A ref \in Refs :
       LET listed == List(ref.kind) IN
       ref.kind # Empty => Latest(ref.kind) = IF listed = <<>> THEN {} ELSE {listed[1]}
  /\ \A w \in Workers :
       LET ref == call[w].ref IN
       (call[w].op = "register" /\ status[w] = "ok" /\ ref \notin archived)
         => \E n \in DOMAIN List(Empty) : List(Empty)[n] = ref
=============================================================================
