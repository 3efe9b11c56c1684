-------------------------- MODULE SchemaRegistry --------------------------
(***************************************************************************)
(* The job payload schema registry (internal/core/jobs/schemas) running on *)
(* several replicas over one job_schemas table and one Redis cache.        *)
(*                                                                         *)
(* A worker is a goroutine serving one call at a time on a replica: the    *)
(* HTTP handlers, the payload validation, and Bootstrap, which runs the    *)
(* same Register before the replica serves.  Every SQL statement and every *)
(* Redis command is a step of its own, so calls interleave between them;   *)
(* each may fail, and a replica may die between any two.  An INSERT commits *)
(* by itself: one whose caller got an error instead of an answer, or died,  *)
(* is undecided, and the server may still apply it at any later time.       *)
(***************************************************************************)
EXTENDS Naturals, Sequences

CONSTANTS
  Replicas,     \* server processes
  Workers,      \* goroutines that serve calls
  Host,         \* Host[w]: the replica w runs on
  Refs,         \* schema references: [kind, version] records of strings
  Docs,         \* submitted documents, distinguished by their exact value
  None,         \* no document
  Usable,       \* the documents the JSON Schema compiler accepts
  Decodable,    \* the documents encoding/json can decode (all numbers fit float64)
  Image,        \* Image[d]: d with every number rounded to float64
  Catalog,      \* Catalog[r]: the built-in [ref, doc] sequence of r's build
  Archivable    \* the versions an operator may retire (archived_at)

(* A string is the sequence of its parts between the separators "/", so    *)
(* the empty string is <<"">>.  SchemaRef.String, which is also the Redis  *)
(* key, joins the kind and the version with one more separator.            *)
Empty == <<"">>
IsComplete(ref) == ref.kind # Empty /\ ref.version # Empty
Key(ref) == ref.kind \o ref.version
Keys == {Key(ref) : ref \in Refs}

Entries == [ref : Refs, doc : Docs]

ASSUME RegistryAssumption ==
  /\ Host \in [Workers -> Replicas]
  /\ None \notin Docs
  /\ Usable \subseteq Docs
  /\ Decodable \subseteq Docs
  /\ DOMAIN Image = Docs
  /\ Catalog \in [Replicas -> Seq(Entries)]
  /\ Archivable \subseteq Refs

ASSUME RefAssumption == Refs \subseteq [kind : Seq(STRING), version : Seq(STRING)]

VARIABLES
  rows,         \* job_schemas: rows[ref] is the stored document, or None
  limbo,        \* the undecided INSERTs that could still store a row
  archived,     \* the references whose row has archived_at set
  cache,        \* Redis: cache[key] is the document cached under key, or None
  compiled,     \* UseCase.compiled of each replica: the document compiled, or None
  phase,        \* main.run of each replica: "down", "booting" or "serving"
  booted,       \* catalog entries the current boot has published
  pc,           \* where in its call each worker is
  call,         \* the call each worker serves or served last
  held,         \* the document a worker's call read, or None
  status,       \* "none", "pending", or how the last call ended
  seen          \* history: the reference was live when the call began

memory == <<compiled, phase, booted>>
vars == <<rows, limbo, archived, cache, compiled, phase, booted, pc, call, held, status, seen>>

Ops == {"register", "retrieve", "validate"}
PCs == {"idle", "insert", "reread", "compare", "cache", "load", "fill", "compile"}
Answers == {"ok", "invalid_ref", "invalid_schema", "immutable", "uncomparable",
            "not_found", "failed"}

Live(ref) == rows[ref] # None /\ ref \notin archived

(* sameDocument: both documents decode and their decoded values are equal.  *)
BothDecode(d, e) == d \in Decodable /\ e \in Decodable
Same(d, e) == BothDecode(d, e) /\ Image[d] = Image[e]

(* compile: the document is a JSON Schema.                                  *)
Compiles(d) == d \in Usable

NothingCompiled == [ref \in Refs |-> None]
WorkersOf(r) == {w \in Workers : Host[w] = r}

Init ==
  /\ rows = [ref \in Refs |-> None]
  /\ limbo = {}
  /\ archived = {}
  /\ cache = [key \in Keys |-> None]
  /\ compiled = [r \in Replicas |-> NothingCompiled]
  /\ phase = [r \in Replicas |-> "down"]
  /\ booted = [r \in Replicas |-> 0]
  /\ pc = [w \in Workers |-> "idle"]
  /\ call \in {[w \in Workers |-> [op |-> "retrieve", ref |-> ref, doc |-> None]] : ref \in Refs}
  /\ held = [w \in Workers |-> None]
  /\ status = [w \in Workers |-> "none"]
  /\ seen = [w \in Workers |-> FALSE]

-----------------------------------------------------------------------------
(* How a call moves on or ends.                                             *)

Goto(w, label, doc) ==
  /\ pc' = [pc EXCEPT ![w] = label]
  /\ held' = [held EXCEPT ![w] = doc]
  /\ status' = [status EXCEPT ![w] = "pending"]

Return(w, answer, doc) ==
  /\ pc' = [pc EXCEPT ![w] = "idle"]
  /\ held' = [held EXCEPT ![w] = doc]
  /\ status' = [status EXCEPT ![w] = answer]

Begin(w, op, ref, doc) ==
  /\ pc[w] = "idle"
  /\ call' = [call EXCEPT ![w] = [op |-> op, ref |-> ref, doc |-> doc]]
  /\ seen' = [seen EXCEPT ![w] = Live(ref)]

PutCompiled(w, doc) ==
  compiled' = [compiled EXCEPT ![Host[w]][call[w].ref] = doc]

-----------------------------------------------------------------------------
(* UseCase.Register.  The reference and the document are checked before     *)
(* anything is stored.                                                      *)
BeginRegister(w, ref, doc) ==
  /\ Begin(w, "register", ref, doc)
  /\ IF ~IsComplete(ref) THEN Return(w, "invalid_ref", None)
     ELSE IF ~Compiles(doc) THEN Return(w, "invalid_schema", None)
     ELSE Goto(w, "insert", None)
  /\ UNCHANGED <<rows, limbo, archived, cache, memory>>

CallRegister(w, ref, doc) ==
  /\ phase[Host[w]] = "serving"
  /\ BeginRegister(w, ref, doc)

(* Mutant: the insert is an upsert.                                         *)
StoreUpserts(ref, doc) ==
  /\ rows' = [rows EXCEPT ![ref] = doc]
  /\ limbo' = {entry \in limbo : entry.ref # ref}

(* INSERT ... ON CONFLICT (kind, version) DO NOTHING.  Once the reference   *)
(* has a row no other INSERT of it can do anything, undecided or not.       *)
Store(ref, doc) ==
  /\ rows' = [rows EXCEPT ![ref] = IF rows[ref] = None THEN doc ELSE rows[ref]]
  /\ limbo' = {entry \in limbo : entry.ref # ref}

Submitted(w) == [ref |-> call[w].ref, doc |-> call[w].doc]

Insert(w) ==
  /\ pc[w] = "insert"
  /\ Store(call[w].ref, call[w].doc)
  /\ Goto(w, "reread", None)
  /\ UNCHANGED <<archived, cache, memory, call, seen>>

(* The statement errors: it took effect, it never does, or it is undecided. *)
InsertFails(w) ==
  /\ pc[w] = "insert"
  /\ \/ Store(call[w].ref, call[w].doc)
     \/ UNCHANGED <<rows, limbo>>
     \/ /\ rows[call[w].ref] = None
        /\ limbo' = limbo \cup {Submitted(w)}
        /\ UNCHANGED rows
  /\ Return(w, "failed", None)
  /\ UNCHANGED <<archived, cache, memory, call, seen>>

(* The server applies an undecided INSERT after all.                        *)
Land(entry) ==
  /\ entry \in limbo
  /\ Store(entry.ref, entry.doc)
  /\ UNCHANGED <<archived, cache, memory, pc, call, held, status, seen>>

(* Mutant: Register hands back what it was given, not what is stored.       *)
RereadEchoes(w) ==
  /\ pc[w] = "reread"
  /\ Goto(w, "compare", call[w].doc)
  /\ UNCHANGED <<rows, limbo, archived, cache, memory, call, seen>>

(* repository.Schemas.Get as Register's second statement.                   *)
Reread(w) ==
  /\ pc[w] = "reread"
  /\ IF Live(call[w].ref) THEN Goto(w, "compare", rows[call[w].ref])
     ELSE Return(w, "not_found", None)
  /\ UNCHANGED <<rows, limbo, archived, cache, memory, call, seen>>

(* Mutant: the compiled document is kept before it is compared.             *)
CompareKeepsFirst(w) ==
  LET doc == call[w].doc IN
  /\ pc[w] = "compare"
  /\ PutCompiled(w, doc)
  /\ IF Same(held[w], doc) THEN Goto(w, "fill", held[w])
     ELSE IF BothDecode(held[w], doc) THEN Return(w, "immutable", None)
     ELSE Return(w, "uncomparable", None)
  /\ UNCHANGED <<rows, limbo, archived, cache, phase, booted, call, seen>>

(* The stored row against the submitted document; the SUBMITTED document's  *)
(* compiled form is the one kept.                                           *)
Compare(w) ==
  LET doc == call[w].doc IN
  /\ pc[w] = "compare"
  /\ IF Same(held[w], doc)
     THEN PutCompiled(w, doc) /\ Goto(w, "fill", held[w])
     ELSE /\ UNCHANGED compiled
          /\ IF BothDecode(held[w], doc)
             THEN Return(w, "immutable", None)
             ELSE Return(w, "uncomparable", None)
  /\ UNCHANGED <<rows, limbo, archived, cache, phase, booted, call, seen>>

-----------------------------------------------------------------------------
(* UseCase.Retrieve, and UseCase.Validate, which starts at the replica's    *)
(* compiled schemas and otherwise retrieves and compiles.                   *)
CallRetrieve(w, ref) ==
  /\ phase[Host[w]] = "serving"
  /\ Begin(w, "retrieve", ref, None)
  /\ Goto(w, "cache", None)
  /\ UNCHANGED <<rows, limbo, archived, cache, memory>>

CallValidate(w, ref) ==
  /\ phase[Host[w]] = "serving"
  /\ Begin(w, "validate", ref, None)
  /\ IF compiled[Host[w]][ref] # None THEN Return(w, "ok", compiled[Host[w]][ref])
     ELSE Goto(w, "cache", None)
  /\ UNCHANGED <<rows, limbo, archived, cache, memory>>

(* A retrieval that has its document returns it; a validation compiles it.  *)
Retrieved(w, doc) ==
  IF call[w].op = "validate" THEN Goto(w, "compile", doc) ELSE Return(w, "ok", doc)

CacheHit(w) ==
  /\ pc[w] = "cache"
  /\ cache[Key(call[w].ref)] # None
  /\ Retrieved(w, cache[Key(call[w].ref)])
  /\ UNCHANGED <<rows, limbo, archived, cache, memory, call, seen>>

(* A miss, an unreadable entry, a Redis error, or no cache configured.      *)
CacheMiss(w) ==
  /\ pc[w] = "cache"
  /\ Goto(w, "load", None)
  /\ UNCHANGED <<rows, limbo, archived, cache, memory, call, seen>>

(* Mutant: a cache miss is taken for an unpublished reference.              *)
LoadTrustsCache(w) ==
  /\ pc[w] = "load"
  /\ Return(w, "not_found", None)
  /\ UNCHANGED <<rows, limbo, archived, cache, memory, call, seen>>

Load(w) ==
  /\ pc[w] = "load"
  /\ IF Live(call[w].ref) THEN Goto(w, "fill", rows[call[w].ref])
     ELSE Return(w, "not_found", None)
  /\ UNCHANGED <<rows, limbo, archived, cache, memory, call, seen>>

(* Mutant: an error of a class no caller knows.                             *)
SelectFailsUnclassified(w) ==
  /\ pc[w] \in {"reread", "load"}
  /\ Return(w, "error", None)
  /\ UNCHANGED <<rows, limbo, archived, cache, memory, call, seen>>

(* A SELECT of either path errors.                                          *)
SelectFails(w) ==
  /\ pc[w] \in {"reread", "load"}
  /\ Return(w, "failed", None)
  /\ UNCHANGED <<rows, limbo, archived, cache, memory, call, seen>>

(* Schemas.Put: one SET, which takes effect or does not.                    *)
PutCached(w) ==
  cache' = [cache EXCEPT ![Key(call[w].ref)] = held[w]] \/ UNCHANGED cache

(* Mutant: the submitted document is cached instead of the stored one.      *)
FillPutsSubmitted(w) ==
  /\ pc[w] = "fill"
  /\ cache' = [cache EXCEPT ![Key(call[w].ref)] =
                 IF call[w].op = "register" THEN call[w].doc ELSE held[w]]
  /\ Retrieved(w, held[w])
  /\ UNCHANGED <<rows, limbo, archived, memory, call, seen>>

(* Mutant: a failed write to Redis sends the call back to the table.        *)
FillRetries(w) ==
  /\ pc[w] = "fill"
  /\ \/ cache' = [cache EXCEPT ![Key(call[w].ref)] = held[w]] /\ Retrieved(w, held[w])
     \/ UNCHANGED cache /\ Goto(w, "load", None)
  /\ UNCHANGED <<rows, limbo, archived, memory, call, seen>>

(* putCached: a failed write to Redis is only logged.                       *)
Fill(w) ==
  /\ pc[w] = "fill"
  /\ PutCached(w)
  /\ Retrieved(w, held[w])
  /\ UNCHANGED <<rows, limbo, archived, memory, call, seen>>

CompileStored(w) ==
  /\ pc[w] = "compile"
  /\ IF Compiles(held[w])
     THEN PutCompiled(w, held[w]) /\ Return(w, "ok", held[w])
     ELSE UNCHANGED compiled /\ Return(w, "invalid_schema", None)
  /\ UNCHANGED <<rows, limbo, archived, cache, phase, booted, call, seen>>

-----------------------------------------------------------------------------
(* main.run: Bootstrap registers the catalog in order, before any transport *)
(* is started; the first failure ends the process.                          *)

AtRest(r) == \A w \in WorkersOf(r) : pc[w] = "idle" /\ status[w] = "none"

Start(r) ==
  /\ phase[r] = "down"
  /\ phase' = [phase EXCEPT ![r] = "booting"]
  /\ booted' = [booted EXCEPT ![r] = 0]
  /\ UNCHANGED <<rows, limbo, archived, cache, compiled, pc, call, held, status, seen>>

BootRegister(w) ==
  LET r == Host[w]
      entry == Catalog[r][booted[r] + 1] IN
  /\ phase[r] = "booting" /\ AtRest(r)
  /\ booted[r] < Len(Catalog[r])
  /\ BeginRegister(w, entry.ref, entry.doc)

(* Mutant: Bootstrap skips an entry the table disagrees with.               *)
BootAdvanceSkips(w) ==
  LET r == Host[w] IN
  /\ phase[r] = "booting"
  /\ pc[w] = "idle" /\ status[w] \in {"ok", "immutable"}
  /\ booted' = [booted EXCEPT ![r] = @ + 1]
  /\ Return(w, "none", None)
  /\ UNCHANGED <<rows, limbo, archived, cache, compiled, phase, call, seen>>

BootAdvance(w) ==
  LET r == Host[w] IN
  /\ phase[r] = "booting"
  /\ pc[w] = "idle" /\ status[w] = "ok"
  /\ booted' = [booted EXCEPT ![r] = @ + 1]
  /\ Return(w, "none", None)
  /\ UNCHANGED <<rows, limbo, archived, cache, compiled, phase, call, seen>>

Serve(r) ==
  /\ phase[r] = "booting" /\ AtRest(r)
  /\ booted[r] = Len(Catalog[r])
  /\ phase' = [phase EXCEPT ![r] = "serving"]
  /\ UNCHANGED <<rows, limbo, archived, cache, compiled, booted, pc, call, held, status, seen>>

(* The INSERTs under way on r that could still store a row.                 *)
Unanswered(r) ==
  {Submitted(w) : w \in {v \in WorkersOf(r) : pc[v] = "insert" /\ rows[call[v].ref] = None}}

(* The process ends and takes its memory and its open calls with it; any of *)
(* its INSERTs under way may have reached the server.                       *)
Exit(r) ==
  /\ phase' = [phase EXCEPT ![r] = "down"]
  /\ compiled' = [compiled EXCEPT ![r] = NothingCompiled]
  /\ pc' = [w \in Workers |-> IF Host[w] = r THEN "idle" ELSE pc[w]]
  /\ status' = [w \in Workers |-> IF Host[w] = r THEN "none" ELSE status[w]]
  /\ held' = [w \in Workers |-> IF Host[w] = r THEN None ELSE held[w]]
  /\ \E sent \in SUBSET Unanswered(r) : limbo' = limbo \cup sent
  /\ UNCHANGED <<rows, archived, cache, booted, call, seen>>

(* Mutant: a failed entry is tried again for as long as it fails.           *)
BootFailRetries(w) ==
  /\ phase[Host[w]] = "booting"
  /\ pc[w] = "idle" /\ status[w] \in Answers \ {"ok"}
  /\ Return(w, "none", None)
  /\ UNCHANGED <<rows, limbo, archived, cache, memory, call, seen>>

BootFail(w) ==
  /\ phase[Host[w]] = "booting"
  /\ pc[w] = "idle" /\ status[w] \in Answers \ {"ok"}
  /\ Exit(Host[w])

(* What run constructs after Bootstrap fails: the queue's database cannot   *)
(* be reached, or a part refuses its configuration.                         *)
WiringFails(r) ==
  /\ phase[r] = "booting" /\ AtRest(r)
  /\ booted[r] = Len(Catalog[r])
  /\ Exit(r)

Crash(r) == phase[r] # "down" /\ Exit(r)

-----------------------------------------------------------------------------
(* Redis drops an entry: its TTL ran out, or memory did.                    *)
Evict(key) ==
  /\ cache[key] # None
  /\ cache' = [cache EXCEPT ![key] = None]
  /\ UNCHANGED <<rows, limbo, archived, memory, pc, call, held, status, seen>>

(* An operator sets archived_at by hand; no code of the server does.        *)
Archive(ref) ==
  /\ ref \in Archivable /\ Live(ref)
  /\ archived' = archived \cup {ref}
  /\ UNCHANGED <<rows, limbo, cache, memory, pc, call, held, status, seen>>

-----------------------------------------------------------------------------
Step(w) ==
  \/ Insert(w) \/ InsertFails(w) \/ Reread(w) \/ Compare(w)
  \/ CacheHit(w) \/ CacheMiss(w) \/ Load(w) \/ SelectFails(w)
  \/ Fill(w) \/ CompileStored(w)

Calls(w) ==
  \/ \E ref \in Refs, doc \in Docs : CallRegister(w, ref, doc)
  \/ \E ref \in Refs : CallRetrieve(w, ref) \/ CallValidate(w, ref)

Boot(w) == BootRegister(w) \/ BootAdvance(w) \/ BootFail(w)

Next ==
  \/ \E w \in Workers : Step(w) \/ Calls(w) \/ Boot(w)
  \/ \E r \in Replicas : Start(r) \/ Serve(r) \/ WiringFails(r) \/ Crash(r)
  \/ \E entry \in limbo : Land(entry)
  \/ \E key \in Keys : Evict(key)
  \/ \E ref \in Refs : Archive(ref)

Spec == Init /\ [][Next]_vars

(* A goroutine that can run runs.  A statement may have to wait for one of  *)
(* the pool's connections or for another's uncommitted row, but not for     *)
(* ever: a connection serves one statement at a time, and the clients put a *)
(* deadline on dialling, on writing and on reading the answer.              *)
Fairness ==
  /\ \A w \in Workers : WF_vars(Step(w)) /\ WF_vars(Boot(w))
  /\ \A r \in Replicas : WF_vars(Serve(r))

FairSpec == Spec /\ Fairness

-----------------------------------------------------------------------------
Doc == Docs \cup {None}

(* Every variable stays in its range.                                       *)
TypeOK ==
  /\ rows \in [Refs -> Doc]
  /\ limbo \subseteq [ref : Refs, doc : Doc]
  /\ archived \subseteq Refs
  /\ cache \in [Keys -> Doc]
  /\ compiled \in [Replicas -> [Refs -> Doc]]
  /\ phase \in [Replicas -> {"down", "booting", "serving"}]
  /\ booted \in [Replicas -> Nat]
  /\ pc \in [Workers -> PCs]
  /\ call \in [Workers -> [op : Ops, ref : Refs, doc : Doc]]
  /\ held \in [Workers -> Doc]
  /\ status \in [Workers -> {"none", "pending"} \cup Answers]
  /\ seen \in [Workers -> BOOLEAN]

(* domain/schemas.go:24-25, "A Kind never contains one [separator]": what    *)
(* makes the references, and with them the Redis keys, unambiguous.  Nothing *)
(* enforces it, so it is a hypothesis and not an assumption.                 *)
PlainKinds == \A ref \in Refs : Len(ref.kind) = 1

(* Two documents the registry takes for one contract.                       *)
Agree(d, e) == d = e \/ Same(d, e)

(* What Redis serves for a reference is the row of job_schemas, whatever    *)
(* calls, failures and crashes led to the entry (repository.go: "a cached   *)
(* document cannot go stale").                                              *)
CacheCoherent ==
  \A ref \in Refs : cache[Key(ref)] # None => cache[Key(ref)] = rows[ref]

(* What a replica validates payloads with is a published contract: nothing  *)
(* is compiled under a reference before its row exists, and the compiled    *)
(* document is one sameDocument equates with the row (Register, compiledFor).*)
CompiledPublished ==
  \A r \in Replicas, ref \in Refs :
    compiled[r][ref] # None => (rows[ref] # None /\ Agree(rows[ref], compiled[r][ref]))

(* A replica serves only after every built-in contract of its build is in   *)
(* the table, as this build knows it, and compiled in its memory; a build   *)
(* whose catalog disagrees with the table never serves (Bootstrap).         *)
ServingBuildAgrees ==
  \A r \in Replicas :
    phase[r] = "serving" =>
      \A i \in 1 .. Len(Catalog[r]) :
        LET entry == Catalog[r][i] IN
        /\ rows[entry.ref] # None /\ Same(rows[entry.ref], entry.doc)
        /\ compiled[r][entry.ref] # None

(* handler.go:31-33: registering a published reference "is a no-op when the *)
(* document is the same one and fails with ErrSchemaImmutable when it is    *)
(* not".  The code keeps this for a document encoding/json can decode and a *)
(* version nobody retired: the stored document submitted again is accepted. *)
AgainIsNoOp(w) ==
  LET row == rows[call[w].ref] IN
  (call[w].doc = row /\ row \in Decodable /\ call[w].ref \notin archived)
    => status[w] \in {"none", "pending", "ok", "failed"}

(* What a registration was answered: accepted, it is the row, up to         *)
(* sameDocument; refused as immutable, it differs from the row; refused as  *)
(* uncomparable, it or the row cannot be decoded; "not found" is said of    *)
(* retired versions only, the other refusals of the request itself.         *)
RegisterAnswer(w) ==
  LET row == rows[call[w].ref]
      doc == call[w].doc IN
  /\ status[w] \in {"ok", "immutable", "uncomparable"} => row # None
  /\ status[w] = "ok" => Same(row, doc)
  /\ status[w] = "immutable" => (BothDecode(row, doc) /\ ~Same(row, doc))
  /\ status[w] = "uncomparable" => ~BothDecode(row, doc)
  /\ status[w] = "not_found" => call[w].ref \in archived
  /\ status[w] = "invalid_ref" => ~IsComplete(call[w].ref)
  /\ status[w] = "invalid_schema" => ~Compiles(doc)

(* What a reader was answered: a retrieved document is the row, a payload   *)
(* was judged by the row's contract, which never fails to compile, and a    *)
(* reference live when the call began is "not found" only if it was retired *)
(* since.                                                                   *)
ReadAnswer(w) ==
  LET row == rows[call[w].ref] IN
  /\ status[w] \in {"none", "pending", "ok", "not_found", "failed"}
  /\ status[w] = "ok" =>
       /\ row # None
       /\ call[w].op = "retrieve" => held[w] = row
       /\ call[w].op = "validate" => Agree(row, held[w])
  /\ (status[w] = "not_found" /\ seen[w]) => call[w].ref \in archived

(* Every answer, the promised no-op included, stays true of the table after *)
(* it was given, whatever other calls, crashes and undecided INSERTs do     *)
(* meanwhile (Register, Retrieve, Validate).                                *)
AnswersHold ==
  \A w \in Workers :
    IF call[w].op = "register" THEN AgainIsNoOp(w) /\ RegisterAnswer(w) ELSE ReadAnswer(w)

(* Whatever is published, or may be yet, passed the checks of Register.     *)
PublishedUsable ==
  /\ \A ref \in Refs : rows[ref] # None => (Compiles(rows[ref]) /\ IsComplete(ref))
  /\ \A entry \in limbo :
       Compiles(entry.doc) /\ IsComplete(entry.ref) /\ rows[entry.ref] = None

(* A published version is never rewritten or withdrawn, by any step of any  *)
(* replica (Register's ON CONFLICT DO NOTHING).                             *)
WriteOnce == [][\A ref \in Refs : rows[ref] # None => rows'[ref] = rows[ref]]_vars

(* Every call ends, and a boot ends in a serving or a dead process.         *)
CallsReturn == \A w \in Workers : pc[w] # "idle" ~> pc[w] = "idle"
BootSettles == \A r \in Replicas : phase[r] = "booting" ~> phase[r] # "booting"

(* The package's opening claim (handler.go:1-3): the registry decides what a *)
(* payload may look like "the same way on every replica".                   *)
SameOnEveryReplica ==
  \A r, s \in Replicas, ref \in Refs :
    (compiled[r][ref] # None /\ compiled[s][ref] # None) => compiled[r][ref] = compiled[s][ref]

-----------------------------------------------------------------------------
(* The registry implements the write-once contract service.                 *)
WellFormed(ref, doc) == IsComplete(ref) /\ Compiles(doc)

Promise == INSTANCE ContractService
             WITH contract <- rows, undecided <- limbo, retired <- archived,
                  Same <- Agree, Comparable <- BothDecode

PromiseKept == Promise!Spec
=============================================================================
