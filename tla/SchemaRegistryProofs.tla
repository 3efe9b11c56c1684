----------------------- MODULE SchemaRegistryProofs -----------------------
(***************************************************************************)
(* What is proved about SchemaRegistry for any number of replicas, workers,*)
(* references and documents, any catalogs and any rounding of numbers.     *)
(***************************************************************************)
EXTENDS SchemaRegistry, SequenceTheorems, TLAPS

LEMMA PrefixOfOne ==
  ASSUME NEW S, NEW a \in Seq(S), NEW b \in Seq(S), NEW c \in Seq(S), NEW d \in Seq(S),
         Len(a) = 1, Len(c) = 1, a \o b = c \o d
  PROVE  a = c /\ b = d
<1>1. a = <<a[1]>> /\ c = <<c[1]>>
  OBVIOUS
<1>2. (a \o b)[1] = a[1] /\ (c \o d)[1] = c[1]
  BY ConcatProperties
<1>3. a = c
  BY <1>1, <1>2
<1>q. QED
  BY <1>3, ConcatSimplifications

(* When no kind holds a separator, different references have different      *)
(* Redis keys (SchemaRef.String is injective on them).                      *)
LEMMA KeysDistinct ==
  ASSUME PlainKinds, NEW r \in Refs, NEW s \in Refs, Key(r) = Key(s)
  PROVE  r = s
<1>1. /\ r.kind \in Seq(STRING) /\ r.version \in Seq(STRING) /\ Len(r.kind) = 1
      /\ s.kind \in Seq(STRING) /\ s.version \in Seq(STRING) /\ Len(s.kind) = 1
      /\ r.kind \o r.version = s.kind \o s.version
  BY RefAssumption DEF PlainKinds, Key
<1>2. r.kind = s.kind /\ r.version = s.version
  BY <1>1, PrefixOfOne
<1>q. QED
  BY <1>2, RefAssumption

(* What an open call knows of the table: a registration past its insert     *)
(* sees a row, a document that was read is the row, a document accepted by  *)
(* sameDocument and on its way to the cache is compiled already.            *)
OpenCalls ==
  \A w \in Workers :
    LET ref == call[w].ref IN
    /\ pc[w] # "idle" <=> status[w] = "pending"
    /\ pc[w] \in {"insert", "reread", "compare"} =>
         (call[w].op = "register" /\ call[w].doc \in Usable /\ IsComplete(ref))
    /\ pc[w] \in {"cache", "load", "compile"} => call[w].op \in {"retrieve", "validate"}
    /\ pc[w] \in {"reread", "compare", "fill", "compile"} => rows[ref] # None
    /\ pc[w] \in {"compare", "fill", "compile"} => held[w] = rows[ref]
    /\ (pc[w] = "fill" /\ call[w].op = "register") =>
         (Same(rows[ref], call[w].doc) /\ compiled[Host[w]][ref] # None)
    /\ seen[w] => rows[ref] # None

(* The first booted[r] built-ins are in the table and in r's memory; while  *)
(* r boots, at most one worker is busy, with the next built-in.             *)
EntryIn(r, i) ==
  LET entry == Catalog[r][i] IN
  /\ rows[entry.ref] # None /\ Same(rows[entry.ref], entry.doc)
  /\ compiled[r][entry.ref] # None

BootProgress ==
  \A r \in Replicas :
    /\ phase[r] # "down" =>
         (booted[r] <= Len(Catalog[r]) /\ \A i \in 1 .. booted[r] : EntryIn(r, i))
    /\ phase[r] = "serving" => booted[r] = Len(Catalog[r])

BootCall ==
  \A w \in Workers :
    LET r == Host[w]
        entry == Catalog[r][booted[r] + 1] IN
    /\ phase[r] = "down" => (pc[w] = "idle" /\ status[w] = "none")
    /\ (phase[r] = "booting" /\ status[w] # "none") =>
         /\ booted[r] < Len(Catalog[r])
         /\ call[w] = [op |-> "register", ref |-> entry.ref, doc |-> entry.doc]
         /\ status[w] = "ok" => compiled[r][entry.ref] # None
         /\ \A v \in Workers : (Host[v] = r /\ v # w) => status[v] = "none"

(* The answers, but for the no-op, which follows.                           *)
AnswerTrue(w) == IF call[w].op = "register" THEN RegisterAnswer(w) ELSE ReadAnswer(w)
AnswersTrue == \A w \in Workers : AnswerTrue(w)

IInv ==
  /\ TypeOK
  /\ CacheCoherent
  /\ CompiledPublished
  /\ PublishedUsable
  /\ OpenCalls
  /\ AnswersTrue
  /\ BootProgress
  /\ BootCall

-----------------------------------------------------------------------------
(* Every variable stays in its range.                                       *)
LEMMA TypeInit == Init => TypeOK
  BY RegistryAssumption DEF Init, TypeOK, Doc, Ops, PCs, Answers, NothingCompiled, Entries

(* How a call moves on or ends keeps the per-worker variables in range.     *)
CallTypes ==
  /\ pc \in [Workers -> PCs]
  /\ held \in [Workers -> Doc]
  /\ status \in [Workers -> {"none", "pending"} \cup Answers]

LEMMA MoveTypes ==
  ASSUME CallTypes, NEW w \in Workers, NEW doc \in Doc,
         \/ \E label \in PCs : Goto(w, label, doc)
         \/ \E answer \in {"none"} \cup Answers : Return(w, answer, doc)
  PROVE  CallTypes'
<1>1. CASE \E label \in PCs : Goto(w, label, doc)
  BY <1>1 DEF CallTypes, Goto
<1>2. CASE \E answer \in {"none"} \cup Answers : Return(w, answer, doc)
  <2>1. "idle" \in PCs
    BY DEF PCs
  <2>q. QED
    BY <1>2, <2>1 DEF CallTypes, Return
<1>q. QED
  BY <1>1, <1>2

(* So does a write to a replica's compiled schemas.                         *)
LEMMA PutTypes ==
  ASSUME compiled \in [Replicas -> [Refs -> Doc]], NEW w \in Workers, NEW doc \in Doc,
         Host[w] \in Replicas, call[w].ref \in Refs, PutCompiled(w, doc)
  PROVE  compiled' \in [Replicas -> [Refs -> Doc]]
  BY DEF PutCompiled

LEMMA TypeStep == TypeOK /\ [Next]_vars => TypeOK'
<1> SUFFICES ASSUME TypeOK, [Next]_vars PROVE TypeOK'
  OBVIOUS
<1> USE RegistryAssumption
<1>1. CASE UNCHANGED vars
  BY <1>1 DEF vars, TypeOK
<1>2. ASSUME NEW w \in Workers, Step(w) PROVE TypeOK'
  <2> DEFINE ref == call[w].ref
  <2>a. /\ CallTypes
        /\ ref \in Refs /\ rows[ref] \in Doc /\ cache[Key(ref)] \in Doc /\ held[w] \in Doc
        /\ call[w].doc \in Doc /\ None \in Doc
        /\ Host[w] \in Replicas
    BY DEF TypeOK, CallTypes, Doc, Keys
  <2>b. /\ {"insert", "reread", "compare", "cache", "load", "fill", "compile"} \subseteq PCs
        /\ {"ok", "invalid_schema", "immutable", "uncomparable", "not_found", "failed"}
             \subseteq Answers
    BY DEF PCs, Answers
  <2>1. CASE Insert(w)
    BY <2>1, <2>a, <2>b, MoveTypes DEF Insert, Store, TypeOK, CallTypes, memory
  <2>2. CASE InsertFails(w)
    <3>1. CallTypes'
      BY <2>2, <2>a, <2>b, MoveTypes DEF InsertFails
    <3>2. rows' \in [Refs -> Doc] /\ limbo' \subseteq [ref : Refs, doc : Doc]
      <4>1. CASE Store(ref, call[w].doc)
        BY <4>1, <2>a DEF Store, TypeOK
      <4>2. CASE UNCHANGED <<rows, limbo>>
        BY <4>2 DEF TypeOK
      <4>3. CASE limbo' = limbo \cup {Submitted(w)} /\ UNCHANGED rows
        <5>1. Submitted(w) \in [ref : Refs, doc : Doc]
          BY <2>a DEF Submitted
        <5>q. QED
          BY <4>3, <5>1 DEF TypeOK
      <4>q. QED
        BY <2>2, <4>1, <4>2, <4>3 DEF InsertFails
    <3>q. QED
      BY <2>2, <3>1, <3>2 DEF InsertFails, TypeOK, CallTypes, memory
  <2>3. CASE Reread(w)
    BY <2>3, <2>a, <2>b, MoveTypes DEF Reread, TypeOK, CallTypes, memory
  <2>4. CASE Compare(w)
    <3>1. compiled' \in [Replicas -> [Refs -> Doc]]
      BY <2>4, <2>a, PutTypes DEF Compare, TypeOK
    <3>2. CallTypes'
      BY <2>4, <2>a, <2>b, MoveTypes DEF Compare
    <3>q. QED
      BY <2>4, <3>1, <3>2 DEF Compare, TypeOK, CallTypes
  <2>5. CASE CacheHit(w)
    BY <2>5, <2>a, <2>b, MoveTypes DEF CacheHit, Retrieved, TypeOK, CallTypes, memory
  <2>6. CASE CacheMiss(w)
    BY <2>6, <2>a, <2>b, MoveTypes DEF CacheMiss, TypeOK, CallTypes, memory
  <2>7. CASE Load(w)
    BY <2>7, <2>a, <2>b, MoveTypes DEF Load, TypeOK, CallTypes, memory
  <2>8. CASE SelectFails(w)
    BY <2>8, <2>a, <2>b, MoveTypes DEF SelectFails, TypeOK, CallTypes, memory
  <2>9. CASE Fill(w)
    BY <2>9, <2>a, <2>b, MoveTypes DEF Fill, PutCached, Retrieved, TypeOK, CallTypes, memory
  <2>10. CASE CompileStored(w)
    <3>1. compiled' \in [Replicas -> [Refs -> Doc]]
      BY <2>10, <2>a, PutTypes DEF CompileStored, Compiles, TypeOK
    <3>2. CallTypes'
      BY <2>10, <2>a, <2>b, MoveTypes DEF CompileStored
    <3>q. QED
      BY <2>10, <3>1, <3>2 DEF CompileStored, Compiles, TypeOK, CallTypes
  <2>q. QED
    BY <1>2, <2>1, <2>2, <2>3, <2>4, <2>5, <2>6, <2>7, <2>8, <2>9, <2>10 DEF Step
<1>3. ASSUME NEW w \in Workers, NEW ref \in Refs, NEW doc \in Docs, BeginRegister(w, ref, doc)
      PROVE TypeOK'
  <2>1. CallTypes /\ None \in Doc
    BY DEF TypeOK, CallTypes, Doc
  <2>2. "insert" \in PCs /\ {"invalid_ref", "invalid_schema"} \subseteq Answers
    BY DEF PCs, Answers
  <2>3. CallTypes'
    BY <1>3, <2>1, <2>2, MoveTypes DEF BeginRegister
  <2>q. QED
    BY <1>3, <2>3 DEF BeginRegister, Compiles, Begin, Live, TypeOK, CallTypes, Doc, Ops, memory
<1>4. ASSUME NEW w \in Workers, Calls(w) PROVE TypeOK'
  <2>1. ASSUME NEW ref \in Refs, NEW doc \in Docs, CallRegister(w, ref, doc) PROVE TypeOK'
    BY <2>1, <1>3 DEF CallRegister
  <2>2. ASSUME NEW ref \in Refs, CallRetrieve(w, ref) PROVE TypeOK'
    BY <2>2 DEF CallRetrieve, Begin, Goto, Live, TypeOK, Doc, Ops, PCs, memory
  <2>3. ASSUME NEW ref \in Refs, CallValidate(w, ref) PROVE TypeOK'
    <3>1. compiled[Host[w]][ref] \in Doc /\ None \in Doc /\ CallTypes
      BY DEF TypeOK, Doc, CallTypes
    <3>2. CallTypes'
      BY <2>3, <3>1, MoveTypes DEF CallValidate, PCs, Answers
    <3>q. QED
      BY <2>3, <3>2 DEF CallValidate, Begin, Live, TypeOK, CallTypes, Doc, Ops, memory
  <2>q. QED
    BY <1>4, <2>1, <2>2, <2>3 DEF Calls
<1>5. ASSUME NEW r \in Replicas, Exit(r) PROVE TypeOK'
  BY <1>5 DEF Exit, Unanswered, WorkersOf, Submitted, NothingCompiled, TypeOK, Doc, PCs
<1>6. ASSUME NEW w \in Workers, Boot(w) PROVE TypeOK'
  <2>1. CASE BootRegister(w)
    <3> DEFINE r == Host[w]
               entry == Catalog[r][booted[r] + 1]
    <3>1. entry \in Entries
      BY <2>1 DEF BootRegister, TypeOK
    <3>q. QED
      BY <2>1, <3>1, <1>3 DEF BootRegister, Entries
  <2>2. CASE BootAdvance(w)
    BY <2>2 DEF BootAdvance, Return, TypeOK, Doc, PCs
  <2>3. CASE BootFail(w)
    BY <2>3, <1>5 DEF BootFail
  <2>q. QED
    BY <1>6, <2>1, <2>2, <2>3 DEF Boot
<1>7. ASSUME NEW r \in Replicas, Start(r) \/ Serve(r) \/ WiringFails(r) \/ Crash(r) PROVE TypeOK'
  <2>1. CASE Start(r)
    BY <2>1 DEF Start, TypeOK
  <2>2. CASE Serve(r)
    BY <2>2 DEF Serve, TypeOK
  <2>3. CASE WiringFails(r) \/ Crash(r)
    BY <2>3, <1>5 DEF WiringFails, Crash
  <2>q. QED
    BY <1>7, <2>1, <2>2, <2>3
<1>8. ASSUME (\E key \in Keys : Evict(key)) \/ (\E ref \in Refs : Archive(ref)) PROVE TypeOK'
  BY <1>8 DEF Evict, Archive, TypeOK, Doc, memory
<1>9. ASSUME NEW entry \in limbo, Land(entry) PROVE TypeOK'
  BY <1>9 DEF Land, Store, TypeOK, memory
<1>q. QED
  BY <1>1, <1>2, <1>4, <1>6, <1>7, <1>8, <1>9 DEF Next

(* The registry's state stays in its ranges whatever happens.               *)
THEOREM TypeCorrect == Spec => []TypeOK
  BY TypeInit, TypeStep, PTL DEF Spec

-----------------------------------------------------------------------------
(* Rows only appear, and compiled schemas of a living process only appear.  *)
RowsGrow == \A ref \in Refs : rows[ref] # None => rows'[ref] = rows[ref]

CompiledGrows ==
  \A r \in Replicas, ref \in Refs : compiled[r][ref] # None => compiled'[r][ref] # None

Untouched == UNCHANGED <<rows, limbo, cache, compiled, phase, booted>>

LEMMA InvInit == Init => IInv
<1> SUFFICES ASSUME Init PROVE IInv
  OBVIOUS
<1> USE RegistryAssumption DEF Init
<1>1. TypeOK
  BY TypeInit
<1>2. CacheCoherent
  <2>1. \A ref \in Refs : Key(ref) \in Keys
    BY DEF Keys
  <2>q. QED
    BY <2>1 DEF CacheCoherent
<1>3. CompiledPublished /\ PublishedUsable
  BY DEF CompiledPublished, PublishedUsable, NothingCompiled
<1>4. OpenCalls /\ AnswersTrue
  BY DEF OpenCalls, AnswersTrue, AnswerTrue, RegisterAnswer, ReadAnswer
<1>5. BootProgress /\ BootCall
  BY DEF BootProgress, BootCall
<1>q. QED
  BY <1>1, <1>2, <1>3, <1>4, <1>5 DEF IInv

(* What growth alone keeps.                                                 *)
LEMMA BootKept ==
  ASSUME TypeOK, BootProgress, RowsGrow, CompiledGrows, UNCHANGED <<phase, booted>>
  PROVE  BootProgress'
<1> USE RegistryAssumption
<1>1. ASSUME NEW r \in Replicas, NEW i \in 1 .. Len(Catalog[r]), EntryIn(r, i)
      PROVE  EntryIn(r, i)'
  <2>1. Catalog[r][i] \in Entries
    BY DEF TypeOK
  <2>q. QED
    BY <1>1, <2>1 DEF EntryIn, RowsGrow, CompiledGrows, Entries
<1>2. \A r \in Replicas : booted[r] \in Nat /\ Len(Catalog[r]) \in Nat
  BY DEF TypeOK
<1>3. ASSUME NEW r \in Replicas, phase[r] # "down", NEW i \in 1 .. booted[r]
      PROVE  EntryIn(r, i)'
  <2>1. i \in 1 .. Len(Catalog[r]) /\ EntryIn(r, i)
    BY <1>2, <1>3 DEF BootProgress
  <2>q. QED
    BY <1>1, <2>1
<1>q. QED
  BY <1>3 DEF BootProgress

LEMMA GrowthKept ==
  ASSUME IInv, RowsGrow, UNCHANGED <<cache, compiled, phase, booted>>
  PROVE  CacheCoherent' /\ CompiledPublished' /\ BootProgress'
<1>1. CompiledGrows
  BY DEF CompiledGrows
<1>q. QED
  BY <1>1, BootKept DEF IInv, RowsGrow, CacheCoherent, CompiledPublished

LEMMA UntouchedKept ==
  ASSUME IInv, Untouched
  PROVE  CacheCoherent' /\ CompiledPublished' /\ PublishedUsable' /\ BootProgress'
  BY DEF IInv, Untouched, CacheCoherent, CompiledPublished, PublishedUsable, BootProgress,
         EntryIn, Agree, Same, BothDecode

(* A write to compiled changes one entry of one replica.                    *)
LEMMA PutSets ==
  ASSUME TypeOK, NEW w \in Workers, NEW doc, PutCompiled(w, doc)
  PROVE  \A r \in Replicas, ref \in Refs :
           compiled'[r][ref] = IF r = Host[w] /\ ref = call[w].ref THEN doc
                               ELSE compiled[r][ref]
  BY RegistryAssumption DEF TypeOK, PutCompiled

LEMMA PutKept ==
  ASSUME TypeOK, CompiledPublished, UNCHANGED rows, NEW w \in Workers, NEW doc \in Docs,
         PutCompiled(w, doc), rows[call[w].ref] # None, Agree(rows[call[w].ref], doc)
  PROVE  CompiledPublished' /\ CompiledGrows
<1> USE RegistryAssumption
<1>1. \A r \in Replicas, ref \in Refs :
        compiled'[r][ref] = IF r = Host[w] /\ ref = call[w].ref THEN doc
                            ELSE compiled[r][ref]
  BY PutSets
<1>2. CompiledGrows
  BY <1>1 DEF CompiledGrows
<1>3. ASSUME NEW r \in Replicas, NEW ref \in Refs, compiled'[r][ref] # None
      PROVE  rows[ref] # None /\ Agree(rows[ref], compiled'[r][ref])
  BY <1>1, <1>3 DEF CompiledPublished
<1>q. QED
  BY <1>2, <1>3 DEF CompiledPublished, Agree, Same, BothDecode

(* A step that answers at most one call keeps what the others were told.    *)
LEMMA AnswersKept ==
  ASSUME TypeOK, AnswersTrue, RowsGrow, archived \subseteq archived', UNCHANGED <<call, seen>>,
         NEW w \in Workers,
         \A v \in Workers \ {w} : status'[v] = status[v] /\ held'[v] = held[v],
         AnswerTrue(w)'
  PROVE  AnswersTrue'
<1>1. ASSUME NEW v \in Workers, v # w PROVE AnswerTrue(v)'
  <2>1. /\ AnswerTrue(v)
        /\ status'[v] = status[v] /\ held'[v] = held[v] /\ call' = call /\ seen' = seen
        /\ call[v].ref \in Refs
    BY <1>1 DEF AnswersTrue, TypeOK
  <2>2. rows[call[v].ref] # None => rows'[call[v].ref] = rows[call[v].ref]
    BY <2>1 DEF RowsGrow
  <2>q. QED
    BY <2>1, <2>2 DEF AnswerTrue, RegisterAnswer, ReadAnswer, Agree, Same, BothDecode, Compiles,
       IsComplete
<1>q. QED
  BY <1>1 DEF AnswersTrue

LEMMA StepGrows ==
  ASSUME TypeOK, NEW w \in Workers, Step(w)
  PROVE  RowsGrow
<1>1. CASE Insert(w) \/ InsertFails(w)
  BY <1>1 DEF Insert, InsertFails, Store, RowsGrow, TypeOK
<1>2. CASE UNCHANGED rows
  BY <1>2 DEF RowsGrow
<1>q. QED
  BY <1>1, <1>2 DEF Step, Reread, Compare, CacheHit, CacheMiss, Load, SelectFails, Fill, PutCached,
     CompileStored

(* A step of a call changes no other call, and the table only by storing a  *)
(* row where there was none.                                                *)
LEMMA StepFrame ==
  ASSUME TypeOK, NEW w \in Workers, Step(w)
  PROVE  /\ RowsGrow
         /\ UNCHANGED <<archived, phase, booted, call, seen>>
         /\ \A v \in Workers \ {w} :
              pc'[v] = pc[v] /\ status'[v] = status[v] /\ held'[v] = held[v]
<1>1. UNCHANGED <<archived, phase, booted, call, seen>>
  BY DEF Step, Insert, InsertFails, Reread, Compare, CacheHit, CacheMiss, Load, SelectFails,
         Fill, CompileStored, memory
<1>2. \E label, doc : Goto(w, label, doc) \/ Return(w, label, doc)
  BY DEF Step, Insert, InsertFails, Reread, Compare, CacheHit, CacheMiss, Load, SelectFails,
         Fill, CompileStored, Retrieved
<1>q. QED
  BY <1>1, <1>2, StepGrows DEF Goto, Return, TypeOK

(* An INSERT of what passed the checks publishes only what passes them.     *)
LEMMA StoreKept ==
  ASSUME TypeOK, PublishedUsable, NEW ref \in Refs, NEW doc \in Docs,
         Compiles(doc), IsComplete(ref), Store(ref, doc)
  PROVE  PublishedUsable' /\ RowsGrow
<1>1. /\ rows \in [Refs -> Doc] /\ limbo \subseteq [ref : Refs, doc : Doc]
      /\ rows' = [rows EXCEPT ![ref] = IF rows[ref] = None THEN doc ELSE rows[ref]]
      /\ limbo' = {entry \in limbo : entry.ref # ref}
  BY DEF Store, TypeOK
<1>2. \A r \in Refs : rows'[r] # None => Compiles(rows'[r]) /\ IsComplete(r)
  BY <1>1 DEF PublishedUsable
<1>3. \A entry \in limbo' :
        Compiles(entry.doc) /\ IsComplete(entry.ref) /\ rows'[entry.ref] = None
  BY <1>1 DEF PublishedUsable
<1>4. RowsGrow
  BY <1>1 DEF RowsGrow
<1>q. QED
  BY <1>2, <1>3, <1>4 DEF PublishedUsable, Compiles, IsComplete

LEMMA InvStep ==
  ASSUME PlainKinds, IInv, TypeOK', NEW w \in Workers, Step(w)
  PROVE  IInv'
<1> USE RegistryAssumption DEF IInv
<1>f. /\ RowsGrow
      /\ archived' = archived /\ phase' = phase /\ booted' = booted
      /\ call' = call /\ seen' = seen
      /\ \A v \in Workers \ {w} :
           pc'[v] = pc[v] /\ status'[v] = status[v] /\ held'[v] = held[v]
  BY StepFrame
<1>1. CASE Insert(w)
  <2>1. RowsGrow /\ UNCHANGED <<cache, memory>>
    BY <1>1 DEF Insert, Store, RowsGrow, TypeOK, memory
  <2>2. PublishedUsable'
    BY <1>1, StoreKept DEF Insert, OpenCalls, Compiles, TypeOK
  <2>3. OpenCalls'
    BY <1>1 DEF Insert, Store, Goto, OpenCalls, Live, CacheCoherent, Answers,
       TypeOK, Doc, memory
  <2>4. AnswersTrue'
    <3>1. AnswerTrue(w)'
      BY <1>1 DEF Insert, Store, Goto, AnswerTrue, RegisterAnswer, ReadAnswer, OpenCalls, Live,
       Agree, Same, BothDecode, CacheCoherent, CompiledPublished, TypeOK, Doc,
           memory
    <3>q. QED
      BY <1>f, <3>1, AnswersKept
  <2>5. BootCall'
    BY <1>1 DEF Insert, Store, Goto, BootCall, OpenCalls, TypeOK, Doc, memory
  <2>q. QED
    BY <2>1, <2>2, <2>3, <2>4, <2>5, GrowthKept DEF memory
<1>2. CASE InsertFails(w)
  <2>1. RowsGrow /\ UNCHANGED <<cache, memory>>
    BY <1>2 DEF InsertFails, Store, RowsGrow, TypeOK, memory
  <2>2. PublishedUsable'
    <3>1. CASE Store(call[w].ref, call[w].doc)
      BY <1>2, <3>1, StoreKept DEF InsertFails, OpenCalls, Compiles, TypeOK
    <3>2. CASE UNCHANGED rows /\ limbo' \in {limbo, limbo \cup {Submitted(w)}} /\ limbo' # limbo
      <4>1. rows[call[w].ref] = None
        BY <1>2, <3>1, <3>2 DEF InsertFails, Store, TypeOK
      <4>2. Compiles(Submitted(w).doc) /\ IsComplete(Submitted(w).ref)
        BY <1>2 DEF InsertFails, OpenCalls, Compiles, Submitted
      <4>q. QED
        BY <3>2, <4>1, <4>2 DEF PublishedUsable, Submitted, Compiles, IsComplete
    <3>3. CASE UNCHANGED <<rows, limbo>>
      BY <3>3 DEF PublishedUsable, Compiles, IsComplete
    <3>q. QED
      BY <1>2, <3>1, <3>2, <3>3 DEF InsertFails
  <2>3. OpenCalls'
    BY <1>2 DEF InsertFails, Store, Return, OpenCalls, Live, CacheCoherent,
       Answers, TypeOK, Doc, memory
  <2>4. AnswersTrue'
    <3>1. AnswerTrue(w)'
      BY <1>2 DEF InsertFails, Store, Return, AnswerTrue, RegisterAnswer, ReadAnswer, OpenCalls, Live, Agree,
       Same, BothDecode, CacheCoherent, CompiledPublished, TypeOK, Doc,
           memory
    <3>q. QED
      BY <1>f, <3>1, AnswersKept
  <2>5. BootCall'
    BY <1>2 DEF InsertFails, Store, Return, BootCall, OpenCalls, TypeOK, Doc, memory
  <2>q. QED
    BY <2>1, <2>2, <2>3, <2>4, <2>5, GrowthKept DEF memory
<1>3. CASE Reread(w)
  <2>1. Untouched
    BY <1>3 DEF Reread, Untouched, memory
  <2>2. OpenCalls'
    BY <1>3 DEF Reread, Goto, Return, OpenCalls, Live, CacheCoherent, Answers, TypeOK,
       Doc, memory
  <2>3. AnswersTrue'
    <3>1. AnswerTrue(w)'
      BY <1>3 DEF Reread, Goto, Return, AnswerTrue, RegisterAnswer, ReadAnswer, OpenCalls, Live, Agree, Same, BothDecode,
       CacheCoherent, CompiledPublished, TypeOK, Doc,
           memory
    <3>q. QED
      BY <1>f, <3>1, AnswersKept
  <2>4. BootCall'
    BY <1>3 DEF Reread, Goto, Return, BootCall, OpenCalls, TypeOK, Doc, memory
  <2>q. QED
    BY <2>1, <2>2, <2>3, <2>4, UntouchedKept
<1>4. CASE Compare(w)
  <2>1. \/ UNCHANGED compiled
        \/ PutCompiled(w, call[w].doc) /\ Agree(rows[call[w].ref], call[w].doc) /\ call[w].doc \in Docs
    BY <1>4 DEF Compare, OpenCalls, PublishedUsable, Agree, Same, BothDecode, TypeOK, Doc
  <2>2. rows[call[w].ref] # None /\ UNCHANGED <<rows, limbo, cache, phase, booted>>
    BY <1>4 DEF Compare, OpenCalls
  <2>3. CompiledPublished' /\ CompiledGrows
    BY <2>1, <2>2, PutKept DEF CompiledPublished, CompiledGrows
  <2>4. OpenCalls'
    <3>1. pc'[w] = "fill" => compiled'[Host[w]][call[w].ref] # None
      BY <1>4, <2>1, PutSets DEF Compare, Goto, Return, Same, BothDecode, TypeOK
    <3>q. QED
      BY <1>4, <2>2, <2>3, <3>1 DEF Compare, CompiledGrows, Goto, Return, OpenCalls,
         Live, CacheCoherent, Answers, TypeOK, Doc, memory
  <2>5. AnswersTrue'
    <3>1. AnswerTrue(w)'
      BY <1>4 DEF Compare, Goto, Return, AnswerTrue, RegisterAnswer, ReadAnswer, OpenCalls, Live, Agree, Same, BothDecode,
       CacheCoherent, CompiledPublished, TypeOK, Doc,
           memory
    <3>q. QED
      BY <1>f, <3>1, AnswersKept
  <2>6. BootCall'
    BY <1>4, <2>3 DEF Compare, Goto, Return, CompiledGrows, BootCall, OpenCalls,
       TypeOK, Doc, memory
  <2>q. QED
    BY <2>2, <2>3, <2>4, <2>5, <2>6, BootKept
       DEF CacheCoherent, PublishedUsable, Compiles, IsComplete, RowsGrow
<1>5. CASE CacheHit(w)
  <2>1. Untouched
    BY <1>5 DEF CacheHit, Untouched, memory
  <2>2. OpenCalls'
    BY <1>5 DEF CacheHit, Retrieved, Goto, Return, OpenCalls, Live, CacheCoherent,
       Answers, TypeOK, Doc, memory
  <2>3. AnswersTrue'
    <3>1. AnswerTrue(w)'
      BY <1>5 DEF CacheHit, Retrieved, Goto, Return, AnswerTrue, RegisterAnswer, ReadAnswer, OpenCalls, Live,
       Agree, Same, BothDecode, CacheCoherent, CompiledPublished, TypeOK, Doc,
           memory
    <3>q. QED
      BY <1>f, <3>1, AnswersKept
  <2>4. BootCall'
    BY <1>5 DEF CacheHit, Retrieved, Goto, Return, BootCall, OpenCalls, TypeOK, Doc, memory
  <2>q. QED
    BY <2>1, <2>2, <2>3, <2>4, UntouchedKept
<1>6. CASE CacheMiss(w)
  <2>1. Untouched
    BY <1>6 DEF CacheMiss, Untouched, memory
  <2>2. OpenCalls'
    BY <1>6 DEF CacheMiss, Goto, OpenCalls, Live, CacheCoherent, Answers, TypeOK, Doc,
       memory
  <2>3. AnswersTrue'
    <3>1. AnswerTrue(w)'
      BY <1>6 DEF CacheMiss, Goto, AnswerTrue, RegisterAnswer, ReadAnswer, OpenCalls, Live, Agree, Same, BothDecode,
       CacheCoherent, CompiledPublished, TypeOK, Doc,
           memory
    <3>q. QED
      BY <1>f, <3>1, AnswersKept
  <2>4. BootCall'
    BY <1>6 DEF CacheMiss, Goto, BootCall, OpenCalls, TypeOK, Doc, memory
  <2>q. QED
    BY <2>1, <2>2, <2>3, <2>4, UntouchedKept
<1>7. CASE Load(w)
  <2>1. Untouched
    BY <1>7 DEF Load, Untouched, memory
  <2>2. OpenCalls'
    BY <1>7 DEF Load, Goto, Return, OpenCalls, Live, CacheCoherent, Answers, TypeOK,
       Doc, memory
  <2>3. AnswersTrue'
    <3>1. AnswerTrue(w)'
      BY <1>7 DEF Load, Goto, Return, AnswerTrue, RegisterAnswer, ReadAnswer, OpenCalls, Live, Agree, Same, BothDecode,
       CacheCoherent, CompiledPublished, TypeOK, Doc,
           memory
    <3>q. QED
      BY <1>f, <3>1, AnswersKept
  <2>4. BootCall'
    BY <1>7 DEF Load, Goto, Return, BootCall, OpenCalls, TypeOK, Doc, memory
  <2>q. QED
    BY <2>1, <2>2, <2>3, <2>4, UntouchedKept
<1>8. CASE SelectFails(w)
  <2>1. Untouched
    BY <1>8 DEF SelectFails, Untouched, memory
  <2>2. OpenCalls'
    BY <1>8 DEF SelectFails, Return, OpenCalls, Live, CacheCoherent, Answers, TypeOK,
       Doc, memory
  <2>3. AnswersTrue'
    <3>1. AnswerTrue(w)'
      BY <1>8 DEF SelectFails, Return, AnswerTrue, RegisterAnswer, ReadAnswer, OpenCalls, Live, Agree, Same, BothDecode,
       CacheCoherent, CompiledPublished, TypeOK, Doc,
           memory
    <3>q. QED
      BY <1>f, <3>1, AnswersKept
  <2>4. BootCall'
    BY <1>8 DEF SelectFails, Return, BootCall, OpenCalls, TypeOK, Doc, memory
  <2>q. QED
    BY <2>1, <2>2, <2>3, <2>4, UntouchedKept
<1>9. CASE Fill(w)
  <2>1. CacheCoherent'
    <3>1. \A ref \in Refs : Key(ref) \in Keys /\ (Key(ref) = Key(call[w].ref) => ref = call[w].ref)
      BY KeysDistinct DEF Keys, TypeOK
    <3>2. /\ UNCHANGED rows
          /\ held[w] = rows[call[w].ref]
          /\ \/ cache' = [cache EXCEPT ![Key(call[w].ref)] = held[w]]
             \/ UNCHANGED cache
      BY <1>9 DEF Fill, PutCached, OpenCalls
    <3>q. QED
      BY <3>1, <3>2 DEF CacheCoherent, TypeOK
  <2>2. RowsGrow /\ UNCHANGED <<rows, memory>>
    BY <1>9 DEF Fill, PutCached, RowsGrow
  <2>3. OpenCalls'
    BY <1>9 DEF Fill, PutCached, Retrieved, Goto, Return, OpenCalls, Live, CacheCoherent,
       Answers, TypeOK, Doc, memory
  <2>4. AnswersTrue'
    <3>1. AnswerTrue(w)'
      BY <1>9 DEF Fill, PutCached, Retrieved, Goto, Return, AnswerTrue, RegisterAnswer, ReadAnswer, OpenCalls, Live, Agree,
       Same, BothDecode, CacheCoherent, CompiledPublished, TypeOK, Doc,
           memory
    <3>q. QED
      BY <1>f, <3>1, AnswersKept
  <2>5. BootCall'
    BY <1>9 DEF Fill, PutCached, Retrieved, Goto, Return, BootCall, OpenCalls, TypeOK, Doc, memory
  <2>6. CompiledPublished' /\ PublishedUsable' /\ BootProgress'
    BY <1>9, <2>2 DEF Fill, CompiledPublished, PublishedUsable, Compiles, IsComplete,
       BootProgress, EntryIn, memory
  <2>q. QED
    BY <2>1, <2>3, <2>4, <2>5, <2>6
<1>10. CASE CompileStored(w)
  <2>1. \/ UNCHANGED compiled
        \/ PutCompiled(w, held[w]) /\ Agree(rows[call[w].ref], held[w]) /\ held[w] \in Docs
    BY <1>10 DEF CompileStored, Compiles, OpenCalls, PublishedUsable, Agree, Same, BothDecode, TypeOK, Doc
  <2>2. rows[call[w].ref] # None /\ UNCHANGED <<rows, limbo, cache, phase, booted>>
    BY <1>10 DEF CompileStored, Compiles, OpenCalls
  <2>3. CompiledPublished' /\ CompiledGrows
    BY <2>1, <2>2, PutKept DEF CompiledPublished, CompiledGrows
  <2>4. OpenCalls'
    BY <1>10, <2>2, <2>3 DEF CompileStored, Compiles, Return, CompiledGrows, OpenCalls, Live,
       CacheCoherent, Answers, TypeOK, Doc, memory
  <2>5. AnswersTrue'
    <3>1. AnswerTrue(w)'
      <4>1. /\ pc[w] = "compile" /\ held[w] = rows[call[w].ref] /\ rows[call[w].ref] # None
            /\ call[w].op # "register" /\ Compiles(held[w])
        BY <1>10 DEF CompileStored, OpenCalls, PublishedUsable, TypeOK
      <4>2. status'[w] = "ok" /\ held'[w] = held[w] /\ rows' = rows
        BY <1>10, <4>1 DEF CompileStored, Return, TypeOK
      <4>q. QED
        BY <1>f, <4>1, <4>2 DEF AnswerTrue, ReadAnswer, Agree
    <3>q. QED
      BY <1>f, <3>1, AnswersKept
  <2>6. BootCall'
    BY <1>10, <2>3 DEF CompileStored, Compiles, Return, PutCompiled, BootCall, OpenCalls,
       TypeOK, Doc, memory
  <2>q. QED
    BY <2>2, <2>3, <2>4, <2>5, <2>6, BootKept
       DEF CacheCoherent, PublishedUsable, Compiles, IsComplete, RowsGrow
<1>q. QED
  BY <1>1, <1>2, <1>3, <1>4, <1>5, <1>6, <1>7, <1>8, <1>9, <1>10 DEF Step

(* A call that begins touches nothing but its own worker.                   *)
LEMMA InvBegin ==
  ASSUME IInv, TypeOK', NEW w \in Workers, Untouched, UNCHANGED archived,
         NEW op \in Ops, NEW ref \in Refs, NEW doc \in Doc, Begin(w, op, ref, doc),
         \/ op = "register" /\ \/ IsComplete(ref) /\ Compiles(doc) /\ Goto(w, "insert", None)
                               \/ ~IsComplete(ref) /\ Return(w, "invalid_ref", None)
                               \/ ~Compiles(doc) /\ Return(w, "invalid_schema", None)
         \/ op # "register" /\ Goto(w, "cache", None)
         \/ op = "validate" /\ compiled[Host[w]][ref] # None
              /\ Return(w, "ok", compiled[Host[w]][ref]),
         \/ phase[Host[w]] = "serving"
         \/ /\ phase[Host[w]] = "booting" /\ AtRest(Host[w])
            /\ booted[Host[w]] < Len(Catalog[Host[w]])
            /\ op = "register"
            /\ ref = Catalog[Host[w]][booted[Host[w]] + 1].ref
            /\ doc = Catalog[Host[w]][booted[Host[w]] + 1].doc
  PROVE  IInv'
<1> USE RegistryAssumption DEF IInv
<1>a. /\ call'[w] = [op |-> op, ref |-> ref, doc |-> doc]
      /\ call'[w].op = op /\ call'[w].ref = ref /\ call'[w].doc = doc
      /\ seen'[w] => rows[ref] # None
      /\ UNCHANGED <<rows, compiled, archived>>
  BY DEF Begin, Live, TypeOK, Untouched
<1>b. \A v \in Workers : v # w =>
        /\ pc'[v] = pc[v] /\ status'[v] = status[v] /\ held'[v] = held[v]
        /\ call'[v] = call[v] /\ seen'[v] = seen[v]
  BY DEF Begin, Goto, Return, TypeOK
<1>c. \/ /\ op = "register" /\ Compiles(doc) /\ IsComplete(ref)
         /\ pc'[w] = "insert" /\ status'[w] = "pending"
      \/ /\ op = "register" /\ pc'[w] = "idle"
         /\ \/ ~IsComplete(ref) /\ status'[w] = "invalid_ref"
            \/ ~Compiles(doc) /\ status'[w] = "invalid_schema"
      \/ op \in {"retrieve", "validate"} /\ pc'[w] = "cache" /\ status'[w] = "pending"
      \/ /\ op = "validate" /\ pc'[w] = "idle" /\ status'[w] = "ok"
         /\ compiled[Host[w]][ref] # None /\ held'[w] = compiled[Host[w]][ref]
  BY DEF Goto, Return, TypeOK, Ops
<1>1. OpenCalls'
  BY <1>a, <1>b, <1>c DEF OpenCalls, Compiles, Same, BothDecode
<1>2. AnswersTrue'
  <2>1. status'[w] = "ok" =>
          op = "validate" /\ rows[ref] # None /\ Agree(rows[ref], held'[w])
    BY <1>c DEF CompiledPublished
  <2>2. AnswerTrue(w)'
    BY <1>a, <1>c, <2>1 DEF AnswerTrue, RegisterAnswer, ReadAnswer, Agree, Same, BothDecode
  <2>3. ASSUME NEW v \in Workers, v # w PROVE AnswerTrue(v)'
    <3>1. /\ AnswerTrue(v)
          /\ status'[v] = status[v] /\ held'[v] = held[v]
          /\ call'[v] = call[v] /\ seen'[v] = seen[v]
      BY <1>b, <2>3 DEF AnswersTrue
    <3>q. QED
      BY <1>a, <3>1 DEF AnswerTrue, RegisterAnswer, ReadAnswer, Agree, Same, BothDecode, Compiles,
         IsComplete
  <2>q. QED
    BY <2>2, <2>3 DEF AnswersTrue
<1>3. BootCall'
  BY SMTT(20) DEF BootCall, AtRest, WorkersOf, Begin, Goto, Return, Untouched, TypeOK
<1>q. QED
  BY <1>1, <1>2, <1>3, UntouchedKept

LEMMA InvCalls ==
  ASSUME IInv, TypeOK', NEW w \in Workers, Calls(w)
  PROVE  IInv'
<1>1. ASSUME NEW ref \in Refs, NEW doc \in Docs, CallRegister(w, ref, doc) PROVE IInv'
  BY <1>1, InvBegin DEF CallRegister, BeginRegister, Untouched, Doc, Ops, memory
<1>2. ASSUME NEW ref \in Refs, CallRetrieve(w, ref) PROVE IInv'
  BY <1>2, InvBegin DEF CallRetrieve, Untouched, Doc, Ops, memory
<1>3. ASSUME NEW ref \in Refs, CallValidate(w, ref) PROVE IInv'
  BY <1>3, InvBegin DEF CallValidate, Untouched, Doc, Ops, memory
<1>q. QED
  BY <1>1, <1>2, <1>3 DEF Calls

(* A process that ends forgets everything it knew; the table and the cache  *)
(* do not notice.                                                           *)
LEMMA InvExit ==
  ASSUME IInv, TypeOK', NEW r \in Replicas, Exit(r)
  PROVE  IInv'
<1> USE RegistryAssumption DEF IInv
<1>1. CacheCoherent' /\ PublishedUsable'
  <2>1. \A entry \in Unanswered(r) :
          Compiles(entry.doc) /\ IsComplete(entry.ref) /\ rows[entry.ref] = None
    BY DEF Unanswered, WorkersOf, Submitted, OpenCalls, Compiles
  <2>2. PublishedUsable'
    BY <2>1 DEF Exit, PublishedUsable, Compiles, IsComplete
  <2>q. QED
    BY <2>2 DEF Exit, CacheCoherent
<1>2. CompiledPublished'
  BY DEF Exit, CompiledPublished, NothingCompiled, TypeOK, Agree, Same, BothDecode
<1>3. OpenCalls'
  BY DEF Exit, OpenCalls, TypeOK
<1>4. AnswersTrue'
  BY DEF Exit, AnswersTrue, AnswerTrue, RegisterAnswer, ReadAnswer, TypeOK, Agree, Same, BothDecode
<1>5. BootProgress'
  BY DEF Exit, BootProgress, EntryIn, TypeOK
<1>6. BootCall'
  BY DEF Exit, BootCall, TypeOK
<1>q. QED
  BY <1>1, <1>2, <1>3, <1>4, <1>5, <1>6

LEMMA InvBoot ==
  ASSUME IInv, TypeOK', NEW w \in Workers, Boot(w)
  PROVE  IInv'
<1> USE RegistryAssumption DEF IInv
<1>1. CASE BootRegister(w)
  <2> DEFINE entry == Catalog[Host[w]][booted[Host[w]] + 1]
  <2>1. entry \in Entries
    BY <1>1 DEF BootRegister, TypeOK
  <2>2. entry.ref \in Refs /\ entry.doc \in Docs
    BY <2>1 DEF Entries
  <2>q. QED
    BY <1>1, <2>2, InvBegin DEF BootRegister, BeginRegister, Untouched, Doc, Ops, memory
<1>2. CASE BootAdvance(w)
  <2> DEFINE r == Host[w]
             entry == Catalog[r][booted[r] + 1]
  <2>1. /\ UNCHANGED <<rows, limbo, archived, cache, compiled, phase, call, seen>>
        /\ phase[r] = "booting" /\ status[w] = "ok" /\ pc[w] = "idle"
        /\ booted' = [booted EXCEPT ![r] = @ + 1]
    BY <1>2 DEF BootAdvance
  <2>2. booted[r] < Len(Catalog[r]) /\ EntryIn(r, booted[r] + 1)
    <3>1. /\ booted[r] < Len(Catalog[r])
          /\ call[w] = [op |-> "register", ref |-> entry.ref, doc |-> entry.doc]
          /\ compiled[r][entry.ref] # None
      BY <2>1 DEF BootCall
    <3>2. rows[entry.ref] # None /\ Same(rows[entry.ref], entry.doc)
      BY <2>1, <3>1 DEF AnswersTrue, AnswerTrue, RegisterAnswer, ReadAnswer
    <3>q. QED
      BY <3>1, <3>2 DEF EntryIn
  <2>3. BootProgress'
    <3>0. /\ booted[r] \in Nat /\ booted'[r] = booted[r] + 1
          /\ \A i \in 1 .. booted[r] : EntryIn(r, i)
      BY <2>1 DEF BootProgress, TypeOK
    <3>1. \A i \in 1 .. booted'[r] : EntryIn(r, i)
      BY <2>2, <3>0
    <3>2. booted'[r] <= Len(Catalog[r])
      BY <2>1, <2>2 DEF TypeOK
    <3>q. QED
      BY <2>1, <3>1, <3>2 DEF BootProgress, EntryIn, TypeOK
  <2>4. OpenCalls' /\ AnswersTrue'
    BY <1>2 DEF BootAdvance, Return, OpenCalls, AnswersTrue, AnswerTrue, RegisterAnswer, ReadAnswer, TypeOK
  <2>5. BootCall'
    BY <1>2, SMTT(20) DEF BootAdvance, Return, BootCall, TypeOK
  <2>6. CacheCoherent' /\ CompiledPublished' /\ PublishedUsable'
    BY <2>1 DEF CacheCoherent, CompiledPublished, PublishedUsable, Compiles, IsComplete
  <2>q. QED
    BY <2>3, <2>4, <2>5, <2>6
<1>3. CASE BootFail(w)
  BY <1>3, InvExit DEF BootFail
<1>q. QED
  BY <1>1, <1>2, <1>3 DEF Boot

LEMMA InvReplica ==
  ASSUME IInv, TypeOK', NEW r \in Replicas, Start(r) \/ Serve(r) \/ WiringFails(r) \/ Crash(r)
  PROVE  IInv'
<1> USE RegistryAssumption DEF IInv
<1>1. CASE Start(r)
  <2>1. CacheCoherent' /\ CompiledPublished' /\ PublishedUsable' /\ OpenCalls' /\ AnswersTrue'
    BY <1>1 DEF Start, CacheCoherent, CompiledPublished, PublishedUsable, OpenCalls,
       AnswersTrue, AnswerTrue, RegisterAnswer, ReadAnswer
  <2>2. BootProgress'
    BY <1>1 DEF Start, BootProgress, EntryIn, TypeOK
  <2>3. BootCall'
    BY <1>1 DEF Start, BootCall, TypeOK
  <2>q. QED
    BY <2>1, <2>2, <2>3
<1>2. CASE Serve(r)
  <2>1. CacheCoherent' /\ CompiledPublished' /\ PublishedUsable' /\ OpenCalls' /\ AnswersTrue'
    BY <1>2 DEF Serve, CacheCoherent, CompiledPublished, PublishedUsable, OpenCalls,
       AnswersTrue, AnswerTrue, RegisterAnswer, ReadAnswer
  <2>2. BootProgress'
    BY <1>2 DEF Serve, BootProgress, EntryIn, TypeOK
  <2>3. BootCall'
    BY <1>2 DEF Serve, BootCall, AtRest, WorkersOf, TypeOK
  <2>q. QED
    BY <2>1, <2>2, <2>3
<1>3. CASE WiringFails(r) \/ Crash(r)
  BY <1>3, InvExit DEF WiringFails, Crash
<1>q. QED
  BY <1>1, <1>2, <1>3

(* An undecided INSERT that is applied stores a row where there was none,   *)
(* which nobody was told anything about.                                    *)
LEMMA InvLand ==
  ASSUME IInv, TypeOK', NEW entry \in limbo, Land(entry)
  PROVE  IInv'
<1> USE RegistryAssumption DEF IInv
<1>1. RowsGrow /\ UNCHANGED <<cache, memory>>
  BY DEF Land, Store, RowsGrow, TypeOK, memory
<1>2. PublishedUsable'
  <2>1. entry.ref \in Refs /\ entry.doc \in Docs
    BY DEF PublishedUsable, Compiles, TypeOK
  <2>q. QED
    BY <2>1, StoreKept DEF Land, PublishedUsable
<1>3. OpenCalls'
  <2>1. UNCHANGED <<compiled, pc, call, held, status, seen>>
    BY DEF Land, memory
  <2>2. \A w \in Workers : call[w].ref \in Refs
    BY DEF TypeOK
  <2>q. QED
    BY <1>1, <2>1, <2>2 DEF OpenCalls, RowsGrow, Same, BothDecode, Compiles, IsComplete
<1>4. AnswersTrue'
  <2>1. /\ call' = call /\ seen' = seen /\ status' = status /\ held' = held
        /\ archived' = archived
    BY DEF Land
  <2>2. ASSUME NEW w \in Workers PROVE AnswerTrue(w)'
    <3>1. AnswerTrue(w) /\ call[w].ref \in Refs
      BY DEF AnswersTrue, TypeOK
    <3>2. rows[call[w].ref] # None => rows'[call[w].ref] = rows[call[w].ref]
      BY <1>1, <3>1 DEF RowsGrow
    <3>q. QED
      BY <2>1, <3>1, <3>2 DEF AnswerTrue, RegisterAnswer, ReadAnswer, Agree, Same, BothDecode,
         Compiles, IsComplete
  <2>q. QED
    BY <2>2 DEF AnswersTrue
<1>5. BootCall'
  BY DEF Land, BootCall, memory
<1>q. QED
  BY <1>1, <1>2, <1>3, <1>4, <1>5, GrowthKept DEF memory

LEMMA InvOutside ==
  ASSUME IInv, TypeOK',
         (\E key \in Keys : Evict(key)) \/ (\E ref \in Refs : Archive(ref))
  PROVE  IInv'
<1> USE DEF IInv
<1>1. CacheCoherent'
  <2>1. \A ref \in Refs : Key(ref) \in Keys
    BY DEF Keys
  <2>2. CASE \E key \in Keys : Evict(key)
    BY <2>1, <2>2 DEF Evict, CacheCoherent, TypeOK
  <2>3. CASE \E ref \in Refs : Archive(ref)
    BY <2>3 DEF Archive, CacheCoherent
  <2>q. QED
    BY <2>2, <2>3
<1>2. UNCHANGED <<rows, limbo, memory, pc, call, status>>
  BY DEF Evict, Archive
<1>3. CompiledPublished' /\ PublishedUsable'
  BY <1>2 DEF memory, CompiledPublished, PublishedUsable
<1>4. BootProgress' /\ BootCall'
  BY <1>2 DEF memory, BootProgress, EntryIn, BootCall
<1>5. OpenCalls' /\ AnswersTrue'
  BY DEF Evict, Archive, memory, OpenCalls, AnswersTrue, AnswerTrue, RegisterAnswer, ReadAnswer
<1>q. QED
  BY <1>1, <1>3, <1>4, <1>5

LEMMA InvNext ==
  ASSUME PlainKinds, IInv, [Next]_vars
  PROVE  IInv'
<1>1. TypeOK'
  BY TypeStep DEF IInv
<1>2. CASE UNCHANGED vars
  <2>1. CacheCoherent' /\ CompiledPublished' /\ PublishedUsable' /\ BootProgress'
    BY <1>2, UntouchedKept DEF vars, Untouched, IInv
  <2>2. OpenCalls' /\ AnswersTrue'
    BY <1>2 DEF vars, IInv, OpenCalls, AnswersTrue, AnswerTrue, RegisterAnswer, ReadAnswer
  <2>3. BootCall'
    BY <1>2 DEF vars, IInv, BootCall
  <2>q. QED
    BY <1>1, <2>1, <2>2, <2>3 DEF IInv
<1>3. CASE Next
  BY <1>1, <1>3, KeysDistinct, InvStep, InvCalls, InvBoot, InvReplica, InvLand, InvOutside
     DEF Next
<1>q. QED
  BY <1>2, <1>3

-----------------------------------------------------------------------------
(* The inductive invariant: the table, the cache, each replica's memory,    *)
(* the open calls and the boots stay consistent with each other.            *)
THEOREM Consistent ==
  ASSUME PlainKinds
  PROVE  Spec => []IInv
<1>1. IInv /\ [Next]_vars => IInv'
  BY InvNext
<1>q. QED
  BY <1>1, InvInit, PTL DEF Spec

(* Whatever fails or crashes, Redis holds either nothing or the published   *)
(* document of a reference.                                                 *)
THEOREM CacheNeverStale ==
  ASSUME PlainKinds
  PROVE  Spec => []CacheCoherent
<1>1. IInv => CacheCoherent
  BY DEF IInv
<1>q. QED
  BY <1>1, Consistent, PTL

(* Replicas validate only with contracts that sameDocument equates with the *)
(* published row.                                                           *)
THEOREM OnlyPublishedCompiled ==
  ASSUME PlainKinds
  PROVE  Spec => []CompiledPublished
<1>1. IInv => CompiledPublished
  BY DEF IInv
<1>q. QED
  BY <1>1, Consistent, PTL

(* Every answer the registry gave stays true of the table.                  *)
THEOREM AnswersStayTrue ==
  ASSUME PlainKinds
  PROVE  Spec => []AnswersHold
<1>1. ASSUME IInv, NEW w \in Workers, call[w].op = "register" PROVE AgainIsNoOp(w)
  <2> SUFFICES ASSUME call[w].doc = rows[call[w].ref], rows[call[w].ref] \in Decodable,
                      call[w].ref \notin archived
               PROVE  status[w] \in {"none", "pending", "ok", "failed"}
    BY DEF AgainIsNoOp
  <2> DEFINE row == rows[call[w].ref]
  <2>1. row \in Docs /\ row # None
    BY RegistryAssumption
  <2>2. Compiles(row) /\ IsComplete(call[w].ref) /\ Same(row, row)
    BY <1>1, <2>1 DEF IInv, TypeOK, PublishedUsable, Same, BothDecode
  <2>3. status[w] \in {"none", "pending"} \cup Answers
    BY <1>1 DEF IInv, TypeOK
  <2>q. QED
    BY <1>1, <2>2, <2>3 DEF IInv, AnswersTrue, AnswerTrue, RegisterAnswer, Answers, BothDecode
<1>2. IInv => AnswersHold
  BY <1>1 DEF IInv, AnswersTrue, AnswerTrue, AnswersHold
<1>q. QED
  BY <1>2, Consistent, PTL

(* A replica that serves has all of its build's contracts published, as its *)
(* build knows them.                                                        *)
THEOREM BootAgreement ==
  ASSUME PlainKinds
  PROVE  Spec => []ServingBuildAgrees
<1>1. IInv => ServingBuildAgrees
  BY DEF IInv, BootProgress, EntryIn, ServingBuildAgrees
<1>q. QED
  BY <1>1, Consistent, PTL

(* No step of any replica rewrites or withdraws a published version.        *)
THEOREM PublishedForever == Spec => WriteOnce
<1>1. TypeOK /\ [Next]_vars => [RowsGrow]_vars
  <2> SUFFICES ASSUME TypeOK, Next PROVE RowsGrow
    OBVIOUS
  <2>1. CASE UNCHANGED rows
    BY <2>1 DEF RowsGrow
  <2>2. ASSUME NEW entry \in limbo, Land(entry) PROVE RowsGrow
    BY <2>2 DEF Land, Store, RowsGrow, TypeOK
  <2>q. QED
    BY <2>1, <2>2, StepGrows DEF Next, Calls, Boot, CallRegister, BeginRegister, CallRetrieve,
       CallValidate, BootRegister, BootAdvance, BootFail, Exit, Start, Serve, WiringFails,
       Crash, Evict, Archive
<1>q. QED
  BY <1>1, TypeCorrect, PTL DEF Spec, WriteOnce, RowsGrow

-----------------------------------------------------------------------------
(* The registry implements the write-once contract service: its steps are   *)
(* the service's, seen through the table and the workers' calls.            *)
LEMMA StepImplements ==
  ASSUME PlainKinds, IInv, TypeOK', NEW w \in Workers, Step(w)
  PROVE  Promise!Progress(w) \/ Promise!GiveUp({w}, "failed")
<1> USE RegistryAssumption DEF IInv
<1> DEFINE ref == call[w].ref
           undecidedNow == /\ pc[w] = "insert" /\ rows[ref] = None /\ UNCHANGED rows
                           /\ limbo' = limbo \cup {Submitted(w)}
                           /\ status'[w] = "failed" /\ held'[w] = None
<1>1. /\ status[w] = "pending"
      /\ UNCHANGED <<archived, call, seen>>
      /\ held'[w] \in Docs \cup {None}
      /\ status' = [status EXCEPT ![w] = status'[w]]
      /\ held' = [held EXCEPT ![w] = held'[w]]
  BY DEF Step, Insert, InsertFails, Reread, Compare, CacheHit, CacheMiss, Load, SelectFails,
         Fill, CompileStored, Retrieved, Goto, Return, OpenCalls, TypeOK, Doc
<1>2. \/ undecidedNow
      \/ UNCHANGED <<rows, limbo>>
      \/ pc[w] = "insert" /\ Store(ref, call[w].doc) /\ status'[w] \in {"pending", "failed"}
  BY DEF Step, Insert, InsertFails, Reread, Compare, CacheHit, CacheMiss, Load, SelectFails,
         Fill, PutCached, CompileStored, Goto, Return, TypeOK
<1>3. CASE undecidedNow
  <2>1. call[w].op = "register"
    BY <1>3 DEF OpenCalls
  <2>2. limbo' = limbo \cup {entry \in {Promise!Submission(w)} : rows[entry.ref] = None}
    BY <1>3 DEF Submitted, Promise!Submission
  <2>3. {Promise!Submission(v) : v \in {u \in {w} : Promise!Registering(u)}}
          = {Promise!Submission(w)}
    BY <1>1, <2>1 DEF Promise!Registering
  <2>4. /\ status' = [v \in Workers |-> IF v \in {w} THEN "failed" ELSE status[v]]
        /\ held' = [v \in Workers |-> IF v \in {w} THEN None ELSE held[v]]
    BY <1>1, <1>3 DEF TypeOK
  <2>q. QED
    BY <1>1, <1>3, <2>2, <2>3, <2>4 DEF Promise!GiveUp
<1>4. CASE ~ undecidedNow
  <2>1. \/ Promise!Registering(w) /\ Promise!Publish(Promise!Submission(w))
        \/ UNCHANGED <<rows, limbo>>
    <3> SUFFICES ASSUME pc[w] = "insert", Store(ref, call[w].doc)
                 PROVE  \/ Promise!Registering(w) /\ Promise!Publish(Promise!Submission(w))
                        \/ UNCHANGED <<rows, limbo>>
      BY <1>2, <1>4
    <3>1. Promise!Registering(w)
      BY <1>1 DEF OpenCalls, Promise!Registering
    <3>2. CASE rows[ref] = None
      BY <3>1, <3>2 DEF Store, Promise!Publish, Promise!Submission
    <3>3. CASE rows[ref] # None
      <4>1. \A entry \in limbo : entry.ref # ref
        BY <3>3 DEF PublishedUsable
      <4>q. QED
        BY <3>3, <4>1 DEF Store, TypeOK
    <3>q. QED
      BY <3>2, <3>3
  <2>2. status'[w] \in {"pending", "ok", "immutable", "uncomparable", "not_found", "failed"}
    <3>1. pc[w] = "compile" => held[w] \in Usable
      BY DEF OpenCalls, PublishedUsable, Compiles, TypeOK
    <3>q. QED
      BY <3>1 DEF Step, Insert, InsertFails, Reread, Compare, CacheHit, CacheMiss, Load,
         SelectFails, Fill, PutCached, CompileStored, Compiles, Retrieved, Goto, Return, TypeOK
  <2>3. status'[w] # "pending" =>
          Promise!Answerable(w, rows'[ref], status'[w], held'[w])
    <3>1. CASE status'[w] \in {"pending", "failed"}
      BY <3>1 DEF Promise!Answerable
    <3>2. CASE status'[w] \notin {"pending", "failed"}
      <4>1. UNCHANGED <<rows, limbo>>
        BY <1>2, <1>4, <3>2
      <4>2. AnswersTrue'
        BY InvStep
      <4>3. call[w].op \in Ops
        BY DEF TypeOK
      <4>4. CASE call[w].op = "register"
        BY <1>1, <2>2, <3>2, <4>1, <4>2, <4>4
           DEF AnswersTrue, AnswerTrue, RegisterAnswer, Agree, Same, BothDecode, Promise!Answerable,
               Promise!Accepted, Promise!Refused
      <4>5. CASE call[w].op # "register"
        BY <1>1, <2>2, <3>2, <4>1, <4>2, <4>3, <4>5
           DEF AnswersTrue, AnswerTrue, ReadAnswer, Ops, Promise!Answerable
      <4>q. QED
        BY <4>4, <4>5
    <3>q. QED
      BY <3>1, <3>2
  <2>q. QED
    BY <1>1, <2>1, <2>2, <2>3 DEF Promise!Progress
<1>q. QED
  BY <1>3, <1>4

LEMMA BeginImplements ==
  ASSUME IInv, NEW w \in Workers,
         \/ \E ref \in Refs, doc \in Docs : BeginRegister(w, ref, doc)
         \/ \E ref \in Refs : CallRetrieve(w, ref) \/ CallValidate(w, ref)
  PROVE  Promise!Ask(w)
<1> USE RegistryAssumption DEF IInv
<1>1. status[w] # "pending" /\ UNCHANGED <<rows, limbo, archived>>
  BY DEF BeginRegister, Compiles, CallRetrieve, CallValidate, Begin, OpenCalls
<1>2. ASSUME NEW ref \in Refs, NEW doc \in Docs, BeginRegister(w, ref, doc)
      PROVE  Promise!Ask(w)
  BY <1>1, <1>2
     DEF BeginRegister, Begin, Live, Goto, Return, WellFormed, Promise!Ask, Promise!Ops
<1>3. ASSUME NEW ref \in Refs, CallRetrieve(w, ref) PROVE Promise!Ask(w)
  BY <1>1, <1>3 DEF CallRetrieve, Begin, Live, Goto, Promise!Ask, Promise!Ops
<1>4. ASSUME NEW ref \in Refs, CallValidate(w, ref) PROVE Promise!Ask(w)
  <2> DEFINE known == compiled[Host[w]][ref]
  <2>1. known # None =>
          known \in Docs /\ rows[ref] # None /\ Agree(rows[ref], known)
    BY DEF CompiledPublished, TypeOK, Doc
  <2>2. CASE known # None
    <3>1. /\ call' = [call EXCEPT ![w] = [op |-> "validate", ref |-> ref, doc |-> None]]
          /\ seen' = [seen EXCEPT ![w] = rows[ref] # None /\ ref \notin archived]
          /\ status' = [status EXCEPT ![w] = "ok"]
          /\ held' = [held EXCEPT ![w] = known]
      BY <1>4, <2>2 DEF CallValidate, Begin, Live, Return
    <3>2. "validate" \in Promise!Ops /\ None \in Docs \cup {None}
      BY DEF Promise!Ops
    <3>q. QED
      BY <1>1, <2>1, <2>2, <3>1, <3>2 DEF Promise!Ask
  <2>3. CASE known = None
    <3>1. /\ call' = [call EXCEPT ![w] = [op |-> "validate", ref |-> ref, doc |-> None]]
          /\ seen' = [seen EXCEPT ![w] = rows[ref] # None /\ ref \notin archived]
          /\ status' = [status EXCEPT ![w] = "pending"]
          /\ held' = [held EXCEPT ![w] = None]
      BY <1>4, <2>3 DEF CallValidate, Begin, Live, Goto
    <3>2. "validate" \in Promise!Ops /\ None \in Docs \cup {None}
      BY DEF Promise!Ops
    <3>q. QED
      BY <1>1, <3>1, <3>2 DEF Promise!Ask
  <2>q. QED
    BY <2>2, <2>3
<1>q. QED
  BY <1>2, <1>3, <1>4

LEMMA ExitImplements ==
  ASSUME IInv, NEW r \in Replicas, Exit(r)
  PROVE  Promise!GiveUp(WorkersOf(r), "none")
<1> DEFINE open == {v \in WorkersOf(r) : Promise!Registering(v)}
<1>1. PICK sent \in SUBSET Unanswered(r) : limbo' = limbo \cup sent
  BY DEF Exit
<1>2. Unanswered(r) \subseteq {Promise!Submission(w) : w \in open}
  BY DEF IInv, OpenCalls, Unanswered, WorkersOf, Submitted, Promise!Submission,
         Promise!Registering
<1>3. \A entry \in Unanswered(r) : rows[entry.ref] = None
  BY DEF Unanswered, Submitted
<1>4. sent = {entry \in sent : rows[entry.ref] = None}
  BY <1>1, <1>3
<1>5. limbo' = limbo \cup {entry \in sent : rows[entry.ref] = None}
  BY <1>1, <1>4
<1>6. sent \in SUBSET {Promise!Submission(w) : w \in open}
  BY <1>1, <1>2
<1>7. /\ status' = [w \in Workers |-> IF w \in WorkersOf(r) THEN "none" ELSE status[w]]
      /\ held' = [w \in Workers |-> IF w \in WorkersOf(r) THEN None ELSE held[w]]
      /\ UNCHANGED <<rows, archived, call, seen>>
  BY DEF Exit, WorkersOf
<1>q. QED
  BY <1>5, <1>6, <1>7 DEF Promise!GiveUp

(* The registry implements the write-once contract service: one contract    *)
(* per reference, set by a registration that is open or was given up on,    *)
(* and no answer but "failed" that is not true of it.                       *)
THEOREM RegistryKeepsPromise ==
  ASSUME PlainKinds
  PROVE  Spec => PromiseKept
<1>1. Init => Promise!Init
  BY RegistryAssumption DEF Init, Promise!Init, Promise!Ops
<1>2. IInv /\ [Next]_vars => [Promise!Next]_(Promise!vars)
  <2> DEFINE stutter == UNCHANGED <<rows, limbo, archived, call, status, held, seen>>
  <2> SUFFICES ASSUME IInv, [Next]_vars PROVE Promise!Next \/ stutter
    BY DEF Promise!vars
  <2>1. CASE UNCHANGED vars
    BY <2>1 DEF vars
  <2>2. ASSUME NEW w \in Workers, Step(w) PROVE Promise!Next
    <3>1. TypeOK'
      BY TypeStep DEF IInv
    <3>2. status[w] = "pending"
      BY <2>2 DEF IInv, OpenCalls, Step, Insert, InsertFails, Reread, Compare, CacheHit,
         CacheMiss, Load, SelectFails, Fill, CompileStored
    <3>q. QED
      BY <2>2, <3>1, <3>2, StepImplements DEF Promise!Next
  <2>3. ASSUME NEW w \in Workers, Calls(w) PROVE Promise!Next
    BY <2>3, BeginImplements DEF Calls, CallRegister, Promise!Next
  <2>4. ASSUME NEW w \in Workers, Boot(w) PROVE Promise!Next
    <3>1. CASE BootRegister(w)
      <4> DEFINE entry == Catalog[Host[w]][booted[Host[w]] + 1]
      <4>1. entry \in Entries
        BY <3>1, RegistryAssumption DEF BootRegister, IInv, TypeOK
      <4>q. QED
        BY <3>1, <4>1, BeginImplements DEF BootRegister, Entries, Promise!Next
    <3>2. CASE BootAdvance(w)
      <4>1. Promise!GiveUp({w}, "none")
        <5>1. /\ status' = [v \in Workers |-> IF v \in {w} THEN "none" ELSE status[v]]
              /\ held' = [v \in Workers |-> IF v \in {w} THEN None ELSE held[v]]
              /\ UNCHANGED <<rows, limbo, archived, call, seen>>
          BY <3>2 DEF BootAdvance, Return, IInv, TypeOK
        <5>2. limbo' = limbo \cup {entry \in {} : rows[entry.ref] = None}
          BY <5>1
        <5>q. QED
          BY <5>1, <5>2 DEF Promise!GiveUp
      <4>q. QED
        BY <4>1 DEF Promise!Next
    <3>3. CASE BootFail(w)
      <4>1. Promise!GiveUp(WorkersOf(Host[w]), "none")
        BY <3>3, ExitImplements, RegistryAssumption DEF BootFail
      <4>q. QED
        BY <4>1 DEF Promise!Next, WorkersOf
    <3>q. QED
      BY <2>4, <3>1, <3>2, <3>3 DEF Boot
  <2>5. ASSUME NEW r \in Replicas, Start(r) \/ Serve(r) \/ WiringFails(r) \/ Crash(r)
        PROVE  Promise!Next \/ stutter
    <3>1. CASE WiringFails(r) \/ Crash(r)
      <4>1. Promise!GiveUp(WorkersOf(r), "none")
        BY <3>1, ExitImplements DEF WiringFails, Crash
      <4>q. QED
        BY <4>1 DEF Promise!Next, WorkersOf
    <3>q. QED
      BY <2>5, <3>1 DEF Start, Serve
  <2>6. ASSUME NEW entry \in limbo, Land(entry) PROVE Promise!Next
    <3>1. rows[entry.ref] = None
      BY DEF IInv, PublishedUsable
    <3>2. Promise!Publish(entry)
      BY <2>6, <3>1 DEF Land, Store, Promise!Publish
    <3>q. QED
      BY <2>6, <3>2 DEF Land, Promise!Late, Promise!Next
  <2>7. ASSUME (\E key \in Keys : Evict(key)) \/ (\E ref \in Refs : Archive(ref))
        PROVE  Promise!Next \/ stutter
    BY <2>7 DEF Evict, Archive, memory, Promise!Retire, Promise!Next
  <2>q. QED
    BY <2>1, <2>2, <2>3, <2>4, <2>5, <2>6, <2>7 DEF Next
<1>q. QED
  BY <1>1, <1>2, Consistent, PTL DEF Spec, PromiseKept, Promise!Spec
=============================================================================
