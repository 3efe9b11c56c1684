-------------------------- MODULE MCSchemaRegistry --------------------------
(***************************************************************************)
(* Small instances of SchemaRegistry for TLC.                              *)
(*                                                                         *)
(* dA and dA2 differ only in a number beyond float64's precision (say      *)
(* 9007199254740992 and 9007199254740993), dB is another contract, dHuge   *)
(* holds a number beyond float64's range (1e400), dBad is not a schema.    *)
(***************************************************************************)
EXTENDS SchemaRegistry, TLC

CONSTANTS dA, dA2, dB, dHuge, dBad, r1, r2, w1, w2

Ref(kind, version) == [kind |-> kind, version |-> version]
deployV1 == Ref(<<"deploy">>, <<"v1">>)
deployV2 == Ref(<<"deploy">>, <<"v2">>)
deployV3 == Ref(<<"deploy">>, <<"v3">>)
anonymous == Ref(<<"deploy">>, Empty)

OneRef == {deployV1}
OnlyV2 == {deployV2}
ThreeVersions == {deployV1, deployV2, deployV3}
WithUnnamed == {deployV1, deployV2, anonymous}

AllDocs == {dA, dA2, dB, dHuge, dBad}
OneDoc == {dA}
TwoDocs == {dA, dB}
ThreeDocs == {dA, dA2, dB}
AllButBad == {dA, dA2, dB, dHuge}
AllButHuge == {dA, dA2, dB, dBad}
Rounded == [d \in AllDocs |-> IF d = dA2 THEN dA ELSE d]
RoundedOne == [d \in OneDoc |-> d]
RoundedTwo == [d \in TwoDocs |-> d]
RoundedThree == [d \in ThreeDocs |-> IF d = dA2 THEN dA ELSE d]

HostTwo == w1 :> r1 @@ w2 :> r2

Built(ref, doc) == [ref |-> ref, doc |-> doc]

(* Exchanging the two replicas with their workers maps behaviours to        *)
(* behaviours when both run the same build.                                 *)
Exchange == {r1 :> r2 @@ r2 :> r1 @@ w1 :> w2 @@ w2 :> w1}

(* No built-ins: every contract arrives over HTTP.                          *)
NoCatalog == r1 :> <<>> @@ r2 :> <<>>

(* A rolling deploy: r2's build adds v2, which a client of r1 may have     *)
(* published before; v3 comes from clients only.                           *)
NewerCatalog == r1 :> <<Built(deployV1, dA)>>
             @@ r2 :> <<Built(deployV1, dA), Built(deployV2, dA)>>

(* A rolling deploy: r2's build adds v2 and has edited the frozen v1.       *)
EditedCatalog == r1 :> <<Built(deployV1, dA)>>
              @@ r2 :> <<Built(deployV2, dB), Built(deployV1, dB)>>
=============================================================================
