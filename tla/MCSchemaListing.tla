--------------------------- MODULE MCSchemaListing ---------------------------
(* Small instances of SchemaListing for TLC.                               *)
EXTENDS MCSchemaRegistry, SchemaListing

(* The bound of the run: every write to Redis is one that had no effect, so *)
(* that every retrieval reads the table.                                    *)
Uncached == \A key \in Keys : cache[key] = None

(* The catalogs of the run are those of a rolling deploy.                   *)
ASSUME RollingDeploy == BuildsExtend
=============================================================================
