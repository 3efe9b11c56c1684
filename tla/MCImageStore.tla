---------------------------- MODULE MCImageStore ----------------------------
(* Small instances of ImageStore for TLC.                                  *)
EXTENDS ImageStore, TLC

(* Callers and identifiers are interchangeable.                             *)
Exchange == Permutations(Callers) \cup Permutations(Ids)
=============================================================================
