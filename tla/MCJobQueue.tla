----------------------------- MODULE MCJobQueue -----------------------------
(* Small instances of JobQueue for TLC.                                    *)
EXTENDS JobQueue, TLC

Undisturbed == {[rotations |-> 0, stops |-> 0]}

(* Two rotations, or a consumer process that ends within a batch.           *)
RotatingOrStopping == {[rotations |-> 2, stops |-> 0], [rotations |-> 0, stops |-> 1]}

(* Jobs are interchangeable.                                                *)
Exchange == Permutations(Jobs)
=============================================================================
