--------------------------- MODULE MCCheckpoints ---------------------------
(* Checkpoints for TLC: two processes on one project, the newest one kept. *)
EXTENDS Checkpoints

CONSTANTS b1, b2, v1, v2

Symmetry == Permutations(Blenders) \union Permutations(Scenes)
=============================================================================
