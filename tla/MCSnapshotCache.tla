-------------------------- MODULE MCSnapshotCache --------------------------
(***************************************************************************)
(* SnapshotCache for TLC: reads that overlap one another, one or two       *)
(* mutations, edits by others, and a clock that can pass the TTL.          *)
(***************************************************************************)
EXTENDS SnapshotCache, TLC

CONSTANTS k1, k2, k3, w1, w2
Symmetry == Permutations(Reads) \union Permutations(Writes)
=============================================================================
