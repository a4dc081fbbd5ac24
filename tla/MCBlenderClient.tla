-------------------------- MODULE MCBlenderClient --------------------------
(***************************************************************************)
(* BlenderClient for TLC: overlapping calls over one or more sockets.      *)
(***************************************************************************)
EXTENDS BlenderClient, TLC

CONSTANTS k1, k2, k3
Symmetry == Permutations(Calls)
=============================================================================
