------------------------- MODULE MCReauthentication -------------------------
(***************************************************************************)
(* Reauthentication for TLC: overlapping calls around a token rotation.    *)
(***************************************************************************)
EXTENDS Reauthentication, TLC

CONSTANTS k1, k2, k3
Symmetry == Permutations(Calls)
=============================================================================
