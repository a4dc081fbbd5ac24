-------------------------- MODULE MCCommandBridge --------------------------
(***************************************************************************)
(* CommandBridge for TLC: two connections share one inbox and one pump.    *)
(***************************************************************************)
EXTENDS CommandBridge, TLC

CONSTANTS c1, c2, r1, r2, r3
Symmetry == Permutations({c1, c2}) \union Permutations({r1, r2, r3})
=============================================================================
