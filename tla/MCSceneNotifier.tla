-------------------------- MODULE MCSceneNotifier --------------------------
(***************************************************************************)
(* SceneNotifier for TLC.                                                  *)
(***************************************************************************)
EXTENDS SceneNotifier

CONSTANTS d1, d2, d3
=============================================================================
