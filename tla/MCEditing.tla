----------------------------- MODULE MCEditing -----------------------------
(***************************************************************************)
(* Editing for TLC: scenes of up to two objects with something of each     *)
(* kind attached to them, in Object Mode and in Edit Mode, linked and not, *)
(* with a material in the file and a name still free.  Every operation is  *)
(* called, and a few are used in batches, in transactions and on the       *)
(* selection.                                                              *)
(***************************************************************************)
EXTENDS Editing

CONSTANTS g

Attached ==
  {"modifier", "constraint", "vertex_group", "shape_key", "parent"}

Scene(kinds, editing, unlinked, sel, active) ==
  [kind    |-> [n \in Names |-> IF n \in DOMAIN kinds THEN kinds[n] ELSE "none"],
   has     |-> [n \in Names |-> IF n \in DOMAIN kinds THEN Attached ELSE {}],
   home    |-> [n \in Names |-> IF n \notin DOMAIN kinds \/ n \in unlinked THEN {}
                                ELSE IF n = "a" THEN {g} ELSE {Root, g}],
   editing |-> editing,
   sel     |-> sel,
   active  |-> active,
   groups  |-> {g},
   data    |-> {"material"},
   set     |-> {}]

Studio == [a |-> "MESH", b |-> "CAMERA"]
Rig    == [a |-> "MESH", b |-> "ARMATURE"]

MCNames  == {"a", "b", "c"}
MCScene0 ==
  {Scene(Studio, {}, {}, {"a"}, "a"),
   Scene(Studio, {"a"}, {}, {"a", "b"}, "a"),        \* Edit Mode
   Scene(Rig, {"a", "b"}, {}, {}, "b"),              \* two objects in Edit Mode
   Scene(Rig, {}, {"a"}, {}, NoObject),              \* a in no collection
   Scene([n \in {} |-> "MESH"], {}, {}, {}, NoObject)}
MCTools  == Ops
MCBatch  == {"object.transform", "object.delete", "mesh.create_primitive", "add_modifier",
             "animation.keyframe"}
MCSteps  == {"object.transform", "add_constraint", "query", "exec.python", "select_all",
             "checkpoint.restore"}
=============================================================================
