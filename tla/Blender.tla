------------------------------ MODULE Blender ------------------------------
(***************************************************************************)
(* Blender as the capabilities of the add-on see it: the scene they write  *)
(* through bpy and the undo stack they push to.  Blender's own code is not *)
(* in the repository; this module is what blender_addon/capabilities/*.py  *)
(* relies on.                                                              *)
(*                                                                         *)
(*  - A datablock is described by what has been attached to it or changed  *)
(*    in it, not by values: the aspect "moved" stands for a transform that *)
(*    was written.                                                         *)
(*  - An operator that Python calls pushes no undo step of its own; only   *)
(*    bpy.ops.ed.undo_push does.  It stores the scene as it is NOW.        *)
(*  - bpy.ops.ed.undo loads the step before the active one: what was       *)
(*    changed since the active step was stored is not kept anywhere.       *)
(***************************************************************************)
EXTENDS Naturals, Sequences, FiniteSets

CONSTANTS
  Names,       \* names an object can have; bounds how many there are
  NoObject,    \* None
  Groups,      \* names of collections
  UndoSteps    \* Preferences > System > Undo Steps

ASSUME BlenderAssumption ==
  /\ NoObject \notin Names
  /\ IsFiniteSet(Names)
  /\ UndoSteps \in Nat \ {0}

Kinds == {"none", "MESH", "CURVE", "ARMATURE", "LIGHT", "CAMERA", "EMPTY"}

\* The kinds of object that have a mode other than OBJECT.
Editable == {"MESH", "CURVE", "ARMATURE"}

\* The master collection of the scene.
Root == "root"

\* What the capabilities, operators, code and the user attach to an object
\* or change in it; the other datablocks; the settings.
Aspects ==
  {"constraint", "earlier", "geometry", "grown", "hidden", "input", "key_value",
   "keyframe", "modifier", "moved", "name", "op", "parent", "property", "shape_key",
   "shaped", "shrunk", "slot", "user", "vertex_group", "weights"}
Datablocks ==
  {"curve", "image", "library", "light", "material", "node_group", "nodes", "op",
   "preview", "property", "world"}
Settings == {"camera", "frame", "name", "op", "property", "use_nodes"}

Scenes ==
  [kind    : [Names -> Kinds],               \* bpy.data.objects
   has     : [Names -> SUBSET Aspects],      \* what is attached to each
   home    : [Names -> SUBSET (Groups \union {Root})],  \* users_collection
   editing : SUBSET Names,                   \* objects not in OBJECT mode
   sel     : SUBSET Names,                   \* selected objects
   active  : Names \union {NoObject},        \* view_layer.objects.active
   groups  : SUBSET Groups,                  \* bpy.data.collections
   data    : SUBSET Datablocks,              \* other datablocks
   set     : SUBSET Settings]                \* settings of scene and view

\* A world is the scene and the undo stack.  pushes counts the undo pushes
\* since the file was opened, for the properties only.
Worlds == [scene : Scenes, steps : Seq(Scenes), at : Nat, pushes : Nat]

Objs(w) == {n \in Names : w.scene.kind[n] # "none"}
Free(w) == Names \ Objs(w)
OfKind(w, K) == {n \in Objs(w) : w.scene.kind[n] \in K}
With(w, x) == {n \in Objs(w) : x \in w.scene.has[n]}

\* Objects of the view layer: those that are in a collection of the scene.
InView(w) == {n \in Objs(w) : w.scene.home[n] # {}}

\* select_set raises for the others.
Selectable(w) == InView(w) \ With(w, "hidden")

\* bpy.context.mode # "OBJECT": the mode is that of the active object.
InEditMode(w) == w.scene.active \in w.scene.editing

\* ---- undo -----------------------------------------------------------

\* bpy.ops.ed.undo_push: steps that were undone are dropped, the scene is
\* appended and becomes the active step, the oldest falls off the end.
UndoPush(w) ==
  LET steps == Append(SubSeq(w.steps, 1, w.at), w.scene)
      kept  == IF Len(steps) > UndoSteps THEN Tail(steps) ELSE steps
  IN  [scene |-> w.scene, steps |-> kept, at |-> Len(kept), pushes |-> w.pushes + 1]

\* bpy.ops.ed.undo
Undo(w) ==
  IF w.at > 1
  THEN [w EXCEPT !.at = @ - 1, !.scene = w.steps[w.at - 1]]
  ELSE w

\* bpy.ops.wm.open_mainfile: the scene and the undo stack are new.
Opened(s) == [scene |-> s, steps |-> <<s>>, at |-> 1, pushes |-> 0]

\* ---- writes ---------------------------------------------------------

Mark(w, S, x) ==
  [w EXCEPT !.scene.has =
     [n \in Names |-> IF n \in S THEN @[n] \union {x} ELSE @[n]]]

Unmark(w, S, x) ==
  [w EXCEPT !.scene.has =
     [n \in Names |-> IF n \in S THEN @[n] \ {x} ELSE @[n]]]

Make(w, d)     == [w EXCEPT !.scene.data = @ \union {d}]
Setting(w, x)  == [w EXCEPT !.scene.set = @ \union {x}]
Activate(w, o) == [w EXCEPT !.scene.active = o]
Select(w, S)   == [w EXCEPT !.scene.sel = @ \union S]
Deselect(w)    == [w EXCEPT !.scene.sel = {}]
Focus(w, o)    == Activate(Select(w, {o}), o)

\* bpy.data.objects.new: in no collection, so in no scene yet.
NewObject(w, n, k) ==
  [w EXCEPT !.scene.kind[n] = k]

\* Object.copy()
CopyObject(w, o, n) ==
  [w EXCEPT !.scene.kind[n] = w.scene.kind[o], !.scene.has[n] = w.scene.has[o]]

\* collection.objects.link
Link(w, n, C) == [w EXCEPT !.scene.home[n] = @ \union C]

\* objects.link and .unlink: an object that is in no collection any more is
\* not selected and not active.
Rehome(w, home) ==
  [w EXCEPT !.scene =
    [w.scene EXCEPT
       !.home   = home,
       !.sel    = {n \in @ : home[n] # {}},
       !.active = IF @ # NoObject /\ home[@] = {} THEN NoObject ELSE @]]

\* A new object of kind k in the scene, for each name that is free.
Linked(w, k) == {Link(NewObject(w, n, k), n, {Root}) : n \in Free(w)}

\* bpy.data.objects.remove(do_unlink=True)
Remove(w, S) ==
  [w EXCEPT !.scene =
    [w.scene EXCEPT
       !.kind    = [n \in Names |-> IF n \in S THEN "none" ELSE @[n]],
       !.has     = [n \in Names |-> IF n \in S THEN {} ELSE @[n]],
       !.home    = [n \in Names |-> IF n \in S THEN {} ELSE @[n]],
       !.editing = @ \ S,
       !.sel     = @ \ S,
       !.active  = IF @ \in S THEN NoObject ELSE @]]

\* bpy.ops.object.mode_set acts on the active object.
ObjectMode(w) == [w EXCEPT !.scene.editing = @ \ {w.scene.active}]
EditMode(w) ==
  [w EXCEPT !.scene.editing =
     IF w.scene.active \in OfKind(w, Editable) THEN @ \union {w.scene.active} ELSE @]

\* bpy.ops.mesh.primitive_*_add: in Edit Mode the geometry goes into the
\* mesh that is edited; otherwise a new object is active and selected.
PrimitiveAdd(w) ==
  IF InEditMode(w) /\ w.scene.kind[w.scene.active] = "MESH"
  THEN {Mark(w, {w.scene.active}, "geometry")}
  ELSE {LET v == Link(NewObject(Deselect(w), n, "MESH"), n, {Root})
        IN  Select(Activate(v, n), {n}) : n \in Free(w)}

\* What an operator the caller names may do to the scene, and what code may
\* do: one change of each kind.
Effects(w) ==
  {w, ObjectMode(w), EditMode(w), Setting(w, "op"), Make(w, "op"), Remove(w, w.scene.sel)}
    \union {Mark(w, {o}, "op") : o \in Objs(w)}
    \union PrimitiveAdd(w)
=============================================================================
