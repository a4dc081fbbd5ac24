-------------------------- MODULE DataCapabilities --------------------------
(***************************************************************************)
(* The capabilities that make datablocks or work inside them: mesh_edit.py,*)
(* vertex_groups.py, shape_keys.py, animation.py, datablocks.py, nodes.py, *)
(* geonodes.py, geonodes_presets.py, assets.py, exec_python.py and         *)
(* checkpoint.py of blender_addon/capabilities.                            *)
(***************************************************************************)
EXTENDS ObjectCapabilities

-----------------------------------------------------------------------------
(* mesh_edit.py, vertex_groups.py, shape_keys.py, animation.py.             *)

Meshes(w) == OfKind(w, {"MESH"})

\* _OP_HANDLERS: what the operations of a kind do to the bmesh together.  What
\* one did before it raised stays there and is written back with the rest.
Geometry(p, o, x) == {p, Mark(p, {o}, x)}
Generate(p, o) == Geometry(p, o, "grown")    \* extrude, inset, bevel, subdivide, loop_cut
Reduce(p, o)   == Geometry(p, o, "shrunk")   \* merge, delete, dissolve
Arrange(p, o)  == Geometry(p, o, "shaped")   \* bridge, fill, normals, smooth, transform

\* An operation that fails is reported and the others run.  bmesh.to_mesh
\* raises for an object in Edit Mode: then nothing has been written.
MeshEdit(w) ==
  LET p == UndoPush(w)
      edited(o) ==
        UNION {UNION {Arrange(v, o) : v \in Reduce(u, o)} : u \in Generate(p, o)}
  IN  Raises(w) \union
      UNION {IF o \in w.scene.editing THEN Raises(p)
             ELSE UNION {Returns(v) : v \in edited(o)} : o \in Meshes(w)}
MeshRead(w) == Ends(w)

\* Every argument of these is checked before the push.
GetMeshObject(w) == Meshes(w)
CreateVertexGroup(w) ==
  Raises(w) \union
    UNION {Returns(Mark(UndoPush(w), {o}, "vertex_group")) : o \in GetMeshObject(w)}
RemoveVertexGroup(w) ==
  Raises(w) \union
    OneLess(UndoPush(w), GetMeshObject(w) \intersect With(w, "vertex_group"), "vertex_group")
ListVertexGroups(w) == Ends(w)

\* vg.add refuses a mesh in Edit Mode.
SetVertexWeights(w) ==
  LET p == UndoPush(w)
  IN  Raises(w) \union
      UNION {IF o \in w.scene.editing THEN Raises(p) ELSE Returns(Mark(p, {o}, "weights"))
             : o \in GetMeshObject(w) \intersect With(w, "vertex_group")}

GetKeyableObject(w) == OfKind(w, {"MESH", "CURVE"})

\* The Basis and the key are there when its value is read.
AddShapeKey(w) ==
  Raises(w) \union OneOf(UndoPush(w), GetKeyableObject(w), "shape_key")
SetShapeKeyValue(w) ==
  Raises(w) \union
    OneOf(UndoPush(w), GetKeyableObject(w) \intersect With(w, "shape_key"), "key_value")

\* Without shape keys there is no push; with them the push comes before the
\* name is looked up.
RemoveShapeKey(w) ==
  LET p == UndoPush(w)
  IN  Raises(w) \union
      UNION {IF o \in With(w, "shape_key")
             THEN Raises(p) \union Returns(Unmark(p, {o}, "shape_key"))
             ELSE Returns(w)
             : o \in GetKeyableObject(w)}
ListShapeKeys(w) == Ends(w)

\* The frame is set first, then the value, then the key.
AnimationKeyframe(w) ==
  LET p == UndoPush(w)
      moved == Setting(p, "frame")
  IN  Raises(w) \union Raises(p) \union Raises(moved)
        \union UNION {Raises(Mark(moved, {o}, "moved"))
                        \union Ends(Mark(moved, {o}, "keyframe"))
                        \union Returns(Mark(Mark(moved, {o}, "moved"), {o}, "keyframe"))
                      : o \in Objs(w)}

-----------------------------------------------------------------------------
(* datablocks.py: the datablock, its object, the link and the values.       *)

\* A value that is wrong raises when the object is in the scene.
CreateLight(w) ==
  Raises(w) \union UNION {Ends(v) : v \in Linked(UndoPush(w), "LIGHT")}

CreateCamera(w) ==
  UNION {Ends(v) \union Returns(Setting(v, "camera")) : v \in Linked(UndoPush(w), "CAMERA")}

SetActiveCamera(w) ==
  Raises(w) \union
    UNION {Returns(Setting(UndoPush(w), "camera")) : o \in OfKind(w, {"CAMERA"})}

\* The values come before the link: one that is wrong leaves the object out
\* of the scene.
CreateEmpty(w) ==
  Raises(w) \union
    UNION {Raises(NewObject(UndoPush(w), n, "EMPTY"))
             \union Returns(Link(NewObject(UndoPush(w), n, "EMPTY"), n, {Root}))
           : n \in Free(w)}

\* Some values come before the object, some after.
CurveObject(w) ==
  LET p == UndoPush(w)
  IN  Raises(Make(p, "curve")) \union UNION {Ends(v) : v \in Linked(Make(p, "curve"), "CURVE")}
CreateText(w)  == CurveObject(w)
CreateCurve(w) == Raises(w) \union CurveObject(w)

\* For the bones the new armature is active and in Edit Mode; whatever
\* happens there, it goes back to Object Mode and the active object too.
CreateArmature(w) ==
  LET back(v, n) ==
        Activate(Select(v, {n}), IF w.scene.active = NoObject THEN n ELSE w.scene.active)
  IN  UNION {LET v == Link(NewObject(UndoPush(w), n, "ARMATURE"), n, {Root})
             IN  Ends(v) \union Ends(back(v, n)) : n \in Free(w)}

LoadImage(w) ==
  LET p == UndoPush(w) IN Raises(w) \union UpTo(p, Make(p, "image"))
CreateImage(w) ==
  LET p == UndoPush(w) IN Raises(w) \union UpTo(p, Make(p, "image"))

-----------------------------------------------------------------------------
(* nodes.py, geonodes.py, geonodes_presets.py.                              *)

\* Finding the tree may make it: the world, the compositor's tree, the
\* material of "material:Name!", the modifier and its group.
ResolveNodeTree(w) ==
  {w, Make(w, "world"), Setting(w, "use_nodes"), Make(w, "material")}
    \union {Make(Mark(w, {o}, "modifier"), "node_group") : o \in Objs(w)}

\* ... and it does before the push.  Clearing, removals and the interface
\* report what fails; a node spec without a type, or of an unknown one,
\* raises with the nodes before it in the tree.
BuildNodes(w) ==
  Raises(w) \union
    UNION {Raises(v) \union Ends(Make(UndoPush(v), "nodes")) : v \in ResolveNodeTree(w)}

AssignMaterial(w) ==
  Raises(w) \union
    IF "material" \in w.scene.data THEN OneOf(UndoPush(w), Objs(w), "slot") ELSE {}

GeoNodesObjects(w) == With(w, "modifier")    \* _get_modifier, _resolve_input_id

\* The modifier is there when the group is looked up.
GeoCreateModifier(w, dry) ==
  LET p == UndoPush(w)
  IN  Raises(w) \union
      UNION {IF dry THEN Returns(w)
             ELSE Ends(Mark(p, {o}, "modifier"))
                    \union Returns(Make(Mark(p, {o}, "modifier"), "node_group"))
             : o \in Objs(w)}

GeoDescribeGroup(w) == Ends(w)

GeoSetInput(w, dry) ==
  Raises(w) \union
    UNION {IF dry THEN Returns(w) ELSE UpTo(UndoPush(w), Mark(UndoPush(w), {o}, "input"))
           : o \in GeoNodesObjects(w)}

\* Key by key: the value is set before the key is inserted.
GeoAnimateInput(w, dry) ==
  LET p == UndoPush(w)
      keyed(o) == Mark(Mark(p, {o}, "input"), {o}, "keyframe")
  IN  Raises(w) \union
      UNION {IF dry THEN Returns(w)
             ELSE Raises(Mark(p, {o}, "input")) \union UpTo(p, keyed(o))
             : o \in GeoNodesObjects(w)}

\* A dry run is answered before an existing group is noticed.
GeoCreateGroup(w, dry) ==
  Raises(w) \union
    IF dry \/ "node_group" \in w.scene.data THEN Returns(w)
    ELSE Ends(Make(UndoPush(w), "node_group"))

\* The object stays active; the modifier may refuse to be applied.
GeoRealize(w, dry) ==
  LET p == UndoPush(w)
      applied(o) == Mark(Unmark(Activate(p, o), {o}, "modifier"), {o}, "geometry")
  IN  Raises(w) \union
      UNION {IF dry THEN Returns(w)
             ELSE IF o \in InView(w) THEN Raises(Activate(p, o)) \union Returns(applied(o))
             ELSE Raises(p)
             : o \in GeoNodesObjects(w)}

GeoListPresets(w) == Returns(w)
GeoGetPreset(w)   == Ends(w)

\* Interface and graph of the new group; they raise half way.
BuildPreset(p) == {Make(p, "node_group"), Make(Make(p, "node_group"), "nodes")}

GeoApplyPreset(w, dry) ==
  LET p == UndoPush(w)
      built == Make(Make(p, "node_group"), "nodes")
  IN  Raises(w) \union
      IF dry THEN Returns(w)
      ELSE Raises(p) \union Returns(built) \union (UNION {Raises(v) : v \in BuildPreset(p)})
             \union UNION {Returns(Mark(built, {o}, "modifier")) : o \in Objs(w)}

-----------------------------------------------------------------------------
(* assets.py, exec_python.py, checkpoint.py.                                *)

\* The importer may raise half way.  What it brought moves to a collection,
\* which is made if it is not there.
ImportAsset(w) ==
  LET p == UndoPush(w)
      Into(v, n, g) ==
        [Link(v, n, {}) EXCEPT !.scene.home[n] = {g}, !.scene.groups = @ \union {g}]
  IN  Raises(w) \union Raises(p) \union
      UNION {LET v == Link(NewObject(p, n, "MESH"), n, {Root})
             IN  Ends(v) \union UNION {Returns(Into(v, n, g)) : g \in Groups}
             : n \in Free(w)}

\* With link=True the datablocks are loaded and put in no scene.
LinkBlend(w) ==
  LET p == UndoPush(w)
  IN  Raises(w) \union Raises(p) \union Returns(Make(p, "library"))
        \union UNION {Returns(v) : v \in Linked(p, "MESH")}

ListAssets(w) == Ends(w)

\* The code may have done anything when it raises; that is reported, with
\* executed: False, and is no error.
ExecPython(w) ==
  LET p == UndoPush(w)
  IN  Raises(w) \union UNION {Reports(v) \union Returns(v) : v \in Effects(p)}

\* Saving a copy changes nothing; opening one replaces everything, undo
\* steps included, and pushes nothing.
CheckpointCreate(w) == Returns(w) \union Reports(w)
CheckpointList(w)   == Returns(w)
CheckpointRestore(w, saved) == Reports(w) \union Returns(Opened(saved))
=============================================================================
