---------------------------- MODULE Capabilities ----------------------------
(***************************************************************************)
(* The capabilities that read, render and compose, and the registry of all *)
(* of them (blender_addon/capabilities/__init__.py): what each operation   *)
(* name does to the world.                                                 *)
(***************************************************************************)
EXTENDS DataCapabilities

-----------------------------------------------------------------------------
(* query.py, snapshot.py, scene_context.py, diff.py: they serialise what    *)
(* they find.  An unknown target or kind raises.                            *)

ResolveTarget(w) == Ends(w)    \* _resolve_target, _walk
Project(w)       == Returns(w) \* to_jsonable, _project_fields
Query(w)         == ResolveTarget(w) \union Project(w)
ListItems(w)     == Ends(w)
DescribeApi(w)   == Ends(w)
AuditRead(w)     == Returns(w)
SceneSnapshot(w) == Returns(w)
SceneContext(w)  == Returns(w)

\* The baseline it compares with and replaces is kept by the add-on, not in
\* the scene.
SceneDiff(w) == Returns(w)

(* render.py: settings are written for the render and restored after it.    *)

\* The camera is set before the try: a shading type that is refused leaves
\* it behind.
ViewportScreenshot(w) ==
  Ends(w) \union
    UNION {Raises(Setting(w, "camera")) : o \in OfKind(w, {"CAMERA"})}

RenderRegion(w) == Ends(w)

\* A scene of its own is made, shown and removed; the plane, the light and
\* the camera that were in it stay among bpy.data.objects.
BakePreview(w) ==
  LET p == UndoPush(w)
  IN  Raises(w) \union
      IF "material" \in w.scene.data THEN UpTo(p, Make(p, "preview")) ELSE {}

-----------------------------------------------------------------------------
(* composer.py: the specs of create_objects.                                *)

\* _make_one: the object, then its transform, parent, collection, material
\* and modifiers.  A spec that is wrong stops before the object, with its
\* data, or with the object half done.
MakeOne(w) ==
  LET made == PrimitiveAdd(w) \union Linked(w, "LIGHT")
                \union Linked(w, "CAMERA") \union Linked(w, "EMPTY")
      unlinked == {NewObject(w, n, "EMPTY") : n \in Free(w)}
      grouped(v, g) ==
        Rehome([v EXCEPT !.scene.groups = @ \union {g}],
               [n \in Names |-> IF n \in Objs(v) \ Objs(w) THEN {g} ELSE v.scene.home[n]])
  IN  {w, Make(w, "light")} \union unlinked \union made
        \union {Setting(v, "camera") : v \in Linked(w, "CAMERA")}
        \union {grouped(v, g) : v \in made, g \in Groups}

\* A spec that fails is reported; the call succeeds.
CreateObjects(w, dry) ==
  Raises(w) \union
    IF dry THEN Returns(w) ELSE UNION {Returns(v) : v \in MakeOne(UndoPush(w))}

-----------------------------------------------------------------------------
(* The registry.                                                            *)

\* Handlers that look at args["__dry_run"].
DryRunOps ==
  {"object.transform", "object.delete", "create_objects", "geonodes.create_modifier",
   "geonodes.set_input", "geonodes.animate_input", "geonodes.create_group",
   "geonodes.realize", "geonodes.apply_preset"}

ReadOps ==
  {"query", "list", "describe_api", "audit.read", "scene.snapshot", "scene.context",
   "scene_diff", "get_property", "list_collections", "list_constraints",
   "list_vertex_groups", "list_shape_keys", "bbox_info", "mesh_read",
   "geonodes.describe_group", "geonodes.list_presets", "geonodes.get_preset",
   "list_assets", "checkpoint.list", "checkpoint.create",
   "render.viewport_screenshot", "render.region", "render.bake_preview"}

WriteOps ==
  DryRunOps \union
  {"mesh.create_primitive", "duplicate_object", "set_visibility", "set_parent",
   "clear_parent", "create_collection", "delete_collection", "move_to_collection",
   "deselect_all", "select", "set_active", "select_all", "set_mode", "rename",
   "add_constraint", "remove_constraint", "add_modifier", "remove_modifier",
   "set_property", "call_operator", "place_above", "align_to", "array_around",
   "distribute", "look_at", "mesh_edit", "create_vertex_group",
   "remove_vertex_group", "set_vertex_weights", "add_shape_key",
   "set_shape_key_value", "remove_shape_key", "animation.keyframe", "create_light",
   "create_camera", "set_active_camera", "create_empty", "create_text",
   "create_curve", "create_armature", "load_image", "create_image", "build_nodes",
   "assign_material", "import_asset", "link_blend", "exec.python",
   "checkpoint.restore"}

Ops == ReadOps \union WriteOps

\* OP_REGISTRY[op](args).  saved is what a checkpoint holds.
Run(op, w, dry, saved) ==
  CASE op = "object.transform"          -> ObjectTransform(w, dry)
    [] op = "object.delete"             -> ObjectDelete(w, dry)
    [] op = "mesh.create_primitive"     -> MeshCreatePrimitive(w)
    [] op = "duplicate_object"          -> DuplicateObject(w)
    [] op = "set_visibility"            -> SetVisibility(w)
    [] op = "set_parent"                -> SetParent(w)
    [] op = "clear_parent"              -> ClearParent(w)
    [] op = "create_collection"         -> CreateCollection(w)
    [] op = "delete_collection"         -> DeleteCollection(w)
    [] op = "move_to_collection"        -> MoveToCollection(w)
    [] op = "list_collections"          -> ListCollections(w)
    [] op = "deselect_all"              -> DeselectAll(w)
    [] op = "select"                    -> SelectObjects(w)
    [] op = "set_active"                -> SetActive(w)
    [] op = "select_all"                -> SelectAll(w)
    [] op = "set_mode"                  -> SetMode(w)
    [] op = "rename"                    -> Rename(w)
    [] op = "add_constraint"            -> AddConstraint(w)
    [] op = "remove_constraint"         -> RemoveConstraint(w)
    [] op = "list_constraints"          -> ListConstraints(w)
    [] op = "add_modifier"              -> AddModifier(w)
    [] op = "remove_modifier"           -> RemoveModifier(w)
    [] op = "set_property"              -> SetProperty(w)
    [] op = "get_property"              -> GetProperty(w)
    [] op = "call_operator"             -> CallOperator(w)
    [] op = "place_above"               -> PlaceAbove(w)
    [] op = "align_to"                  -> AlignTo(w)
    [] op = "array_around"              -> ArrayAround(w)
    [] op = "distribute"                -> Distribute(w)
    [] op = "look_at"                   -> LookAt(w)
    [] op = "bbox_info"                 -> BboxInfo(w)
    [] op = "mesh_edit"                 -> MeshEdit(w)
    [] op = "mesh_read"                 -> MeshRead(w)
    [] op = "create_vertex_group"       -> CreateVertexGroup(w)
    [] op = "remove_vertex_group"       -> RemoveVertexGroup(w)
    [] op = "list_vertex_groups"        -> ListVertexGroups(w)
    [] op = "set_vertex_weights"        -> SetVertexWeights(w)
    [] op = "add_shape_key"             -> AddShapeKey(w)
    [] op = "set_shape_key_value"       -> SetShapeKeyValue(w)
    [] op = "remove_shape_key"          -> RemoveShapeKey(w)
    [] op = "list_shape_keys"           -> ListShapeKeys(w)
    [] op = "animation.keyframe"        -> AnimationKeyframe(w)
    [] op = "create_light"              -> CreateLight(w)
    [] op = "create_camera"             -> CreateCamera(w)
    [] op = "set_active_camera"         -> SetActiveCamera(w)
    [] op = "create_empty"              -> CreateEmpty(w)
    [] op = "create_text"               -> CreateText(w)
    [] op = "create_curve"              -> CreateCurve(w)
    [] op = "create_armature"           -> CreateArmature(w)
    [] op = "load_image"                -> LoadImage(w)
    [] op = "create_image"              -> CreateImage(w)
    [] op = "build_nodes"               -> BuildNodes(w)
    [] op = "assign_material"           -> AssignMaterial(w)
    [] op = "geonodes.create_modifier"  -> GeoCreateModifier(w, dry)
    [] op = "geonodes.describe_group"   -> GeoDescribeGroup(w)
    [] op = "geonodes.set_input"        -> GeoSetInput(w, dry)
    [] op = "geonodes.animate_input"    -> GeoAnimateInput(w, dry)
    [] op = "geonodes.create_group"     -> GeoCreateGroup(w, dry)
    [] op = "geonodes.realize"          -> GeoRealize(w, dry)
    [] op = "geonodes.list_presets"     -> GeoListPresets(w)
    [] op = "geonodes.get_preset"       -> GeoGetPreset(w)
    [] op = "geonodes.apply_preset"     -> GeoApplyPreset(w, dry)
    [] op = "import_asset"              -> ImportAsset(w)
    [] op = "link_blend"                -> LinkBlend(w)
    [] op = "list_assets"               -> ListAssets(w)
    [] op = "exec.python"               -> ExecPython(w)
    [] op = "checkpoint.create"         -> CheckpointCreate(w)
    [] op = "checkpoint.list"           -> CheckpointList(w)
    [] op = "checkpoint.restore"        -> CheckpointRestore(w, saved)
    [] op = "create_objects"            -> CreateObjects(w, dry)
    [] op = "query"                     -> Query(w)
    [] op = "list"                      -> ListItems(w)
    [] op = "describe_api"              -> DescribeApi(w)
    [] op = "audit.read"                -> AuditRead(w)
    [] op = "scene.snapshot"            -> SceneSnapshot(w)
    [] op = "scene.context"             -> SceneContext(w)
    [] op = "scene_diff"                -> SceneDiff(w)
    [] op = "render.viewport_screenshot" -> ViewportScreenshot(w)
    [] op = "render.region"             -> RenderRegion(w)
    [] op = "render.bake_preview"       -> BakePreview(w)
=============================================================================
