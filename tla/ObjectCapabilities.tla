------------------------- MODULE ObjectCapabilities -------------------------
(***************************************************************************)
(* The capabilities that work on whole objects: scene.py, mesh.py,         *)
(* object_ops.py, collections.py, mode.py, selection.py, rename.py,        *)
(* constraints.py, modifier.py, properties.py, operator.py and spatial.py  *)
(* of blender_addon/capabilities.                                          *)
(*                                                                         *)
(* A capability is the set of its outcomes in a world: the world it leaves *)
(* and how it ends.  Which object, name or value the arguments give is     *)
(* left open, whatever the capability does with it is not:                 *)
(*   "ok"      it returns its result                                       *)
(*   "soft"    it returns a result that says ok: False (executed: False)   *)
(*   "raised"  it raises; nothing takes back what it has done so far       *)
(* p is the world after the capability's own undo push.                    *)
(***************************************************************************)
EXTENDS Blender

Returns(w) == {[w |-> w, r |-> "ok"]}
Reports(w) == {[w |-> w, r |-> "soft"]}
Raises(w)  == {[w |-> w, r |-> "raised"]}

\* Either way, and after either of two worlds.
Ends(w) == Returns(w) \union Raises(w)
UpTo(p, v) == Raises(p) \union Ends(v)

\* A loop over the names of args["objects"]: an unknown one stops it.
EachOf(p, S, x) == UNION {Ends(Mark(p, T, x)) : T \in SUBSET S}

\* One of the objects S, which has been looked up, gets or loses x.
OneOf(p, S, x)  == UNION {UpTo(p, Mark(p, {o}, x)) : o \in S}
OneLess(p, S, x) == UNION {Returns(Unmark(p, {o}, x)) : o \in S}

-----------------------------------------------------------------------------
(* scene.py, mesh.py.                                                       *)

ObjectTransform(w, dry) ==
  Raises(w) \union
    IF dry THEN Returns(w) ELSE OneOf(UndoPush(w), Objs(w), "moved")

\* Fault: it forgets to push.
ObjectDelete_Unpushed(w, dry) ==
  Raises(w) \union
    IF dry THEN Returns(w) ELSE UNION {Returns(Remove(w, {o})) : o \in Objs(w)}
ObjectDelete(w, dry) ==
  Raises(w) \union
    IF dry THEN Returns(w)
    ELSE UNION {Returns(Remove(UndoPush(w), {o})) : o \in Objs(w)}

\* A rotation that is no vector raises when the object is there.
MeshCreatePrimitive(w) ==
  LET p == UndoPush(w)
  IN  Raises(w) \union Raises(p) \union UNION {Ends(v) : v \in PrimitiveAdd(p)}

(* object_ops.py.                                                           *)

\* The copy is linked last; an offset or a collection that is wrong leaves
\* it unlinked.
DuplicateObject(w) ==
  LET p == UndoPush(w)
      Into(o) == {{g} : g \in p.scene.groups}
                   \union {IF p.scene.home[o] = {} THEN {Root} ELSE p.scene.home[o]}
  IN  Raises(w) \union
      UNION {Raises(CopyObject(p, o, n))
               \union UNION {Returns(Link(CopyObject(p, o, n), n, C)) : C \in Into(o)}
             : o \in Objs(w), n \in Free(w)}

SetVisibility(w) == Raises(w) \union EachOf(UndoPush(w), Objs(w), "hidden")

SetParent(w) ==
  Raises(w) \union
    UNION {EachOf(UndoPush(w), Objs(w) \ {par}, "parent") : par \in Objs(w)}

ClearParent(w) ==
  LET p == UndoPush(w)
  IN  Raises(w) \union UNION {Ends(Unmark(p, T, "parent")) : T \in SUBSET Objs(w)}

(* collections.py.                                                          *)

\* The collection is made before its parent is looked up.
CreateCollection(w) ==
  Raises(w) \union
    UNION {Ends([UndoPush(w) EXCEPT !.scene.groups = @ \union {g}])
           : g \in Groups \ w.scene.groups}

\* With unlink_objects, objects that are in no other collection are removed.
DeleteCollection(w) ==
  LET p == UndoPush(w)
      Only(g) == {o \in Objs(w) : w.scene.home[o] = {g}}
      Gone(v, g) == Rehome([v EXCEPT !.scene.groups = @ \ {g}],
                           [n \in Names |-> v.scene.home[n] \ {g}])
  IN  Raises(w) \union
      UNION {Returns(Gone(p, g)) \union Returns(Gone(Remove(p, Only(g)), g))
             : g \in w.scene.groups}

MoveToCollection(w) ==
  LET p == UndoPush(w)
      To(T, others, g) ==
        Rehome(p, [n \in Names |->
          IF n \notin T THEN p.scene.home[n]
          ELSE IF others THEN {g} ELSE p.scene.home[n] \union {g}])
  IN  Raises(w) \union
      UNION {Ends(To(T, others, g))
             : T \in SUBSET Objs(w), others \in BOOLEAN, g \in w.scene.groups}

ListCollections(w) == Returns(w)

-----------------------------------------------------------------------------
(* _helpers.ensure_object_mode, selection.py, mode.py.                      *)

\* It swallows the exception when the operator refuses.
EnsureObjectMode(w) == IF InEditMode(w) THEN {w, ObjectMode(w)} ELSE {w}

\* Selecting by name, one after the other: what is selected when it ends or
\* meets a name it cannot select.
Picks(w) ==
  {Select(v, T) : v \in {w, Deselect(w)}, T \in SUBSET Selectable(w)}

\* The mode is left before the push.
DeselectAll(w) == UNION {Returns(Deselect(UndoPush(v))) : v \in EnsureObjectMode(w)}

SelectObjects(w) ==
  LET after == UNION {Picks(UndoPush(v)) : v \in EnsureObjectMode(w)}
  IN  Raises(w) \union
      UNION {Raises(v)
               \union UNION {Returns(Focus(v, a)) : a \in Selectable(v)}
             : v \in after}

SetActive(w) ==
  LET p == UndoPush(w)
  IN  Raises(w) \union
      UNION {IF o \in InView(w)
             THEN Returns(Activate(p, o)) \union Returns(Focus(p, o))
             ELSE Raises(p)
             : o \in Objs(w)}

\* Without a type nothing is deselected.
SelectAll(w) ==
  LET Of(v, K) == [v EXCEPT !.scene.sel = OfKind(v, K) \intersect Selectable(v)]
  IN  UNION {UNION {Returns(Of(UndoPush(v), K)) : K \in {{k} : k \in Kinds} \union {Kinds}}
             : v \in EnsureObjectMode(w)}

\* Modes other than OBJECT that an object of a type can take.
ModeByType == [k \in Kinds |-> IF k \in Editable THEN {"EDIT"} ELSE {}]

\* The target is made active and selected before the mode is checked
\* against its type.
SetMode(w) ==
  LET p == UndoPush(w)
      aimed == {Activate(p, o) : o \in InView(w)}
                 \union {Focus(p, o) : o \in Selectable(w)}
                 \union {v \in {p} : v.scene.active # NoObject}
      Turned(v) == {ObjectMode(v)}
                     \union {u \in {EditMode(v)} : "EDIT" \in ModeByType[v.scene.kind[v.scene.active]]}
  IN  Raises(w) \union Raises(p)
        \union UNION {Raises(v) \union UNION {Ends(u) : u \in Turned(v)} : v \in aimed}

-----------------------------------------------------------------------------
(* rename.py, constraints.py, modifier.py, properties.py, operator.py.      *)

\* Objects and the other datablocks; every check is made before the push.
Rename(w) ==
  LET p == UndoPush(w)
  IN  Raises(w) \union Ends(Setting(p, "name")) \union OneOf(p, Objs(w), "name")

\* An owner is an object or, of an armature, a bone.
ResolveOwner(w) == Objs(w)

\* The constraint is there when its target is looked up.
AddConstraint(w) == Raises(w) \union OneOf(UndoPush(w), ResolveOwner(w), "constraint")
RemoveConstraint(w) ==
  Raises(w) \union OneLess(UndoPush(w), ResolveOwner(w) \intersect With(w, "constraint"), "constraint")
ListConstraints(w) == Ends(w)

\* Values that cannot be set are skipped and reported: only the creation of
\* the modifier raises.
AddModifier(w) ==
  LET p == UndoPush(w)
  IN  Raises(w) \union Raises(p) \union
      UNION {Returns(Mark(p, {o}, "modifier")) : o \in Objs(w)}
RemoveModifier(w) ==
  Raises(w) \union OneLess(UndoPush(w), With(w, "modifier"), "modifier")

\* Everything a path under bpy leads to: an object, another datablock, the
\* scene, the view layer.
SetProperty(w) ==
  LET p == UndoPush(w)
      targets == {Setting(p, "property"), Make(p, "property")}
                   \union {Mark(p, {o}, "property") : o \in Objs(w)}
                   \union {Activate(p, o) : o \in InView(w)}
  IN  Raises(w) \union Raises(p) \union UNION {Returns(v) : v \in targets}
GetProperty(w) == Ends(w)

\* select=, active= and deselect_others= prepare the context and are not
\* taken back when a name is wrong or the operator is cancelled.
CallOperator(w) ==
  LET p == UndoPush(w)
      picked == UNION {Picks(v) : v \in EnsureObjectMode(p)}
      ready  == {p} \union picked
                  \union {Focus(v, a) : v \in picked, a \in Selectable(p)}
  IN  Raises(w)
        \union (UNION {Raises(v) : v \in picked})
        \union UNION {Reports(v) \union UNION {Ends(e) : e \in Effects(v)} : v \in ready}

-----------------------------------------------------------------------------
(* spatial.py.                                                              *)

\* Where the object goes is computed before the push, and set by one
\* assignment that cannot fail half way.
PlaceAbove(w) == Raises(w) \union UNION {Returns(Mark(UndoPush(w), {o}, "moved")) : o \in Objs(w)}
AlignTo(w)    == Raises(w) \union UNION {Returns(Mark(UndoPush(w), {o}, "moved")) : o \in Objs(w)}
LookAt(w)     == Raises(w) \union UNION {UpTo(UndoPush(w), Mark(UndoPush(w), {o}, "moved")) : o \in Objs(w)}

\* The source itself is moved to the first place of the circle; the others
\* are taken by copies, which join its collections.  A bad axis raises in the
\* first round.
ArrayAround(w) ==
  LET p == UndoPush(w)
      Copies(o, T) ==
        LET From(f) == [n \in Names |-> IF n \in T THEN f[o] ELSE f[n]]
        IN  [Mark(p, {o}, "moved") EXCEPT !.scene.kind = From(@),
                                          !.scene.has  = From(@),
                                          !.scene.home = From(@)]
  IN  Raises(w) \union Raises(p) \union
      UNION {Returns(Copies(o, T)) : o \in Objs(w), T \in SUBSET Free(w)}

Distribute(w) ==
  Raises(w) \union
    UNION {Returns(Mark(UndoPush(w), T, "moved")) : T \in SUBSET Objs(w)}

BboxInfo(w) == Ends(w)
=============================================================================
