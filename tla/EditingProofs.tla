--------------------------- MODULE EditingProofs ---------------------------
(***************************************************************************)
(* Proofs about Editing: for any objects, collections, tools, starting     *)
(* scenes and bounds.                                                      *)
(*                                                                         *)
(* First, what the operators of Blender do to a world.  From that, file by *)
(* file, that each capability either leaves the world alone or pushes an   *)
(* undo step before it writes (Undoable).  Then the inductive invariant of *)
(* the dispatcher, the batches and the transactions over such outcomes.    *)
(***************************************************************************)
EXTENDS Editing, FiniteSetTheorems, TLAPS

\* v is the world p with another scene: nothing was pushed or undone.
Beside(p, v) ==
  v \in Worlds /\ v.steps = p.steps /\ v.at = p.at /\ v.pushes = p.pushes

-----------------------------------------------------------------------------
(* Blender.                                                                 *)

LEMMA ObjsAreNames ==
  /\ \A v : Objs(v) \subseteq Names
  /\ \A v : Free(v) \subseteq Names
  /\ \A v, K : OfKind(v, K) \subseteq Names
  /\ \A v, x : With(v, x) \subseteq Names
  /\ \A v : InView(v) \subseteq Names
  /\ \A v : Selectable(v) \subseteq Names
BY DEF Objs, Free, OfKind, With, InView, Selectable

\* Whatever writes a scene with its types stays beside.
LEMMA SceneWritten ==
  ASSUME NEW p \in Worlds, NEW s \in Scenes
  PROVE  Beside(p, [p EXCEPT !.scene = s])
BY DEF Beside, Worlds

LEMMA SceneTyped ==
  ASSUME NEW p \in Worlds
  PROVE  p.scene \in Scenes
BY DEF Worlds

LEMMA MarkWrites ==
  ASSUME NEW p \in Worlds, NEW S, NEW x \in Aspects
  PROVE  Beside(p, Mark(p, S, x)) /\ Beside(p, Unmark(p, S, x))
<1>1. p.scene \in Scenes
  BY SceneTyped
<1>2. [p.scene EXCEPT !.has = [n \in Names |-> IF n \in S THEN @[n] \union {x} ELSE @[n]]] \in Scenes
  BY <1>1 DEF Scenes
<1>3. [p.scene EXCEPT !.has = [n \in Names |-> IF n \in S THEN @[n] \ {x} ELSE @[n]]] \in Scenes
  BY <1>1 DEF Scenes
<1> QED
  BY <1>2, <1>3, SceneWritten DEF Mark, Unmark

LEMMA SettingsWrite ==
  ASSUME NEW p \in Worlds
  PROVE  /\ \A x \in Datablocks : Beside(p, Make(p, x))
         /\ \A x \in Settings : Beside(p, Setting(p, x))
<1>1. p.scene \in Scenes
  BY SceneTyped
<1>2. /\ \A x \in Datablocks : [p.scene EXCEPT !.data = @ \union {x}] \in Scenes
      /\ \A x \in Settings : [p.scene EXCEPT !.set = @ \union {x}] \in Scenes
  BY <1>1 DEF Scenes
<1> QED
  BY <1>2, SceneWritten DEF Make, Setting

LEMMA SelectionWrites ==
  ASSUME NEW p \in Worlds
  PROVE  /\ \A o \in Names \union {NoObject} : Beside(p, Activate(p, o))
         /\ \A S \in SUBSET Names : Beside(p, Select(p, S))
         /\ \A S \in SUBSET Names : Beside(p, [p EXCEPT !.scene.sel = S])
         /\ Beside(p, Deselect(p))
         /\ \A o \in Names : Beside(p, Focus(p, o))
<1>1. p.scene \in Scenes
  BY SceneTyped
<1>2. /\ \A o \in Names \union {NoObject} : [p.scene EXCEPT !.active = o] \in Scenes
      /\ \A S \in SUBSET Names : [p.scene EXCEPT !.sel = @ \union S] \in Scenes
      /\ \A S \in SUBSET Names : [p.scene EXCEPT !.sel = S] \in Scenes
  BY <1>1 DEF Scenes
<1>3. [p.scene EXCEPT !.sel = {}] \in Scenes
  BY <1>2
<1>4. /\ \A o \in Names \union {NoObject} : \A v \in Worlds : Beside(v, Activate(v, o))
      /\ \A S \in SUBSET Names : Beside(p, Select(p, S))
  <2>1. \A v \in Worlds : \A o \in Names \union {NoObject} : [v.scene EXCEPT !.active = o] \in Scenes
    BY SceneTyped DEF Scenes
  <2> QED
    BY <1>2, <2>1, SceneWritten DEF Activate, Select
<1>5. \A o \in Names : Beside(p, Focus(p, o))
  BY <1>4 DEF Focus, Beside
<1> QED
  BY <1>2, <1>3, <1>4, <1>5, SceneWritten DEF Deselect

LEMMA ObjectsWrite ==
  ASSUME NEW p \in Worlds, NEW n \in Names
  PROVE  /\ \A k \in Kinds : Beside(p, NewObject(p, n, k))
         /\ \A o \in Names : Beside(p, CopyObject(p, o, n))
         /\ \A C \in SUBSET (Groups \union {Root}) : Beside(p, Link(p, n, C))
<1>1. p.scene \in Scenes
  BY SceneTyped
<1>2. \A k \in Kinds : [p.scene EXCEPT !.kind[n] = k] \in Scenes
  BY <1>1 DEF Scenes
<1>3. ASSUME NEW o \in Names PROVE Beside(p, CopyObject(p, o, n))
  <2>1. [p.scene EXCEPT !.kind[n] = p.scene.kind[o], !.has[n] = p.scene.has[o]] \in Scenes
    BY <1>1 DEF Scenes
  <2> QED
    BY <2>1, SceneWritten DEF CopyObject, Beside, Worlds
<1>4. \A C \in SUBSET (Groups \union {Root}) :
        [p.scene EXCEPT !.home[n] = @ \union C] \in Scenes
  BY <1>1 DEF Scenes
<1> QED
  BY <1>2, <1>3, <1>4, SceneWritten DEF NewObject, Link

LEMMA GroupsWrite ==
  ASSUME NEW p \in Worlds
  PROVE  /\ \A G \in SUBSET Groups : Beside(p, [p EXCEPT !.scene.groups = G])
         /\ \A home \in [Names -> SUBSET (Groups \union {Root})] :
              Beside(p, Rehome(p, home))
<1>1. p.scene \in Scenes
  BY SceneTyped
<1>2. \A G \in SUBSET Groups : [p.scene EXCEPT !.groups = G] \in Scenes
  BY <1>1 DEF Scenes
<1>3. ASSUME NEW home \in [Names -> SUBSET (Groups \union {Root})]
      PROVE  Beside(p, Rehome(p, home))
  <2>1. [p.scene EXCEPT !.home = home,
                        !.sel = {n \in @ : home[n] # {}},
                        !.active = IF @ # NoObject /\ home[@] = {} THEN NoObject ELSE @]
          \in Scenes
    BY <1>1 DEF Scenes
  <2> QED
    BY <2>1, SceneWritten DEF Rehome
<1> QED
  BY <1>2, <1>3, SceneWritten

LEMMA RemoveWrites ==
  ASSUME NEW p \in Worlds, NEW S \in SUBSET Names
  PROVE  Beside(p, Remove(p, S))
<1>1. p.scene \in Scenes
  BY SceneTyped
<1>2. [p.scene EXCEPT
         !.kind    = [n \in Names |-> IF n \in S THEN "none" ELSE @[n]],
         !.has     = [n \in Names |-> IF n \in S THEN {} ELSE @[n]],
         !.home    = [n \in Names |-> IF n \in S THEN {} ELSE @[n]],
         !.editing = @ \ S,
         !.sel     = @ \ S,
         !.active  = IF @ \in S THEN NoObject ELSE @] \in Scenes
  BY <1>1 DEF Scenes, Kinds
<1> QED
  BY <1>2, SceneWritten DEF Remove

LEMMA ModesWrite ==
  ASSUME NEW p \in Worlds
  PROVE  Beside(p, ObjectMode(p)) /\ Beside(p, EditMode(p))
<1>1. p.scene \in Scenes
  BY SceneTyped
<1>2. [p.scene EXCEPT !.editing = @ \ {p.scene.active}] \in Scenes
  BY <1>1 DEF Scenes
<1>3. [p.scene EXCEPT !.editing =
         IF p.scene.active \in OfKind(p, Editable) THEN @ \union {p.scene.active} ELSE @]
       \in Scenes
  BY <1>1, ObjsAreNames DEF Scenes
<1> QED
  BY <1>2, <1>3, SceneWritten DEF ObjectMode, EditMode

LEMMA AddsWrite ==
  ASSUME NEW p \in Worlds
  PROVE  /\ \A k \in Kinds : \A v \in Linked(p, k) : Beside(p, v)
         /\ \A v \in PrimitiveAdd(p) : Beside(p, v)
<1>1. ASSUME NEW k \in Kinds, NEW n \in Names
      PROVE  Beside(p, Link(NewObject(p, n, k), n, {Root}))
  BY ObjectsWrite DEF Beside
<1>2. ASSUME NEW n \in Names
      PROVE  LET v == Link(NewObject(Deselect(p), n, "MESH"), n, {Root})
             IN  Beside(p, Select(Activate(v, n), {n}))
  <2> DEFINE d == Deselect(p)
             v == Link(NewObject(d, n, "MESH"), n, {Root})
  <2>1. Beside(p, d)
    BY SelectionWrites
  <2> HIDE DEF d
  <2>2. Beside(d, v)
    <3>1. Beside(d, NewObject(d, n, "MESH"))
      BY <2>1, ObjectsWrite DEF Beside, Kinds
    <3> QED
      BY <3>1, ObjectsWrite DEF Beside
  <2> HIDE DEF v
  <2>3. Beside(v, Activate(v, n))
    BY <2>2, SelectionWrites DEF Beside
  <2>4. Beside(v, Select(Activate(v, n), {n}))
    BY <2>3, SelectionWrites DEF Beside
  <2>5. Beside(p, Select(Activate(v, n), {n}))
    BY <2>1, <2>2, <2>4 DEF Beside
  <2> QED
    BY <2>5 DEF d, v
<1>3. Beside(p, Mark(p, {p.scene.active}, "geometry"))
  BY MarkWrites DEF Aspects
<1> QED
  BY <1>1, <1>2, <1>3, ObjsAreNames DEF Linked, PrimitiveAdd

LEMMA PicksWrite ==
  ASSUME NEW p \in Worlds, NEW v \in Picks(p)
  PROVE  Beside(p, v)
<1>1. \A u \in {p, Deselect(p)} : Beside(p, u)
  BY SelectionWrites DEF Beside
<1> QED
  BY <1>1, SelectionWrites, ObjsAreNames DEF Picks, Beside

LEMMA EffectsWrite ==
  ASSUME NEW p \in Worlds, NEW v \in Effects(p)
  PROVE  Beside(p, v)
<1>1. Beside(p, p)
  BY DEF Beside
<1>2. p.scene.sel \subseteq Names
  BY SceneTyped DEF Scenes
<1>3. Beside(p, Remove(p, p.scene.sel))
  BY <1>2, RemoveWrites
<1>4. \A o \in Objs(p) : Beside(p, Mark(p, {o}, "op"))
  BY MarkWrites DEF Aspects
<1>5. /\ Beside(p, ObjectMode(p)) /\ Beside(p, EditMode(p))
      /\ Beside(p, Setting(p, "op")) /\ Beside(p, Make(p, "op"))
  BY ModesWrite, SettingsWrite DEF Settings, Datablocks
<1> QED
  BY <1>1, <1>3, <1>4, <1>5, AddsWrite DEF Effects

\* ---- undo -----------------------------------------------------------

\* The active step is one of the steps, and there are not too many.
Standing(p) ==
  p \in Worlds /\ p.at \in 1 .. Len(p.steps) /\ Len(p.steps) <= UndoSteps

LEMMA BesideStands ==
  ASSUME NEW p, NEW v, Standing(p), Beside(p, v)
  PROVE  Standing(v)
BY DEF Standing, Beside

Loaded(p, at, s) == [p EXCEPT !.at = at, !.scene = s]

LEMMA StepLoaded ==
  ASSUME NEW p \in Worlds, NEW at \in Nat, NEW s \in Scenes
  PROVE  LET q == Loaded(p, at, s) IN
         q \in Worlds /\ q.steps = p.steps /\ q.at = at /\ q.scene = s
BY DEF Worlds, Loaded

\* A push stores the scene as the active step.  The steps up to the active
\* one stay, in their places or, when the stack is full, one further down.
LEMMA PushStores ==
  ASSUME NEW p, Standing(p)
  PROVE  LET q == UndoPush(p) IN
         /\ Standing(q) /\ q.scene = p.scene /\ q.pushes = p.pushes + 1
         /\ q.at = Len(q.steps) /\ q.steps[q.at] = p.scene
         /\ \/ /\ q.at = p.at + 1
               /\ \A i \in 1 .. p.at : q.steps[i] = p.steps[i]
            \/ /\ q.at = p.at /\ p.at = UndoSteps
               /\ \A i \in 2 .. p.at : q.steps[i - 1] = p.steps[i]
<1> DEFINE head == SubSeq(p.steps, 1, p.at)
           steps == Append(head, p.scene)
           kept == IF Len(steps) > UndoSteps THEN Tail(steps) ELSE steps
<1>1. /\ p.steps \in Seq(Scenes) /\ p.at \in Nat \ {0} /\ p.at <= Len(p.steps)
      /\ p.scene \in Scenes /\ p.pushes \in Nat /\ Len(p.steps) \in Nat
      /\ p.at <= UndoSteps /\ UndoSteps \in Nat \ {0}
  BY BlenderAssumption DEF Standing, Worlds
<1>2. head \in Seq(Scenes) /\ Len(head) = p.at /\ \A i \in 1 .. p.at : head[i] = p.steps[i]
  BY <1>1
<1> HIDE DEF head
<1>3. /\ steps \in Seq(Scenes) /\ Len(steps) = p.at + 1
      /\ \A i \in 1 .. p.at : steps[i] = p.steps[i]
      /\ steps[p.at + 1] = p.scene
  BY <1>1, <1>2
<1> HIDE DEF steps
<1>4. UndoPush(p) = [scene |-> p.scene, steps |-> kept, at |-> Len(kept),
                     pushes |-> p.pushes + 1]
  BY DEF UndoPush, kept, steps, head
<1>5. CASE p.at + 1 > UndoSteps
  <2>1. /\ Tail(steps) \in Seq(Scenes) /\ Len(Tail(steps)) = p.at
        /\ \A i \in 1 .. p.at : Tail(steps)[i] = steps[i + 1]
    BY <1>1, <1>3
  <2>2. kept = Tail(steps) /\ p.at = UndoSteps
    BY <1>1, <1>3, <1>5
  <2> HIDE DEF kept
  <2>3. /\ kept \in Seq(Scenes) /\ Len(kept) = p.at /\ kept[p.at] = p.scene
        /\ \A i \in 2 .. p.at : kept[i - 1] = p.steps[i]
    BY <1>1, <1>3, <2>1, <2>2
  <2>4. /\ UndoPush(p) \in Worlds /\ UndoPush(p).scene = p.scene
        /\ UndoPush(p).pushes = p.pushes + 1
        /\ UndoPush(p).steps = kept /\ UndoPush(p).at = p.at
    BY <1>1, <1>4, <2>3 DEF Worlds
  <2> QED
    BY <1>1, <2>2, <2>3, <2>4 DEF Standing
<1>6. CASE p.at + 1 <= UndoSteps
  <2>1. kept = steps
    BY <1>1, <1>3, <1>6
  <2> HIDE DEF kept
  <2>2. /\ UndoPush(p) \in Worlds /\ UndoPush(p).scene = p.scene
        /\ UndoPush(p).pushes = p.pushes + 1
        /\ UndoPush(p).steps = steps /\ UndoPush(p).at = p.at + 1
    BY <1>1, <1>3, <1>4, <2>1 DEF Worlds
  <2> QED
    BY <1>1, <1>3, <1>6, <2>2 DEF Standing
<1> QED
  BY <1>1, <1>5, <1>6

LEMMA UndoLoads ==
  ASSUME NEW p, Standing(p)
  PROVE  /\ Standing(Undo(p)) /\ Undo(p).steps = p.steps
         /\ p.at > 1 => Undo(p).scene = p.steps[p.at - 1]
<1>1. /\ p.steps \in Seq(Scenes) /\ p.at \in Nat \ {0} /\ p.at <= Len(p.steps)
      /\ Len(p.steps) \in Nat
  BY DEF Standing, Worlds
<1>2. p.at > 1 => p.steps[p.at - 1] \in Scenes
  BY <1>1
<1>3. CASE p.at > 1
  <2>1. /\ Undo(p) \in Worlds /\ Undo(p).steps = p.steps /\ Undo(p).at = p.at - 1
        /\ Undo(p).scene = p.steps[p.at - 1]
    <3>1. Undo(p) = Loaded(p, p.at - 1, p.steps[p.at - 1])
      BY <1>3 DEF Undo, Loaded
    <3>2. p.at - 1 \in Nat /\ p \in Worlds
      BY <1>1, <1>3 DEF Standing
    <3> QED
      BY <1>2, <1>3, <3>1, <3>2, StepLoaded
  <2> QED
    BY <1>1, <1>3, <2>1, BlenderAssumption DEF Standing
<1>4. CASE ~(p.at > 1)
  BY <1>4 DEF Undo
<1> QED
  BY <1>3, <1>4

LEMMA OpenedStands ==
  ASSUME NEW s \in Scenes
  PROVE  Standing(Opened(s))
<1>1. <<s>> \in Seq(Scenes) /\ Len(<<s>>) = 1
  OBVIOUS
<1> QED
  BY <1>1, BlenderAssumption DEF Opened, Standing, Worlds

-----------------------------------------------------------------------------
(* The capabilities, file by file.                                          *)

\* Every outcome leaves the world as it was, or has pushed it first and has
\* written to the scene after that.
Undoable(u, outcomes) ==
  \A out \in outcomes : out.w = u \/ Beside(UndoPush(u), out.w)

\* Every outcome leaves the world as it was.
Harmless(u, outcomes) == \A out \in outcomes : out.w = u

LEMMA EndsAreUndoable ==
  ASSUME NEW u, NEW v, v = u \/ Beside(UndoPush(u), v)
  PROVE  /\ Undoable(u, Returns(v)) /\ Undoable(u, Raises(v))
         /\ Undoable(u, Reports(v)) /\ Undoable(u, Ends(v))
BY DEF Undoable, Returns, Reports, Raises, Ends

\* A push, and what is marked in the scene after it.
LEMMA MarksAreUndoable ==
  ASSUME NEW u, Standing(u)
  PROVE  LET p == UndoPush(u) IN
         /\ p \in Worlds /\ Standing(p) /\ Beside(p, p) /\ p.scene = u.scene
         /\ Undoable(u, Raises(u)) /\ Undoable(u, Raises(p)) /\ Undoable(u, Returns(u))
         /\ \A S : \A x \in Aspects :
              /\ Undoable(u, EachOf(p, S, x))
              /\ Undoable(u, OneOf(p, S, x)) /\ Undoable(u, OneLess(p, S, x))
<1> DEFINE p == UndoPush(u)
<1>1. p \in Worlds /\ Standing(p) /\ Beside(p, p) /\ p.scene = u.scene
  BY PushStores DEF Standing, Beside
<1> HIDE DEF p
<1>2. \A S : \A x \in Aspects : Beside(p, Mark(p, S, x)) /\ Beside(p, Unmark(p, S, x))
  BY <1>1, MarkWrites
<1>3. \A v : Beside(p, v) \/ v = u =>
        /\ Undoable(u, Returns(v)) /\ Undoable(u, Raises(v)) /\ Undoable(u, Ends(v))
  BY EndsAreUndoable DEF p
<1>4. ASSUME NEW S, NEW x \in Aspects PROVE Undoable(u, EachOf(p, S, x))
  BY <1>2, <1>3 DEF EachOf, Undoable
<1>5. ASSUME NEW S, NEW x \in Aspects PROVE Undoable(u, OneOf(p, S, x))
  BY <1>1, <1>2, <1>3 DEF OneOf, UpTo, Undoable
<1>6. ASSUME NEW S, NEW x \in Aspects PROVE Undoable(u, OneLess(p, S, x))
  BY <1>2, <1>3 DEF OneLess, Undoable
<1> QED
  BY <1>1, <1>3, <1>4, <1>5, <1>6 DEF p

\* scene.py, mesh.py, object_ops.py.
LEMMA ObjectsUndoable ==
  ASSUME NEW u, Standing(u), NEW dry
  PROVE  /\ Undoable(u, ObjectTransform(u, dry))
         /\ Undoable(u, ObjectDelete(u, dry))
         /\ Undoable(u, MeshCreatePrimitive(u))
         /\ Undoable(u, DuplicateObject(u))
         /\ Undoable(u, SetVisibility(u))
         /\ Undoable(u, SetParent(u))
         /\ Undoable(u, ClearParent(u))
<1> DEFINE p == UndoPush(u)
<1>pushed. /\ Standing(u) /\ u \in Worlds /\ p \in Worlds /\ Beside(p, p) /\ p.scene = u.scene
      /\ Undoable(u, Raises(u)) /\ Undoable(u, Raises(p)) /\ Undoable(u, Returns(u))
      /\ \A S : \A x \in Aspects :
           /\ Undoable(u, EachOf(p, S, x))
           /\ Undoable(u, OneOf(p, S, x)) /\ Undoable(u, OneLess(p, S, x))
  BY MarksAreUndoable DEF Standing
<1>ends. \A v : Beside(p, v) \/ v = u =>
        /\ Undoable(u, Returns(v)) /\ Undoable(u, Raises(v)) /\ Undoable(u, Reports(v))
        /\ Undoable(u, Ends(v))
  BY EndsAreUndoable
<1>1. Undoable(u, ObjectTransform(u, dry))
  BY <1>pushed, <1>ends DEF Undoable, ObjectTransform, Aspects
<1>2. Undoable(u, ObjectDelete(u, dry))
  BY <1>pushed, <1>ends, RemoveWrites, ObjsAreNames DEF Undoable, ObjectDelete
<1>3. Undoable(u, MeshCreatePrimitive(u))
  BY <1>pushed, <1>ends, AddsWrite DEF Undoable, MeshCreatePrimitive
<1>4. Undoable(u, DuplicateObject(u))
  <2>1. \A o \in Objs(u), n \in Free(u) : Beside(p, CopyObject(p, o, n))
    BY <1>pushed, ObjectsWrite, ObjsAreNames
  <2>2. \A o \in Objs(u), n \in Free(u) : \A C \in SUBSET (Groups \union {Root}) :
          Beside(p, Link(CopyObject(p, o, n), n, C))
    BY <2>1, ObjectsWrite, ObjsAreNames DEF Beside
  <2>3. /\ \A o \in Objs(u) : p.scene.home[o] \in SUBSET (Groups \union {Root})
        /\ p.scene.groups \subseteq Groups
    BY <1>pushed, SceneTyped, ObjsAreNames DEF Scenes
  <2> QED
    BY <1>pushed, <1>ends, <2>1, <2>2, <2>3 DEF Undoable, DuplicateObject
<1>5. Undoable(u, SetVisibility(u))
  BY <1>pushed, <1>ends DEF Undoable, SetVisibility, Aspects
<1>6. Undoable(u, SetParent(u))
  BY <1>pushed, <1>ends DEF Undoable, SetParent, Aspects
<1>7. Undoable(u, ClearParent(u))
  BY <1>pushed, <1>ends, MarkWrites DEF Undoable, ClearParent, Aspects
<1> QED
  BY <1>1, <1>2, <1>3, <1>4, <1>5, <1>6, <1>7

\* collections.py.
LEMMA CollectionsUndoable ==
  ASSUME NEW u, Standing(u)
  PROVE  /\ Undoable(u, CreateCollection(u))
         /\ Undoable(u, DeleteCollection(u))
         /\ Undoable(u, MoveToCollection(u))
         /\ Undoable(u, ListCollections(u))
<1> DEFINE p == UndoPush(u)
<1>pushed. /\ Standing(u) /\ u \in Worlds /\ p \in Worlds /\ Beside(p, p) /\ p.scene = u.scene
      /\ Undoable(u, Raises(u)) /\ Undoable(u, Raises(p)) /\ Undoable(u, Returns(u))
      /\ \A S : \A x \in Aspects :
           /\ Undoable(u, EachOf(p, S, x))
           /\ Undoable(u, OneOf(p, S, x)) /\ Undoable(u, OneLess(p, S, x))
  BY MarksAreUndoable DEF Standing
<1>ends. \A v : Beside(p, v) \/ v = u =>
        /\ Undoable(u, Returns(v)) /\ Undoable(u, Raises(v)) /\ Undoable(u, Reports(v))
        /\ Undoable(u, Ends(v))
  BY EndsAreUndoable
<1>1. Undoable(u, CreateCollection(u))
  <2>1. p.scene.groups \subseteq Groups
    BY <1>pushed, SceneTyped DEF Scenes
  <2>2. \A g \in Groups : Beside(p, [p EXCEPT !.scene.groups = @ \union {g}])
    BY <1>pushed, <2>1, GroupsWrite
  <2> QED
    BY <1>pushed, <1>ends, <2>2 DEF Undoable, CreateCollection
<1>2. Undoable(u, DeleteCollection(u))
  <2> DEFINE Less(v, g) == [v EXCEPT !.scene.groups = @ \ {g}]
             Gone(v, g) == Rehome(Less(v, g), [n \in Names |-> v.scene.home[n] \ {g}])
             Only(g) == {o \in Objs(u) : u.scene.home[o] = {g}}
  <2>1. ASSUME NEW v \in Worlds, NEW g PROVE Beside(v, Gone(v, g))
    <3>1. v.scene.groups \ {g} \subseteq Groups
      BY SceneTyped DEF Scenes
    <3>2. Beside(v, Less(v, g))
      BY <3>1, GroupsWrite
    <3>3. [n \in Names |-> v.scene.home[n] \ {g}] \in [Names -> SUBSET (Groups \union {Root})]
      BY SceneTyped DEF Scenes
    <3> HIDE DEF Less
    <3> QED
      BY <3>2, <3>3, GroupsWrite DEF Beside
  <2> HIDE DEF Gone
  <2>2. \A g : Only(g) \in SUBSET Names
    BY ObjsAreNames
  <2> HIDE DEF Only
  <2>3. \A g : Beside(p, Remove(p, Only(g)))
    BY <1>pushed, <2>2, RemoveWrites
  <2>4. \A g : Beside(p, Gone(p, g)) /\ Beside(p, Gone(Remove(p, Only(g)), g))
    BY <1>pushed, <2>1, <2>3 DEF Beside
  <2>5. DeleteCollection(u) = Raises(u) \union
          UNION {Returns(Gone(p, g)) \union Returns(Gone(Remove(p, Only(g)), g))
                 : g \in u.scene.groups}
    BY DEF DeleteCollection, Gone, Only, Less
  <2> QED
    BY <1>pushed, <1>ends, <2>4, <2>5 DEF Undoable
<1>3. Undoable(u, MoveToCollection(u))
  <2> DEFINE H(T, others, g) ==
        [n \in Names |->
          IF n \notin T THEN p.scene.home[n]
          ELSE IF others THEN {g} ELSE p.scene.home[n] \union {g}]
  <2>1. /\ u.scene.groups \subseteq Groups
        /\ \A n \in Names : p.scene.home[n] \in SUBSET (Groups \union {Root})
    BY <1>pushed, SceneTyped DEF Scenes
  <2>2. \A T : \A others : \A g \in u.scene.groups :
          H(T, others, g) \in [Names -> SUBSET (Groups \union {Root})]
    BY <2>1
  <2>3. MoveToCollection(u) = Raises(u) \union
          UNION {Ends(Rehome(p, H(T, others, g)))
                 : T \in SUBSET Objs(u), others \in BOOLEAN, g \in u.scene.groups}
    BY DEF MoveToCollection
  <2> HIDE DEF H
  <2>4. \A T : \A others : \A g \in u.scene.groups : Beside(p, Rehome(p, H(T, others, g)))
    BY <1>pushed, <2>2, GroupsWrite
  <2> QED
    BY <1>pushed, <1>ends, <2>3, <2>4 DEF Undoable
<1>4. Undoable(u, ListCollections(u))
  BY <1>pushed, <1>ends DEF Undoable, ListCollections
<1> QED
  BY <1>1, <1>2, <1>3, <1>4

\* mode.py, rename.py, constraints.py, modifier.py, properties.py, operator.py,
\* spatial.py, and set_active of selection.py.
LEMMA PropertiesUndoable ==
  ASSUME NEW u, Standing(u)
  PROVE  /\ Undoable(u, SetActive(u))
         /\ Undoable(u, SetMode(u))
         /\ Undoable(u, Rename(u))
         /\ Undoable(u, AddConstraint(u))
         /\ Undoable(u, RemoveConstraint(u))
         /\ Undoable(u, AddModifier(u))
         /\ Undoable(u, RemoveModifier(u))
         /\ Undoable(u, SetProperty(u))
         /\ Undoable(u, CallOperator(u))
         /\ Undoable(u, PlaceAbove(u))
         /\ Undoable(u, AlignTo(u))
         /\ Undoable(u, LookAt(u))
         /\ Undoable(u, ArrayAround(u))
         /\ Undoable(u, Distribute(u))
<1> DEFINE p == UndoPush(u)
<1>pushed. /\ Standing(u) /\ u \in Worlds /\ p \in Worlds /\ Beside(p, p) /\ p.scene = u.scene
      /\ Undoable(u, Raises(u)) /\ Undoable(u, Raises(p)) /\ Undoable(u, Returns(u))
      /\ \A S : \A x \in Aspects :
           /\ Undoable(u, EachOf(p, S, x))
           /\ Undoable(u, OneOf(p, S, x)) /\ Undoable(u, OneLess(p, S, x))
  BY MarksAreUndoable DEF Standing
<1>ends. \A v : Beside(p, v) \/ v = u =>
        /\ Undoable(u, Returns(v)) /\ Undoable(u, Raises(v)) /\ Undoable(u, Reports(v))
        /\ Undoable(u, Ends(v))
  BY EndsAreUndoable
<1>1. Undoable(u, SetActive(u))
  BY <1>pushed, <1>ends, SelectionWrites, ObjsAreNames DEF Undoable, SetActive
<1>2. Undoable(u, SetMode(u))
  <2> DEFINE aimed == {Activate(p, o) : o \in InView(u)}
               \union {Focus(p, o) : o \in Selectable(u)}
               \union {v \in {p} : v.scene.active # NoObject}
             Turned(v) == {ObjectMode(v)} \union
               {e \in {EditMode(v)} : "EDIT" \in ModeByType[v.scene.kind[v.scene.active]]}
             After(v) == Raises(v) \union UNION {Ends(e) : e \in Turned(v)}
  <2>1. \A v \in aimed : Beside(p, v)
    BY <1>pushed, SelectionWrites, ObjsAreNames
  <2>2. SetMode(u) = Raises(u) \union Raises(p) \union UNION {After(v) : v \in aimed}
    BY DEF SetMode
  <2> HIDE DEF aimed
  <2>3. \A v \in aimed : \A e \in Turned(v) : Beside(p, e)
    BY <2>1, ModesWrite DEF Beside
  <2> HIDE DEF Turned
  <2>4. \A v \in aimed : Undoable(u, After(v))
    BY <1>ends, <2>1, <2>3 DEF Undoable
  <2> HIDE DEF After
  <2> QED
    BY <1>pushed, <2>2, <2>4 DEF Undoable
<1>3. Undoable(u, Rename(u))
  BY <1>pushed, <1>ends, SettingsWrite DEF Undoable, Rename, Aspects, Settings
<1>4. Undoable(u, AddConstraint(u))
  BY <1>pushed, <1>ends DEF Undoable, AddConstraint, Aspects
<1>5. Undoable(u, RemoveConstraint(u))
  BY <1>pushed, <1>ends DEF Undoable, RemoveConstraint, Aspects
<1>6. Undoable(u, AddModifier(u))
  BY <1>pushed, <1>ends, MarkWrites DEF Undoable, AddModifier, Aspects
<1>7. Undoable(u, RemoveModifier(u))
  BY <1>pushed, <1>ends DEF Undoable, RemoveModifier, Aspects
<1>8. Undoable(u, SetProperty(u))
  BY <1>pushed, <1>ends, MarkWrites, SettingsWrite, SelectionWrites, ObjsAreNames
     DEF Undoable, SetProperty, Aspects, Settings, Datablocks
<1>9. Undoable(u, CallOperator(u))
  <2> DEFINE picked == UNION {Picks(v) : v \in EnsureObjectMode(p)}
             ready  == {p} \union picked \union {Focus(v, a) : v \in picked, a \in Selectable(p)}
             After(v) == Reports(v) \union UNION {Ends(e) : e \in Effects(v)}
  <2>1. \A v \in picked : Beside(p, v)
    BY <1>pushed, PicksWrite, ModesWrite DEF EnsureObjectMode, Beside
  <2>2. CallOperator(u) = Raises(u) \union (UNION {Raises(v) : v \in picked})
                                    \union UNION {After(v) : v \in ready}
    BY DEF CallOperator
  <2> HIDE DEF picked
  <2>3. \A v \in picked, a \in Selectable(p) : Beside(p, Focus(v, a))
    BY <2>1, SelectionWrites, ObjsAreNames DEF Beside
  <2>4. \A v \in ready : Beside(p, v)
    BY <1>pushed, <2>1, <2>3
  <2> HIDE DEF ready
  <2>5. \A v \in ready : \A e \in Effects(v) : Beside(p, e)
    BY <2>4, EffectsWrite DEF Beside
  <2>6. \A v \in ready : Undoable(u, After(v))
    BY <1>ends, <2>4, <2>5 DEF Undoable
  <2>7. \A v \in picked : Undoable(u, Raises(v))
    BY <1>ends, <2>1
  <2> HIDE DEF After
  <2> QED
    BY <1>pushed, <2>2, <2>6, <2>7 DEF Undoable
<1>10. Undoable(u, PlaceAbove(u))
  BY <1>pushed, <1>ends, MarkWrites DEF Undoable, PlaceAbove, Aspects
<1>11. Undoable(u, AlignTo(u))
  BY <1>pushed, <1>ends, MarkWrites DEF Undoable, AlignTo, Aspects
<1>12. Undoable(u, LookAt(u))
  BY <1>pushed, <1>ends, MarkWrites DEF Undoable, LookAt, Aspects, UpTo
<1>13. Undoable(u, ArrayAround(u))
  <2> DEFINE From(f, o, T) == [n \in Names |-> IF n \in T THEN f[o] ELSE f[n]]
             Copies(o, T) == [Mark(p, {o}, "moved") EXCEPT
               !.scene.kind = From(@, o, T), !.scene.has = From(@, o, T),
               !.scene.home = From(@, o, T)]
  <2>1. ASSUME NEW o \in Objs(u), NEW T PROVE Beside(p, Copies(o, T))
    <3> DEFINE v == Mark(p, {o}, "moved")
    <3>1. Beside(p, v) /\ v \in Worlds /\ v.scene \in Scenes
      BY <1>pushed, MarkWrites, SceneTyped DEF Aspects, Beside
    <3> HIDE DEF v
    <3>2. [v.scene EXCEPT !.kind = From(@, o, T), !.has = From(@, o, T),
                          !.home = From(@, o, T)] \in Scenes
      BY <3>1, ObjsAreNames DEF Scenes
    <3>3. Beside(v, [v EXCEPT !.scene.kind = From(@, o, T), !.scene.has = From(@, o, T),
                              !.scene.home = From(@, o, T)])
      BY <3>1, <3>2, SceneWritten
    <3> QED
      BY <3>1, <3>3 DEF Beside, v
  <2>2. ArrayAround(u) = Raises(u) \union Raises(p) \union
          UNION {Returns(Copies(o, T)) : o \in Objs(u), T \in SUBSET Free(u)}
    BY DEF ArrayAround
  <2> HIDE DEF Copies
  <2>3. \A o \in Objs(u) : \A T : Undoable(u, Returns(Copies(o, T)))
    BY <1>ends, <2>1
  <2> QED
    BY <1>pushed, <2>2, <2>3 DEF Undoable
<1>14. Undoable(u, Distribute(u))
  BY <1>pushed, <1>ends, MarkWrites DEF Undoable, Distribute, Aspects
<1> QED
  BY <1>1, <1>2, <1>3, <1>4, <1>5, <1>6, <1>7, <1>8, <1>9, <1>10, <1>11, <1>12, <1>13, <1>14

\* mesh_edit.py, vertex_groups.py, shape_keys.py, animation.py.
LEMMA MeshesUndoable ==
  ASSUME NEW u, Standing(u)
  PROVE  /\ Undoable(u, MeshEdit(u))
         /\ Undoable(u, MeshRead(u))
         /\ Undoable(u, CreateVertexGroup(u))
         /\ Undoable(u, RemoveVertexGroup(u))
         /\ Undoable(u, ListVertexGroups(u))
         /\ Undoable(u, SetVertexWeights(u))
         /\ Undoable(u, AddShapeKey(u))
         /\ Undoable(u, SetShapeKeyValue(u))
         /\ Undoable(u, RemoveShapeKey(u))
         /\ Undoable(u, ListShapeKeys(u))
         /\ Undoable(u, AnimationKeyframe(u))
<1> DEFINE p == UndoPush(u)
<1>pushed. /\ Standing(u) /\ u \in Worlds /\ p \in Worlds /\ Beside(p, p) /\ p.scene = u.scene
      /\ Undoable(u, Raises(u)) /\ Undoable(u, Raises(p)) /\ Undoable(u, Returns(u))
      /\ \A S : \A x \in Aspects :
           /\ Undoable(u, EachOf(p, S, x))
           /\ Undoable(u, OneOf(p, S, x)) /\ Undoable(u, OneLess(p, S, x))
  BY MarksAreUndoable DEF Standing
<1>ends. \A v : Beside(p, v) \/ v = u =>
        /\ Undoable(u, Returns(v)) /\ Undoable(u, Raises(v)) /\ Undoable(u, Reports(v))
        /\ Undoable(u, Ends(v))
  BY EndsAreUndoable
<1>1. Undoable(u, MeshEdit(u))
  <2> DEFINE edited(o) ==
        UNION {UNION {Arrange(v, o) : v \in Reduce(q, o)} : q \in Generate(p, o)}
  <2>1. ASSUME NEW q, Beside(p, q), NEW o, NEW x \in Aspects, NEW v \in Geometry(q, o, x)
        PROVE  Beside(p, v)
    BY <2>1, MarkWrites DEF Geometry, Beside
  <2>2. \A o : \A v \in edited(o) : Beside(p, v)
    <3>1. \A o : \A q \in Generate(p, o) : Beside(p, q)
      BY <1>pushed, <2>1 DEF Generate, Aspects
    <3>2. \A o : \A q \in Generate(p, o) : \A v \in Reduce(q, o) : Beside(p, v)
      BY <2>1, <3>1 DEF Reduce, Aspects
    <3>3. \A o : \A q \in Generate(p, o) : \A v \in Reduce(q, o) : \A e \in Arrange(v, o) :
            Beside(p, e)
      BY <2>1, <3>2 DEF Arrange, Aspects
    <3> QED
      BY <3>3
  <2>3. MeshEdit(u) = Raises(u) \union
          UNION {IF o \in u.scene.editing THEN Raises(p)
                 ELSE UNION {Returns(v) : v \in edited(o)} : o \in Meshes(u)}
    BY DEF MeshEdit
  <2> HIDE DEF edited
  <2>4. \A o : Undoable(u, UNION {Returns(v) : v \in edited(o)})
    BY <1>ends, <2>2 DEF Undoable
  <2> QED
    BY <1>pushed, <2>3, <2>4 DEF Undoable
<1>2. Undoable(u, MeshRead(u))
  BY <1>pushed, <1>ends DEF Undoable, MeshRead
<1>3. Undoable(u, CreateVertexGroup(u))
  BY <1>pushed, <1>ends, MarkWrites DEF Undoable, CreateVertexGroup, Aspects
<1>4. Undoable(u, RemoveVertexGroup(u))
  BY <1>pushed, <1>ends DEF Undoable, RemoveVertexGroup, Aspects
<1>5. Undoable(u, ListVertexGroups(u))
  BY <1>pushed, <1>ends DEF Undoable, ListVertexGroups
<1>6. Undoable(u, SetVertexWeights(u))
  BY <1>pushed, <1>ends, MarkWrites DEF Undoable, SetVertexWeights, Aspects
<1>7. Undoable(u, AddShapeKey(u))
  BY <1>pushed, <1>ends DEF Undoable, AddShapeKey, Aspects
<1>8. Undoable(u, SetShapeKeyValue(u))
  BY <1>pushed, <1>ends DEF Undoable, SetShapeKeyValue, Aspects
<1>9. Undoable(u, RemoveShapeKey(u))
  BY <1>pushed, <1>ends, MarkWrites DEF Undoable, RemoveShapeKey, Aspects
<1>10. Undoable(u, ListShapeKeys(u))
  BY <1>pushed, <1>ends DEF Undoable, ListShapeKeys
<1>11. Undoable(u, AnimationKeyframe(u))
  <2> DEFINE moved == Setting(p, "frame")
  <2>1. Beside(p, moved)
    BY <1>pushed, SettingsWrite DEF Settings
  <2> HIDE DEF moved
  <2>2. \A o : /\ Beside(moved, Mark(moved, {o}, "moved"))
             /\ Beside(moved, Mark(moved, {o}, "keyframe"))
    BY <2>1, MarkWrites DEF Beside, Aspects
  <2>3. \A o : Beside(moved, Mark(Mark(moved, {o}, "moved"), {o}, "keyframe"))
    <3> SUFFICES ASSUME NEW o
                 PROVE  Beside(moved, Mark(Mark(moved, {o}, "moved"), {o}, "keyframe"))
      OBVIOUS
    <3> DEFINE m == Mark(moved, {o}, "moved")
    <3>1. Beside(moved, m)
      BY <2>2
    <3> HIDE DEF m
    <3>2. Beside(m, Mark(m, {o}, "keyframe"))
      BY <3>1, MarkWrites DEF Beside, Aspects
    <3>3. Beside(moved, Mark(m, {o}, "keyframe"))
      BY <3>1, <3>2 DEF Beside
    <3> QED
      BY <3>3 DEF m
  <2>4. \A v : Beside(moved, v) => Beside(p, v)
    BY <2>1 DEF Beside
  <2>5. AnimationKeyframe(u) = Raises(u) \union Raises(p) \union Raises(moved)
          \union UNION {Raises(Mark(moved, {o}, "moved"))
                          \union Ends(Mark(moved, {o}, "keyframe"))
                          \union Returns(Mark(Mark(moved, {o}, "moved"), {o}, "keyframe"))
                        : o \in Objs(u)}
    BY DEF AnimationKeyframe, moved
  <2>6. /\ Undoable(u, Raises(moved))
        /\ \A o : /\ Undoable(u, Raises(Mark(moved, {o}, "moved")))
                /\ Undoable(u, Ends(Mark(moved, {o}, "keyframe")))
                /\ Undoable(u, Returns(Mark(Mark(moved, {o}, "moved"), {o}, "keyframe")))
    BY <1>ends, <2>1, <2>2, <2>3, <2>4
  <2> QED
    BY <1>pushed, <2>5, <2>6 DEF Undoable
<1> QED
  BY <1>1, <1>2, <1>3, <1>4, <1>5, <1>6, <1>7, <1>8, <1>9, <1>10, <1>11

LEMMA CurveIsUndoable ==
  ASSUME NEW u, Standing(u)
  PROVE  Undoable(u, CurveObject(u))
<1> DEFINE p == UndoPush(u)
           c == Make(p, "curve")
<1>1. Beside(p, c)
  BY MarksAreUndoable, SettingsWrite DEF Datablocks
<1> HIDE DEF c
<1>2. \A v \in Linked(c, "CURVE") : Beside(p, v)
  BY <1>1, AddsWrite DEF Beside, Kinds
<1>3. CurveObject(u) = Raises(c) \union UNION {Ends(v) : v \in Linked(c, "CURVE")}
  BY DEF CurveObject, c
<1> QED
  BY <1>1, <1>2, <1>3, EndsAreUndoable DEF Undoable

\* datablocks.py.
LEMMA DatablocksUndoable ==
  ASSUME NEW u, Standing(u)
  PROVE  /\ Undoable(u, CreateLight(u))
         /\ Undoable(u, CreateCamera(u))
         /\ Undoable(u, SetActiveCamera(u))
         /\ Undoable(u, CreateEmpty(u))
         /\ Undoable(u, CreateText(u))
         /\ Undoable(u, CreateCurve(u))
         /\ Undoable(u, CreateArmature(u))
         /\ Undoable(u, LoadImage(u))
         /\ Undoable(u, CreateImage(u))
<1> DEFINE p == UndoPush(u)
<1>pushed. /\ Standing(u) /\ u \in Worlds /\ p \in Worlds /\ Beside(p, p) /\ p.scene = u.scene
      /\ Undoable(u, Raises(u)) /\ Undoable(u, Raises(p)) /\ Undoable(u, Returns(u))
      /\ \A S : \A x \in Aspects :
           /\ Undoable(u, EachOf(p, S, x))
           /\ Undoable(u, OneOf(p, S, x)) /\ Undoable(u, OneLess(p, S, x))
  BY MarksAreUndoable DEF Standing
<1>ends. \A v : Beside(p, v) \/ v = u =>
        /\ Undoable(u, Returns(v)) /\ Undoable(u, Raises(v)) /\ Undoable(u, Reports(v))
        /\ Undoable(u, Ends(v))
  BY EndsAreUndoable
<1>1. Undoable(u, CreateLight(u))
  BY <1>pushed, <1>ends, AddsWrite DEF Undoable, CreateLight, Kinds
<1>2. Undoable(u, CreateCamera(u))
  <2>1. \A v \in Linked(p, "CAMERA") : Beside(p, v)
    BY <1>pushed, AddsWrite DEF Kinds
  <2>2. \A v \in Linked(p, "CAMERA") : Beside(p, Setting(v, "camera"))
    BY <2>1, SettingsWrite DEF Beside, Settings
  <2> QED
    BY <1>pushed, <1>ends, <2>1, <2>2 DEF Undoable, CreateCamera
<1>3. Undoable(u, SetActiveCamera(u))
  BY <1>pushed, <1>ends, SettingsWrite DEF Undoable, SetActiveCamera, Settings
<1>4. Undoable(u, CreateEmpty(u))
  <2>1. \A n \in Free(u) : Beside(p, NewObject(p, n, "EMPTY"))
    BY <1>pushed, ObjectsWrite, ObjsAreNames DEF Kinds
  <2>2. \A n \in Free(u) : Beside(p, Link(NewObject(p, n, "EMPTY"), n, {Root}))
    BY <2>1, ObjectsWrite, ObjsAreNames DEF Beside
  <2> QED
    BY <1>pushed, <1>ends, <2>1, <2>2 DEF Undoable, CreateEmpty
<1>5. Undoable(u, CreateText(u))
  <2> QED
    BY <1>pushed, CurveIsUndoable DEF Undoable, CreateText
<1>6. Undoable(u, CreateCurve(u))
  <2> QED
    BY <1>pushed, CurveIsUndoable DEF Undoable, CreateCurve
<1>7. Undoable(u, CreateArmature(u))
  <2> DEFINE arm(n) == Link(NewObject(p, n, "ARMATURE"), n, {Root})
             active(n) == IF u.scene.active = NoObject THEN n ELSE u.scene.active
             back(n) == Activate(Select(arm(n), {n}), active(n))
  <2>1. \A n \in Free(p) : Beside(p, NewObject(p, n, "ARMATURE"))
    BY <1>pushed, ObjectsWrite, ObjsAreNames DEF Kinds
  <2>2. \A n \in Free(p) : Beside(p, arm(n))
    BY <2>1, ObjectsWrite, ObjsAreNames DEF Beside
  <2> HIDE DEF arm
  <2>3. \A n \in Free(p) : Beside(p, Select(arm(n), {n}))
    BY <2>2, SelectionWrites, ObjsAreNames DEF Beside
  <2>4. \A n \in Free(p) : active(n) \in Names \union {NoObject}
    BY <1>pushed, SceneTyped, ObjsAreNames DEF Scenes
  <2> HIDE DEF active
  <2>5. \A n \in Free(p) : Beside(p, back(n))
    BY <2>3, <2>4, SelectionWrites DEF Beside
  <2>6. Free(p) = Free(u)
    BY <1>pushed DEF Free, Objs
  <2>7. CreateArmature(u) = UNION {Ends(arm(n)) \union Ends(back(n)) : n \in Free(u)}
    BY DEF CreateArmature, arm, active
  <2> HIDE DEF back
  <2> QED
    BY <1>pushed, <1>ends, <2>2, <2>5, <2>6, <2>7 DEF Undoable
<1>8. Undoable(u, LoadImage(u))
  BY <1>pushed, <1>ends, SettingsWrite DEF Undoable, LoadImage, Datablocks, UpTo
<1>9. Undoable(u, CreateImage(u))
  BY <1>pushed, <1>ends, SettingsWrite DEF Undoable, CreateImage, Datablocks, UpTo
<1> QED
  BY <1>1, <1>2, <1>3, <1>4, <1>5, <1>6, <1>7, <1>8, <1>9

\* nodes.py, geonodes.py, geonodes_presets.py, without build_nodes.
LEMMA NodesUndoable ==
  ASSUME NEW u, Standing(u), NEW dry
  PROVE  /\ Undoable(u, AssignMaterial(u))
         /\ Undoable(u, GeoCreateModifier(u, dry))
         /\ Undoable(u, GeoDescribeGroup(u))
         /\ Undoable(u, GeoSetInput(u, dry))
         /\ Undoable(u, GeoAnimateInput(u, dry))
         /\ Undoable(u, GeoCreateGroup(u, dry))
         /\ Undoable(u, GeoRealize(u, dry))
         /\ Undoable(u, GeoListPresets(u))
         /\ Undoable(u, GeoGetPreset(u))
         /\ Undoable(u, GeoApplyPreset(u, dry))
<1> DEFINE p == UndoPush(u)
<1>pushed. /\ Standing(u) /\ u \in Worlds /\ p \in Worlds /\ Beside(p, p) /\ p.scene = u.scene
      /\ Undoable(u, Raises(u)) /\ Undoable(u, Raises(p)) /\ Undoable(u, Returns(u))
      /\ \A S : \A x \in Aspects :
           /\ Undoable(u, EachOf(p, S, x))
           /\ Undoable(u, OneOf(p, S, x)) /\ Undoable(u, OneLess(p, S, x))
  BY MarksAreUndoable DEF Standing
<1>ends. \A v : Beside(p, v) \/ v = u =>
        /\ Undoable(u, Returns(v)) /\ Undoable(u, Raises(v)) /\ Undoable(u, Reports(v))
        /\ Undoable(u, Ends(v))
  BY EndsAreUndoable
<1>1. Undoable(u, AssignMaterial(u))
  BY <1>pushed, <1>ends DEF Undoable, AssignMaterial, Aspects
<1>2. Undoable(u, GeoCreateModifier(u, dry))
  <2> DEFINE m(o) == Mark(p, {o}, "modifier")
  <2>1. \A o : Beside(p, m(o))
    BY <1>pushed, MarkWrites DEF Aspects
  <2>2. GeoCreateModifier(u, dry) = Raises(u) \union
          UNION {IF dry THEN Returns(u)
                 ELSE Ends(m(o)) \union Returns(Make(m(o), "node_group")) : o \in Objs(u)}
    BY DEF GeoCreateModifier
  <2> HIDE DEF m
  <2>3. \A o : Beside(p, Make(m(o), "node_group"))
    BY <2>1, SettingsWrite DEF Beside, Datablocks
  <2> QED
    BY <1>pushed, <1>ends, <2>1, <2>2, <2>3 DEF Undoable
<1>3. Undoable(u, GeoDescribeGroup(u))
  BY <1>pushed, <1>ends DEF Undoable, GeoDescribeGroup
<1>4. Undoable(u, GeoSetInput(u, dry))
  BY <1>pushed, <1>ends, MarkWrites DEF Undoable, GeoSetInput, UpTo, Aspects
<1>5. Undoable(u, GeoAnimateInput(u, dry))
  <2> DEFINE m(o) == Mark(p, {o}, "input")
             keyed(o) == Mark(m(o), {o}, "keyframe")
  <2>1. \A o : Beside(p, m(o))
    BY <1>pushed, MarkWrites DEF Aspects
  <2>2. GeoAnimateInput(u, dry) = Raises(u) \union
          UNION {IF dry THEN Returns(u)
                 ELSE Raises(m(o)) \union UpTo(p, keyed(o)) : o \in GeoNodesObjects(u)}
    BY DEF GeoAnimateInput
  <2> HIDE DEF m
  <2>3. \A o : Beside(p, keyed(o))
    BY <2>1, MarkWrites DEF Beside, Aspects
  <2> HIDE DEF keyed
  <2> QED
    BY <1>pushed, <1>ends, <2>1, <2>2, <2>3 DEF Undoable, UpTo
<1>6. Undoable(u, GeoCreateGroup(u, dry))
  BY <1>pushed, <1>ends, SettingsWrite DEF Undoable, GeoCreateGroup, Datablocks
<1>7. Undoable(u, GeoRealize(u, dry))
  <2> DEFINE act(o) == Activate(p, o)
             less(o) == Unmark(act(o), {o}, "modifier")
             applied(o) == Mark(less(o), {o}, "geometry")
  <2>1. \A o \in Names : Beside(p, act(o))
    BY <1>pushed, SelectionWrites
  <2>2. GeoRealize(u, dry) = Raises(u) \union
          UNION {IF dry THEN Returns(u)
                 ELSE IF o \in InView(u) THEN Raises(act(o)) \union Returns(applied(o))
                 ELSE Raises(p) : o \in GeoNodesObjects(u)}
    BY DEF GeoRealize
  <2> HIDE DEF act
  <2>3. \A o \in Names : Beside(p, less(o))
    BY <2>1, MarkWrites DEF Beside, Aspects
  <2> HIDE DEF less
  <2>4. \A o \in Names : Beside(p, applied(o))
    BY <2>3, MarkWrites DEF Beside, Aspects
  <2> HIDE DEF applied
  <2> QED
    BY <1>pushed, <1>ends, <2>1, <2>2, <2>4, ObjsAreNames DEF Undoable, GeoNodesObjects
<1>8. Undoable(u, GeoListPresets(u))
  BY <1>pushed, <1>ends DEF Undoable, GeoListPresets
<1>9. Undoable(u, GeoGetPreset(u))
  BY <1>pushed, <1>ends DEF Undoable, GeoGetPreset
<1>10. Undoable(u, GeoApplyPreset(u, dry))
  <2> DEFINE group == Make(p, "node_group")
             built == Make(group, "nodes")
  <2>1. Beside(p, group)
    BY <1>pushed, SettingsWrite DEF Datablocks
  <2>2. GeoApplyPreset(u, dry) = Raises(u) \union
          (IF dry THEN Returns(u)
           ELSE Raises(p) \union Returns(built) \union (UNION {Raises(v) : v \in {group, built}})
                  \union UNION {Returns(Mark(built, {o}, "modifier")) : o \in Objs(u)})
    BY DEF GeoApplyPreset, BuildPreset
  <2> HIDE DEF group
  <2>3. Beside(p, built)
    BY <2>1, SettingsWrite DEF Beside, Datablocks
  <2> HIDE DEF built
  <2>4. \A o : Beside(p, Mark(built, {o}, "modifier"))
    BY <2>3, MarkWrites DEF Beside, Aspects
  <2> QED
    BY <1>pushed, <1>ends, <2>1, <2>2, <2>3, <2>4 DEF Undoable
<1> QED
  BY <1>1, <1>2, <1>3, <1>4, <1>5, <1>6, <1>7, <1>8, <1>9, <1>10

\* assets.py, exec_python.py, and checkpoint.py without restore.
LEMMA FilesUndoable ==
  ASSUME NEW u, Standing(u)
  PROVE  /\ Undoable(u, ImportAsset(u))
         /\ Undoable(u, LinkBlend(u))
         /\ Undoable(u, ListAssets(u))
         /\ Undoable(u, ExecPython(u))
         /\ Undoable(u, CheckpointCreate(u))
         /\ Undoable(u, CheckpointList(u))
<1> DEFINE p == UndoPush(u)
<1>pushed. /\ Standing(u) /\ u \in Worlds /\ p \in Worlds /\ Beside(p, p) /\ p.scene = u.scene
      /\ Undoable(u, Raises(u)) /\ Undoable(u, Raises(p)) /\ Undoable(u, Returns(u))
      /\ \A S : \A x \in Aspects :
           /\ Undoable(u, EachOf(p, S, x))
           /\ Undoable(u, OneOf(p, S, x)) /\ Undoable(u, OneLess(p, S, x))
  BY MarksAreUndoable DEF Standing
<1>ends. \A v : Beside(p, v) \/ v = u =>
        /\ Undoable(u, Returns(v)) /\ Undoable(u, Raises(v)) /\ Undoable(u, Reports(v))
        /\ Undoable(u, Ends(v))
  BY EndsAreUndoable
<1>1. Undoable(u, ImportAsset(u))
  <2> DEFINE v(n) == Link(NewObject(p, n, "MESH"), n, {Root})
             Into(n, g) == [Link(v(n), n, {}) EXCEPT !.scene.home[n] = {g},
                                                     !.scene.groups = @ \union {g}]
  <2>1. \A n \in Names : Beside(p, NewObject(p, n, "MESH"))
    BY <1>pushed, ObjectsWrite DEF Kinds
  <2>2. \A n \in Names : Beside(p, v(n))
    BY <2>1, ObjectsWrite DEF Beside
  <2>3. ImportAsset(u) = Raises(u) \union Raises(p) \union
          UNION {Ends(v(n)) \union UNION {Returns(Into(n, g)) : g \in Groups} : n \in Free(u)}
    BY DEF ImportAsset
  <2> HIDE DEF v
  <2>4. ASSUME NEW n \in Names, NEW g \in Groups PROVE Beside(p, Into(n, g))
    <3> DEFINE q == Link(v(n), n, {})
    <3>1. Beside(p, q) /\ q \in Worlds /\ q.scene \in Scenes
      BY <2>2, ObjectsWrite, SceneTyped DEF Beside
    <3> HIDE DEF q
    <3>2. [q.scene EXCEPT !.home[n] = {g}, !.groups = @ \union {g}] \in Scenes
      BY <3>1 DEF Scenes
    <3>3. Beside(q, [q EXCEPT !.scene.home[n] = {g}, !.scene.groups = @ \union {g}])
      BY <3>1, <3>2, SceneWritten
    <3> QED
      BY <3>1, <3>3 DEF Beside, q
  <2> HIDE DEF Into
  <2>5. \A n \in Names : Undoable(u, UNION {Returns(Into(n, g)) : g \in Groups})
    BY <1>ends, <2>4 DEF Undoable
  <2> QED
    BY <1>pushed, <1>ends, <2>2, <2>3, <2>5, ObjsAreNames DEF Undoable
<1>2. Undoable(u, LinkBlend(u))
  BY <1>pushed, <1>ends, SettingsWrite, AddsWrite DEF Undoable, LinkBlend, Datablocks, Kinds
<1>3. Undoable(u, ListAssets(u))
  BY <1>pushed, <1>ends DEF Undoable, ListAssets
<1>4. Undoable(u, ExecPython(u))
  BY <1>pushed, <1>ends, EffectsWrite DEF Undoable, ExecPython
<1>5. Undoable(u, CheckpointCreate(u))
  BY <1>pushed, <1>ends DEF Undoable, CheckpointCreate
<1>6. Undoable(u, CheckpointList(u))
  BY <1>pushed, <1>ends DEF Undoable, CheckpointList
<1> QED
  BY <1>1, <1>2, <1>3, <1>4, <1>5, <1>6

\* query.py, snapshot.py, scene_context.py, diff.py, and render.py without
\* viewport_screenshot; what only reads of the other files.
LEMMA ReadsUndoable ==
  ASSUME NEW u, Standing(u)
  PROVE  /\ Undoable(u, Query(u))
         /\ Undoable(u, ListItems(u))
         /\ Undoable(u, DescribeApi(u))
         /\ Undoable(u, AuditRead(u))
         /\ Undoable(u, SceneSnapshot(u))
         /\ Undoable(u, SceneContext(u))
         /\ Undoable(u, SceneDiff(u))
         /\ Undoable(u, RenderRegion(u))
         /\ Undoable(u, BakePreview(u))
         /\ Undoable(u, ListConstraints(u))
         /\ Undoable(u, GetProperty(u))
         /\ Undoable(u, BboxInfo(u))
<1> DEFINE p == UndoPush(u)
<1>pushed. /\ Standing(u) /\ u \in Worlds /\ p \in Worlds /\ Beside(p, p) /\ p.scene = u.scene
      /\ Undoable(u, Raises(u)) /\ Undoable(u, Raises(p)) /\ Undoable(u, Returns(u))
      /\ \A S : \A x \in Aspects :
           /\ Undoable(u, EachOf(p, S, x))
           /\ Undoable(u, OneOf(p, S, x)) /\ Undoable(u, OneLess(p, S, x))
  BY MarksAreUndoable DEF Standing
<1>ends. \A v : Beside(p, v) \/ v = u =>
        /\ Undoable(u, Returns(v)) /\ Undoable(u, Raises(v)) /\ Undoable(u, Reports(v))
        /\ Undoable(u, Ends(v))
  BY EndsAreUndoable
<1>1. Undoable(u, Query(u))
  BY <1>pushed, <1>ends DEF Undoable, Query, ResolveTarget, Project
<1>2. Undoable(u, ListItems(u))
  BY <1>pushed, <1>ends DEF Undoable, ListItems
<1>3. Undoable(u, DescribeApi(u))
  BY <1>pushed, <1>ends DEF Undoable, DescribeApi
<1>4. Undoable(u, AuditRead(u))
  BY <1>pushed, <1>ends DEF Undoable, AuditRead
<1>5. Undoable(u, SceneSnapshot(u))
  BY <1>pushed, <1>ends DEF Undoable, SceneSnapshot
<1>6. Undoable(u, SceneContext(u))
  BY <1>pushed, <1>ends DEF Undoable, SceneContext
<1>7. Undoable(u, SceneDiff(u))
  BY <1>pushed, <1>ends DEF Undoable, SceneDiff
<1>8. Undoable(u, RenderRegion(u))
  BY <1>pushed, <1>ends DEF Undoable, RenderRegion
<1>9. Undoable(u, BakePreview(u))
  BY <1>pushed, <1>ends, SettingsWrite DEF Undoable, BakePreview, Datablocks, UpTo
<1>10. Undoable(u, ListConstraints(u))
  BY <1>pushed, <1>ends DEF Undoable, ListConstraints
<1>11. Undoable(u, GetProperty(u))
  BY <1>pushed, <1>ends DEF Undoable, GetProperty
<1>12. Undoable(u, BboxInfo(u))
  BY <1>pushed, <1>ends DEF Undoable, BboxInfo
<1> QED
  BY <1>1, <1>2, <1>3, <1>4, <1>5, <1>6, <1>7, <1>8, <1>9, <1>10, <1>11, <1>12

\* create_objects of composer.py.
LEMMA ComposedUndoable ==
  ASSUME NEW u, Standing(u), NEW dry
  PROVE  /\ Undoable(u, CreateObjects(u, dry))
<1> DEFINE p == UndoPush(u)
<1>pushed. /\ Standing(u) /\ u \in Worlds /\ p \in Worlds /\ Beside(p, p) /\ p.scene = u.scene
      /\ Undoable(u, Raises(u)) /\ Undoable(u, Raises(p)) /\ Undoable(u, Returns(u))
      /\ \A S : \A x \in Aspects :
           /\ Undoable(u, EachOf(p, S, x))
           /\ Undoable(u, OneOf(p, S, x)) /\ Undoable(u, OneLess(p, S, x))
  BY MarksAreUndoable DEF Standing
<1>ends. \A v : Beside(p, v) \/ v = u =>
        /\ Undoable(u, Returns(v)) /\ Undoable(u, Raises(v)) /\ Undoable(u, Reports(v))
        /\ Undoable(u, Ends(v))
  BY EndsAreUndoable
<1>1. Undoable(u, CreateObjects(u, dry))
  <2> DEFINE made == PrimitiveAdd(p) \union Linked(p, "LIGHT")
                       \union Linked(p, "CAMERA") \union Linked(p, "EMPTY")
             unlinked == {NewObject(p, n, "EMPTY") : n \in Free(p)}
             More(v, g) == [v EXCEPT !.scene.groups = @ \union {g}]
             H(v, g) == [n \in Names |-> IF n \in Objs(v) \ Objs(p) THEN {g} ELSE v.scene.home[n]]
             cameras == {Setting(v, "camera") : v \in Linked(p, "CAMERA")}
             grouped == {Rehome(More(v, g), H(v, g)) : v \in made, g \in Groups}
  <2>1. MakeOne(p) = {p, Make(p, "light")} \union unlinked \union made \union cameras \union grouped
    BY DEF MakeOne
  <2>2. \A v \in made : Beside(p, v)
    BY <1>pushed, AddsWrite DEF Kinds
  <2> HIDE DEF made
  <2>3. \A v \in unlinked : Beside(p, v)
    BY <1>pushed, ObjectsWrite, ObjsAreNames DEF Kinds
  <2> HIDE DEF unlinked
  <2>4. \A v \in cameras : Beside(p, v)
    <3>1. \A v \in Linked(p, "CAMERA") : Beside(p, v)
      BY <1>pushed, AddsWrite DEF Kinds
    <3> QED
      BY <3>1, SettingsWrite DEF Beside, Settings
  <2> HIDE DEF cameras
  <2>5. ASSUME NEW v \in made, NEW g \in Groups PROVE Beside(p, Rehome(More(v, g), H(v, g)))
    <3>1. v \in Worlds /\ v.scene \in Scenes
      BY <2>2, SceneTyped DEF Beside
    <3>2. H(v, g) \in [Names -> SUBSET (Groups \union {Root})]
      BY <3>1 DEF Scenes
    <3>3. v.scene.groups \union {g} \in SUBSET Groups
      BY <3>1 DEF Scenes
    <3>4. Beside(v, More(v, g))
      BY <3>1, <3>3, GroupsWrite
    <3> HIDE DEF More, H
    <3>5. Beside(More(v, g), Rehome(More(v, g), H(v, g)))
      BY <3>2, <3>4, GroupsWrite DEF Beside
    <3> QED
      BY <2>2, <3>4, <3>5 DEF Beside
  <2> HIDE DEF More, H
  <2>6. \A v \in grouped : Beside(p, v)
    BY <2>5
  <2> HIDE DEF grouped
  <2>7. Beside(p, Make(p, "light"))
    BY <1>pushed, SettingsWrite DEF Datablocks
  <2>8. \A v \in MakeOne(p) : Beside(p, v)
    BY <1>pushed, <2>1, <2>2, <2>3, <2>4, <2>6, <2>7
  <2> QED
    BY <1>pushed, <1>ends, <2>8 DEF Undoable, CreateObjects
<1> QED
  BY <1>1

\* Every outcome leaves a world whose active step is one of its steps.
Stands(outcomes) == \A out \in outcomes : Standing(out.w)

LEMMA UndoableStands ==
  ASSUME NEW u, Standing(u), NEW outcomes, Undoable(u, outcomes)
  PROVE  Stands(outcomes)
<1>1. Standing(UndoPush(u))
  BY PushStores
<1> QED
  BY <1>1, BesideStands DEF Undoable, Stands

\* What changes something before it pushes, or pushes nothing.
LEMMA UnpushedStand ==
  ASSUME NEW u, Standing(u), NEW s \in Scenes
  PROVE  /\ Stands(BuildNodes(u))
         /\ Stands(SelectObjects(u))
         /\ Stands(DeselectAll(u))
         /\ Stands(SelectAll(u))
         /\ Stands(ViewportScreenshot(u))
         /\ Stands(CheckpointRestore(u, s))
<1>1. \A v : Standing(v) =>
        /\ v \in Worlds /\ Standing(UndoPush(v))
        /\ Stands(Returns(v)) /\ Stands(Raises(v)) /\ Stands(Reports(v)) /\ Stands(Ends(v))
  BY PushStores DEF Standing, Stands, Returns, Raises, Reports, Ends
<1>2. \A v, q : Standing(v) /\ Beside(v, q) => Standing(q)
  BY BesideStands
<1>3. \A v \in EnsureObjectMode(u) : Standing(v)
  BY <1>1, <1>2, ModesWrite DEF EnsureObjectMode
<1>4. Stands(BuildNodes(u))
  <2>1. \A o : Standing(Mark(u, {o}, "modifier"))
    BY <1>1, <1>2, MarkWrites DEF Aspects
  <2> DEFINE m(o) == Mark(u, {o}, "modifier")
  <2>2. ResolveNodeTree(u) = {u, Make(u, "world"), Setting(u, "use_nodes"), Make(u, "material")}
          \union {Make(m(o), "node_group") : o \in Objs(u)}
    BY DEF ResolveNodeTree
  <2>3. \A o : Standing(m(o))
    BY <2>1
  <2> HIDE DEF m
  <2>4. \A v \in ResolveNodeTree(u) : Standing(v)
    BY <1>1, <1>2, <2>2, <2>3, SettingsWrite DEF Datablocks, Settings
  <2>5. \A v \in ResolveNodeTree(u) : Standing(Make(UndoPush(v), "nodes"))
    BY <1>1, <1>2, <2>4, SettingsWrite DEF Datablocks
  <2> QED
    BY <1>1, <2>4, <2>5 DEF Stands, BuildNodes
<1>5. Stands(SelectObjects(u))
  <2> DEFINE after == UNION {Picks(UndoPush(v)) : v \in EnsureObjectMode(u)}
             Then(v) == Raises(v) \union UNION {Returns(Focus(v, a)) : a \in Selectable(v)}
  <2>1. \A v \in after : Standing(v)
    BY <1>1, <1>2, <1>3, PicksWrite
  <2>2. SelectObjects(u) = Raises(u) \union UNION {Then(v) : v \in after}
    BY DEF SelectObjects
  <2> HIDE DEF after
  <2>3. \A v \in after : \A a \in Selectable(v) : Standing(Focus(v, a))
    BY <1>1, <1>2, <2>1, SelectionWrites, ObjsAreNames
  <2>4. \A v \in after : Stands(Then(v))
    BY <1>1, <2>1, <2>3 DEF Stands
  <2> HIDE DEF Then
  <2> QED
    BY <1>1, <2>2, <2>4 DEF Stands
<1>6. Stands(DeselectAll(u))
  <2>1. \A v \in EnsureObjectMode(u) : Standing(Deselect(UndoPush(v)))
    BY <1>1, <1>2, <1>3, SelectionWrites
  <2> QED
    BY <1>1, <2>1 DEF Stands, DeselectAll
<1>7. Stands(SelectAll(u))
  <2> DEFINE Of(v, K) == [v EXCEPT !.scene.sel = OfKind(v, K) \intersect Selectable(v)]
             Typed == {{k} : k \in Kinds} \union {Kinds}
             All(v) == UNION {Returns(Of(UndoPush(v), K)) : K \in Typed}
  <2>1. \A v : Standing(v) => \A K : Standing(Of(v, K))
    <3> SUFFICES ASSUME NEW v, Standing(v), NEW K PROVE Standing(Of(v, K))
      OBVIOUS
    <3>1. OfKind(v, K) \intersect Selectable(v) \in SUBSET Names
      BY ObjsAreNames
    <3>2. Beside(v, Of(v, K))
      BY <1>1, <3>1, SelectionWrites
    <3> QED
      BY <1>2, <3>2
  <2>2. SelectAll(u) = UNION {All(v) : v \in EnsureObjectMode(u)}
    BY DEF SelectAll
  <2> HIDE DEF Of, Typed
  <2>3. \A v \in EnsureObjectMode(u) : Stands(All(v))
    BY <1>1, <1>3, <2>1 DEF Stands
  <2> HIDE DEF All
  <2> QED
    BY <2>2, <2>3 DEF Stands
<1>8. Stands(ViewportScreenshot(u))
  <2>1. Standing(Setting(u, "camera"))
    BY <1>1, <1>2, SettingsWrite DEF Settings
  <2> QED
    BY <1>1, <2>1 DEF Stands, ViewportScreenshot
<1>9. Stands(CheckpointRestore(u, s))
  BY <1>1, OpenedStands DEF Stands, CheckpointRestore
<1> QED
  BY <1>4, <1>5, <1>6, <1>7, <1>8, <1>9

-----------------------------------------------------------------------------
(* The registry.                                                            *)

\* Whatever pushes does so before it writes: its outcomes are undoable.
LEMMA RunUndoable ==
  ASSUME NEW u, Standing(u), NEW op \in Ops \ ChangesUnpushed, NEW dry, NEW s
  PROVE  Undoable(u, Run(op, u, dry, s))
BY ObjectsUndoable, CollectionsUndoable, PropertiesUndoable, MeshesUndoable,
   DatablocksUndoable, NodesUndoable, FilesUndoable, ReadsUndoable, ComposedUndoable
   DEF Run, Ops, ReadOps, WriteOps, DryRunOps, ChangesUnpushed

LEMMA RunStands ==
  ASSUME NEW u, Standing(u), NEW op \in Ops, NEW dry, NEW s \in Scenes
  PROVE  Stands(Run(op, u, dry, s))
<1>1. CASE op \in ChangesUnpushed
  BY <1>1, UnpushedStand DEF Run, ChangesUnpushed
<1>2. CASE op \notin ChangesUnpushed
  BY <1>2, RunUndoable, UndoableStands
<1> QED
  BY <1>1, <1>2

\* A dry run leaves the world alone.
LEMMA DryRunHarmless ==
  ASSUME NEW u, NEW op \in DryRunOps, NEW s
  PROVE  Harmless(u, Run(op, u, TRUE, s))
<1>1. /\ Harmless(u, ObjectTransform(u, TRUE)) /\ Harmless(u, ObjectDelete(u, TRUE))
      /\ Harmless(u, CreateObjects(u, TRUE)) /\ Harmless(u, GeoCreateGroup(u, TRUE))
      /\ Harmless(u, GeoApplyPreset(u, TRUE))
  BY DEF Harmless, Raises, Returns, ObjectTransform, ObjectDelete, CreateObjects,
     GeoCreateGroup, GeoApplyPreset
<1>2. /\ Harmless(u, GeoCreateModifier(u, TRUE)) /\ Harmless(u, GeoSetInput(u, TRUE))
      /\ Harmless(u, GeoAnimateInput(u, TRUE)) /\ Harmless(u, GeoRealize(u, TRUE))
  BY DEF Harmless, Raises, Returns, GeoCreateModifier, GeoSetInput, GeoAnimateInput, GeoRealize
<1> QED
  BY <1>1, <1>2 DEF Run, DryRunOps

\* What the MCP server takes for a read changes nothing unless it raises,
\* bake_preview excepted.
LEMMA ReadsAreReads ==
  ASSUME NEW u, NEW op \in ReadOnly \ {"render.bake_preview"}, NEW dry, NEW s,
         NEW out \in Run(op, u, dry, s), out.r # "raised"
  PROVE  out.w = u
<1>1. CASE op = "render.viewport_screenshot"
  BY <1>1 DEF Run, ViewportScreenshot, Ends, Returns, Raises
<1>2. CASE op # "render.viewport_screenshot"
  BY <1>2 DEF Run, ReadOnly, SceneContext, SceneSnapshot, Query, ResolveTarget, Project,
     ListItems, BboxInfo, ListCollections, ListConstraints, ListVertexGroups, ListShapeKeys,
     DescribeApi, AuditRead, CheckpointList, RenderRegion, Ends, Returns, Raises
<1> QED
  BY <1>1, <1>2

-----------------------------------------------------------------------------
(* The inductive invariant.                                                 *)

\* The scene s is at most n steps below the active one.
Held(v, s, n) ==
  \E i \in DOMAIN v.steps : i <= v.at /\ v.at <= i + n /\ v.steps[i] = s

\* What a transaction that began with the scene s can still be rolled back to
\* after n pushes of its steps.
Rewinds(v, s, n) ==
  /\ Held(v, s, n)
  /\ n = 0 => v.scene = s /\ v.steps[v.at] = s
  /\ n = 1 => v.steps[v.at] = s
  /\ n \in 1 .. 2 => v.at > 1 /\ v.steps[v.at - 1] = s

Jobs ==
  [kind : {"batch", "selection", "transaction"}, op : Ops \union {"transaction"},
   dry : BOOLEAN, before : Worlds, done : Nat, left : Nat, pushed : Nat, plain : BOOLEAN]

\* A batch or a transaction that is under way.
JobInv ==
  job # NoJob =>
    /\ job \in Jobs
    /\ job.done + job.left <= MaxSteps
    /\ job.plain => job.pushed <= job.done
    /\ job.kind = "batch" => job.op \in BatchTools
    /\ job.kind = "selection" => job.op \in StepTools
    /\ job.dry => job.kind = "batch" /\ job.op \in DryRunOps /\ w = job.before
    /\ job.kind = "transaction" /\ job.plain => Rewinds(w, job.before.scene, job.pushed)
    /\ job.kind # "transaction" /\ job.plain
         => /\ job.op \notin ChangesUnpushed
            /\ w = job.before \/ Held(w, job.before.scene, job.done)

\* The fields of last.
LastInv ==
  /\ last = [kind |-> last.kind, op |-> last.op, dry |-> last.dry, r |-> last.r,
             bumps |-> last.bumps, pushed |-> last.pushed, plain |-> last.plain,
             before |-> last.before]
  /\ last.kind \in LastKinds /\ last.before \in Worlds

IInv ==
  /\ Standing(w) /\ saved \in Scenes /\ calls \in 0 .. MaxCalls /\ edits \in 0 .. MaxEdits
  /\ JobInv /\ LastInv
  /\ WorkIsUndoable /\ DryRunIsPure /\ NoSilentChange /\ RollbackIsExact

-----------------------------------------------------------------------------
(* Steps of a batch, a selection or a transaction.                          *)

LEMMA Steps ==
  ASSUME NEW p, Standing(p)
  PROVE  /\ p \in Worlds /\ p.scene \in Scenes /\ p.at \in Nat \ {0} /\ Len(p.steps) \in Nat
         /\ p.at <= Len(p.steps) /\ p.at <= UndoSteps /\ DOMAIN p.steps = 1 .. Len(p.steps)
         /\ p.pushes \in Nat
<1>1. p.steps \in Seq(Scenes) /\ p.at \in Nat /\ Len(p.steps) \in Nat
  BY DEF Standing, Worlds
<1> QED
  BY <1>1, BlenderAssumption DEF Standing, Worlds

\* One more push: what was n steps below the active one is n + 1 below it,
\* unless it falls off the end.
LEMMA PushHolds ==
  ASSUME NEW p, Standing(p), NEW s, NEW n \in Nat, n + 1 < UndoSteps, Held(p, s, n),
         NEW v, Beside(UndoPush(p), v)
  PROVE  Held(v, s, n + 1)
<1> DEFINE q == UndoPush(p)
<1>1. /\ Standing(q)
      /\ \/ /\ q.at = p.at + 1
            /\ \A i \in 1 .. p.at : q.steps[i] = p.steps[i]
         \/ /\ q.at = p.at /\ p.at = UndoSteps
            /\ \A i \in 2 .. p.at : q.steps[i - 1] = p.steps[i]
  BY PushStores
<1>2. v.steps = q.steps /\ v.at = q.at
  BY DEF Beside
<1> HIDE DEF q
<1>3. PICK i \in DOMAIN p.steps : i <= p.at /\ p.at <= i + n /\ p.steps[i] = s
  BY DEF Held
<1>4. /\ p.at \in Nat \ {0} /\ i \in 1 .. p.at /\ q.at \in Nat
      /\ DOMAIN q.steps = 1 .. Len(q.steps) /\ Len(q.steps) \in Nat /\ q.at <= Len(q.steps)
  BY <1>1, <1>3, Steps
<1>5. CASE q.at = p.at + 1 /\ \A j \in 1 .. p.at : q.steps[j] = p.steps[j]
  <2>1. i \in DOMAIN q.steps /\ i <= q.at /\ q.at <= i + (n + 1) /\ q.steps[i] = s
    BY <1>3, <1>4, <1>5
  <2> QED
    BY <1>2, <2>1 DEF Held
<1>6. CASE q.at = p.at /\ p.at = UndoSteps /\ \A j \in 2 .. p.at : q.steps[j - 1] = p.steps[j]
  <2>1. i \in 2 .. p.at
    BY <1>3, <1>4, <1>6
  <2>2. i - 1 \in DOMAIN q.steps /\ i - 1 <= q.at /\ q.at <= (i - 1) + (n + 1)
        /\ q.steps[i - 1] = s
    BY <1>3, <1>4, <1>6, <2>1
  <2> QED
    BY <1>2, <2>2 DEF Held
<1> QED
  BY <1>1, <1>5, <1>6

LEMMA PushHoldsScene ==
  ASSUME NEW p, Standing(p), NEW v, Beside(UndoPush(p), v), NEW n \in Nat
  PROVE  Held(v, p.scene, n)
<1>1. /\ Standing(UndoPush(p)) /\ UndoPush(p).steps[UndoPush(p).at] = p.scene
      /\ v.steps = UndoPush(p).steps /\ v.at = UndoPush(p).at
  BY PushStores DEF Beside
<1>2. v.at \in DOMAIN v.steps /\ v.at \in Nat
  BY <1>1, Steps
<1> QED
  BY <1>1, <1>2 DEF Held

\* One step of a transaction.
LEMMA RewindsOn ==
  ASSUME NEW p, Standing(p), NEW s, NEW n \in Nat, n + 1 < UndoSteps, Rewinds(p, s, n),
         NEW v, Beside(UndoPush(p), v)
  PROVE  Rewinds(v, s, n + 1)
<1> DEFINE q == UndoPush(p)
<1>1. /\ Standing(q) /\ q.scene = p.scene /\ q.steps[q.at] = p.scene
      /\ \/ /\ q.at = p.at + 1
            /\ \A i \in 1 .. p.at : q.steps[i] = p.steps[i]
         \/ /\ q.at = p.at /\ p.at = UndoSteps
            /\ \A i \in 2 .. p.at : q.steps[i - 1] = p.steps[i]
  BY PushStores
<1>2. v.steps = q.steps /\ v.at = q.at
  BY DEF Beside
<1>3. Held(v, s, n + 1)
  BY PushHolds DEF Rewinds
<1> HIDE DEF q
<1>4. p.at \in Nat \ {0} /\ q.at \in Nat /\ UndoSteps \in Nat
  BY <1>1, Steps, BlenderAssumption
<1>5. q.at > 1 /\ q.steps[q.at - 1] = p.steps[p.at]
  BY <1>1, <1>4
<1>6. n = 0 => v.steps[v.at] = s
  BY <1>1, <1>2 DEF Rewinds
<1>7. n \in {0, 1} => v.at > 1 /\ v.steps[v.at - 1] = s
  BY <1>2, <1>5 DEF Rewinds
<1>8. n + 1 # 0 /\ (n + 1 = 1 => n = 0) /\ (n + 1 \in 1 .. 2 => n \in {0, 1})
  OBVIOUS
<1> QED
  BY <1>3, <1>6, <1>7, <1>8 DEF Rewinds

\* A transaction that has just pushed.
LEMMA RewindsAtFirst ==
  ASSUME NEW p, Standing(p)
  PROVE  Rewinds(UndoPush(p), p.scene, 0)
<1>1. Beside(UndoPush(p), UndoPush(p)) /\ UndoPush(p).scene = p.scene
      /\ UndoPush(p).steps[UndoPush(p).at] = p.scene
  BY PushStores DEF Beside, Standing
<1>2. Held(UndoPush(p), p.scene, 0)
  BY <1>1, PushHoldsScene
<1> QED
  BY <1>1, <1>2 DEF Rewinds

-----------------------------------------------------------------------------
(* Init and the steps of Next.                                              *)

LEMMA InitIInv == Init => IInv
<1> SUFFICES ASSUME Init PROVE IInv
  OBVIOUS
<1>1. PICK s \in Scene0 :
        /\ saved = s
        /\ w \in {Opened(s)} \union
                   {Mark(UndoPush(Opened(s)), {o}, "earlier") : o \in Objs(Opened(s))}
  BY DEF Init
<1>2. s \in Scenes /\ Standing(Opened(s))
  BY OpenedStands, EditingAssumption
<1>3. \A o : Standing(Mark(UndoPush(Opened(s)), {o}, "earlier"))
  BY <1>2, PushStores, MarkWrites, BesideStands DEF Aspects, Standing
<1>4. Standing(w) /\ saved \in Scenes /\ w \in Worlds
  BY <1>1, <1>2, <1>3 DEF Standing
<1>5. 0 \in 0 .. MaxCalls /\ 0 \in 0 .. MaxEdits
  BY EditingAssumption
<1>6. JobInv /\ LastInv
  BY <1>4 DEF Init, JobInv, LastInv, LastKinds
<1>7. ~Ended
  BY DEF Init, Ended
<1> QED
  BY <1>4, <1>5, <1>6, <1>7
     DEF Init, IInv, WorkIsUndoable, DryRunIsPure, NoSilentChange, RollbackIsExact

\* The properties hold of a state in which no command has just ended.
LEMMA NothingEnded ==
  ASSUME ~Ended'
  PROVE  (WorkIsUndoable /\ DryRunIsPure /\ NoSilentChange /\ RollbackIsExact)'
BY DEF WorkIsUndoable, DryRunIsPure, NoSilentChange, RollbackIsExact

LEMMA AnsweredFields ==
  ASSUME NEW kind \in LastKinds, NEW op, NEW dry, NEW r, NEW before \in Worlds, NEW pushed,
         NEW plain, Answered(kind, op, dry, r, before, pushed, plain)
  PROVE  /\ LastInv'
         /\ last'.kind = kind /\ last'.op = op /\ last'.dry = dry /\ last'.r = r
         /\ last'.before = before /\ last'.pushed = pushed /\ last'.plain = plain
         /\ ~last'.bumps => dry \/ op \in ReadOnly \/ HasError(op, r)
BY DEF Answered, LastInv, IsMutatingOp

LEMMA DispatchKeeps ==
  ASSUME IInv, NEW op \in Tools, NEW dry \in BOOLEAN, Dispatch(op, dry)
  PROVE  IInv'
<1>1. /\ Idle /\ Standing(w) /\ w \in Worlds /\ saved \in Scenes /\ op \in Ops
      /\ dry => op \in DryRunOps
  BY EditingAssumption DEF IInv, Standing, Dispatch, Calls, MayBeDry
<1> DEFINE plain == op \notin ChangesUnpushed
<1>2. PICK out \in Run(op, w, dry, saved) :
        /\ w' = out.w
        /\ saved' = IF op = "checkpoint.create" /\ out.r = "ok" THEN w.scene ELSE saved
        /\ Answered("call", op, dry, out.r, w, 0, plain)
  BY DEF Dispatch
<1> HIDE DEF plain
<1>3. Standing(w') /\ saved' \in Scenes
  BY <1>1, <1>2, RunStands, Steps DEF Stands
<1>4. /\ LastInv' /\ last'.kind = "call" /\ last'.op = op /\ last'.dry = dry
      /\ last'.r = out.r /\ last'.before = w /\ last'.plain = plain
      /\ ~last'.bumps => dry \/ op \in ReadOnly \/ HasError(op, out.r)
  BY <1>1, <1>2, AnsweredFields DEF LastKinds
<1>5. calls' \in 0 .. MaxCalls /\ edits' \in 0 .. MaxEdits
  BY EditingAssumption DEF IInv, Dispatch, Calls
<1>6. JobInv'
  BY <1>1 DEF Dispatch, JobInv, Jobs, Idle, NoJob, IInv
<1>7. WorkIsUndoable'
  <2> SUFFICES ASSUME op \notin ChangesUnpushed, w'.scene # w.scene
               PROVE  \E i \in DOMAIN w'.steps : w'.steps[i] = w.scene
    BY <1>4 DEF WorkIsUndoable, plain
  <2>1. Beside(UndoPush(w), w')
    BY <1>1, <1>2, RunUndoable DEF Undoable
  <2> QED
    BY <1>1, <2>1, PushHoldsScene DEF Held
<1>8. dry => w' = w
  BY <1>1, <1>2, DryRunHarmless DEF Harmless
<1>9. DryRunIsPure'
  BY <1>4, <1>8 DEF DryRunIsPure
<1>10. NoSilentChange'
  <2> SUFFICES ASSUME ~last'.bumps, ~HasError(op, out.r), op # "render.bake_preview"
               PROVE  w'.scene = w.scene
    BY <1>4 DEF NoSilentChange
  <2>1. CASE dry
    BY <1>8, <2>1
  <2>2. CASE ~dry
    <3>1. op \in ReadOnly /\ out.r # "raised"
      BY <1>4, <2>2 DEF HasError
    <3> QED
      BY <1>2, <3>1, ReadsAreReads
  <2> QED
    BY <2>1, <2>2
<1>11. RollbackIsExact'
  BY <1>4 DEF RollbackIsExact
<1> QED
  BY <1>3, <1>4, <1>5, <1>6, <1>7, <1>9, <1>10, <1>11 DEF IInv

LEMMA BatchBeginsKeeps ==
  ASSUME IInv, NEW op \in BatchTools, NEW dry \in BOOLEAN, NEW n \in 1 .. MaxSteps,
         BatchBegins(op, dry, n)
  PROVE  IInv'
<1>1. /\ Standing(w) /\ w \in Worlds /\ op \in Ops /\ n \in Nat /\ n <= MaxSteps
      /\ dry => op \in DryRunOps
      /\ MaxSteps \in Nat
  BY EditingAssumption DEF IInv, Standing, BatchBegins, MayBeDry, Ops
<1> DEFINE plain == op \notin ChangesUnpushed
<1>2. /\ job' = [kind |-> "batch", op |-> op, dry |-> dry, before |-> w,
                 done |-> 0, left |-> n, pushed |-> 0, plain |-> plain]
      /\ w' = IF ~dry THEN UndoPush(w) ELSE w
      /\ UNCHANGED <<saved, last, edits>>
      /\ calls < MaxCalls /\ calls' = calls + 1
  BY DEF BatchBegins, Begin, Calls
<1>3. Standing(w') /\ calls' \in 0 .. MaxCalls
  BY <1>1, <1>2, PushStores, EditingAssumption DEF IInv
<1>4. dry \/ Held(w', w.scene, 0)
  BY <1>1, <1>2, RewindsAtFirst DEF Rewinds
<1>5. JobInv'
  <2>1. plain \in BOOLEAN /\ (plain => op \notin ChangesUnpushed)
    OBVIOUS
  <2> HIDE DEF plain
  <2> QED
    BY <1>1, <1>2, <1>4, <2>1 DEF JobInv, Jobs
<1>6. ~Ended'
  BY <1>2 DEF Ended, Idle
<1> QED
  BY <1>2, <1>3, <1>5, <1>6, NothingEnded DEF IInv, LastInv

LEMMA ApplyToSelectionKeeps ==
  ASSUME IInv, NEW op \in StepTools, ApplyToSelection(op)
  PROVE  IInv'
<1> DEFINE n == Cardinality(w.scene.sel)
<1>1. Standing(w) /\ w \in Worlds /\ w.scene \in Scenes /\ op \in Ops /\ MaxSteps \in Nat
  BY Steps, EditingAssumption DEF IInv
<1>2. n \in Nat
  BY <1>1, FS_Subset, FS_CardinalityType, BlenderAssumption DEF Scenes
<1> HIDE DEF n
<1> DEFINE plain == op \notin ChangesUnpushed
<1>3. /\ job' = [kind |-> "selection", op |-> op, dry |-> FALSE, before |-> w,
                 done |-> 0, left |-> n, pushed |-> 0, plain |-> plain]
      /\ w' = IF w.scene.sel # {} THEN UndoPush(w) ELSE w
      /\ UNCHANGED <<saved, last, edits>>
      /\ calls < MaxCalls /\ calls' = calls + 1 /\ n <= MaxSteps
  BY DEF ApplyToSelection, Begin, Calls, n
<1>4. Standing(w') /\ calls' \in 0 .. MaxCalls
  BY <1>1, <1>3, PushStores, EditingAssumption DEF IInv
<1>5. w' = w \/ Held(w', w.scene, 0)
  BY <1>1, <1>3, RewindsAtFirst DEF Rewinds
<1>6. JobInv'
  <2>1. plain \in BOOLEAN /\ (plain => op \notin ChangesUnpushed)
    OBVIOUS
  <2> HIDE DEF plain
  <2> QED
    BY <1>1, <1>2, <1>3, <1>5, <2>1 DEF JobInv, Jobs
<1>7. ~Ended'
  BY <1>3 DEF Ended, Idle
<1> QED
  BY <1>3, <1>4, <1>6, <1>7, NothingEnded DEF IInv, LastInv

LEMMA TransactionBeginsKeeps ==
  ASSUME IInv, TransactionBegins
  PROVE  IInv'
<1>1. Standing(w) /\ w \in Worlds /\ MaxSteps \in Nat
  BY Steps, EditingAssumption DEF IInv
<1>2. /\ job' = [kind |-> "transaction", op |-> "transaction", dry |-> FALSE, before |-> w,
                 done |-> 0, left |-> MaxSteps, pushed |-> 0,
                 plain |-> "transaction" \notin ChangesUnpushed]
      /\ w' = UndoPush(w)
      /\ UNCHANGED <<saved, last, edits>>
      /\ calls < MaxCalls /\ calls' = calls + 1
  BY DEF TransactionBegins, Begin, Calls
<1>3. Standing(w') /\ calls' \in 0 .. MaxCalls
  BY <1>1, <1>2, PushStores, EditingAssumption DEF IInv
<1>4. JobInv'
  BY <1>1, <1>2, RewindsAtFirst DEF JobInv, Jobs
<1>5. ~Ended'
  BY <1>2 DEF Ended, Idle
<1> QED
  BY <1>2, <1>3, <1>4, <1>5, NothingEnded DEF IInv, LastInv

LEMMA ItemKeeps ==
  ASSUME IInv, Item
  PROVE  IInv'
<1>1. /\ Standing(w) /\ w \in Worlds /\ saved \in Scenes /\ MaxSteps \in Nat
      /\ UndoSteps \in Nat /\ MaxSteps < UndoSteps
  BY EditingAssumption, BlenderAssumption DEF IInv, Standing
<1>2. job.kind \in {"batch", "selection"} /\ job.left > 0
  BY DEF Item
<1>3. job # NoJob /\ job \in Jobs
  BY <1>2 DEF IInv, JobInv, NoJob
<1>4. /\ job.op \in Ops /\ job.done + job.left <= MaxSteps
      /\ job.plain => job.pushed <= job.done
  BY <1>2, <1>3, EditingAssumption DEF IInv, JobInv, Ops
<1>5. PICK out \in Run(job.op, w, job.dry, saved) : w' = out.w
  BY DEF Item, ItemArgs
<1>6. /\ job' = [job EXCEPT !.done = @ + 1, !.left = @ - 1]
      /\ UNCHANGED <<saved, last, calls, edits>>
  BY DEF Item
<1>7. /\ job' \in Jobs /\ job'.kind = job.kind /\ job'.op = job.op /\ job'.dry = job.dry
      /\ job'.before = job.before /\ job'.pushed = job.pushed /\ job'.plain = job.plain
      /\ job'.done = job.done + 1 /\ job'.left = job.left - 1
      /\ job'.done + job'.left <= MaxSteps
      /\ job'.plain => job'.pushed <= job'.done
      /\ job.done \in Nat /\ job.done + 1 <= MaxSteps
  <2>1. job.done \in Nat /\ job.left \in Nat /\ job.pushed \in Nat
    BY <1>3 DEF Jobs
  <2>2. job.left - 1 \in Nat /\ job.done + 1 \in Nat
    BY <1>2, <2>1
  <2>3. /\ job' \in Jobs /\ job'.kind = job.kind /\ job'.op = job.op /\ job'.dry = job.dry
        /\ job'.before = job.before /\ job'.pushed = job.pushed /\ job'.plain = job.plain
        /\ job'.done = job.done + 1 /\ job'.left = job.left - 1
    BY <1>3, <1>6, <2>2 DEF Jobs
  <2> QED
    BY <1>1, <1>4, <2>1, <2>2, <2>3
<1>8. Standing(w')
  BY <1>1, <1>4, <1>5, RunStands DEF Stands
<1>9. CASE job.dry
  <2>1. /\ job.kind = "batch" /\ job.op \in DryRunOps /\ w = job.before /\ job.op \in BatchTools
        /\ job.plain => job.op \notin ChangesUnpushed
    BY <1>3, <1>9 DEF IInv, JobInv
  <2>2. w' = w
    <3>1. job.dry = TRUE
      BY <1>3, <1>9 DEF Jobs
    <3> QED
      BY <1>5, <2>1, <3>1, DryRunHarmless DEF Harmless
  <2>3. JobInv'
    BY <1>7, <2>1, <2>2 DEF JobInv
  <2> QED
    BY <1>2, <1>6, <1>7, <1>8, <2>3, NothingEnded DEF IInv, LastInv, Ended, Idle
<1>10. CASE ~job.dry
  <2>1. ASSUME job.plain
        PROVE  w' = job.before \/ Held(w', job.before.scene, job.done + 1)
    <3>1. /\ job.op \notin ChangesUnpushed
          /\ w = job.before \/ Held(w, job.before.scene, job.done)
      BY <1>2, <1>3, <2>1 DEF IInv, JobInv
    <3>2. w' = w \/ Beside(UndoPush(w), w')
      BY <1>1, <1>4, <1>5, <3>1, RunUndoable DEF Undoable
    <3>3. CASE w' = w
      <4>1. DOMAIN w.steps \subseteq Nat /\ w.at \in Nat
        BY <1>1, Steps
      <4> QED
        BY <1>7, <3>1, <3>3, <4>1 DEF Held
    <3>4. CASE Beside(UndoPush(w), w') /\ w = job.before
      BY <1>1, <1>7, <3>4, PushHoldsScene
    <3>5. CASE Beside(UndoPush(w), w') /\ Held(w, job.before.scene, job.done)
      BY <1>1, <1>7, <3>5, PushHolds
    <3> QED
      BY <3>1, <3>2, <3>3, <3>4, <3>5
  <2>2. /\ job.kind = "batch" => job.op \in BatchTools
        /\ job.kind = "selection" => job.op \in StepTools
        /\ job.plain => job.op \notin ChangesUnpushed
    BY <1>2, <1>3 DEF IInv, JobInv
  <2>3. JobInv'
    BY <1>2, <1>7, <1>10, <2>1, <2>2 DEF JobInv
  <2> QED
    BY <1>2, <1>6, <1>7, <1>8, <2>3, NothingEnded DEF IInv, LastInv, Ended, Idle
<1> QED
  BY <1>9, <1>10

LEMMA ItemsEndKeeps ==
  ASSUME IInv, ItemsEnd
  PROVE  IInv'
<1> DEFINE op == IF job.kind = "batch" THEN job.op ELSE "apply_to_selection"
<1>1. job.kind \in {"batch", "selection"}
  BY DEF ItemsEnd
<1>2. /\ job \in Jobs /\ job.done \in Nat /\ job.before \in Worlds
      /\ job.kind = "batch" => job.op \in BatchTools
      /\ job.kind = "selection" => job.op \in StepTools
      /\ job.dry => job.kind = "batch" /\ job.op \in DryRunOps /\ w = job.before
      /\ job.plain => w = job.before \/ Held(w, job.before.scene, job.done)
  BY <1>1 DEF IInv, JobInv, NoJob, Jobs
<1>3. /\ Answered(job.kind, op, job.dry, "ok", job.before, 0, job.plain)
      /\ job' = NoJob /\ UNCHANGED <<w, saved, calls, edits>>
  BY DEF ItemsEnd
<1>4. op \notin ReadOnly
  BY <1>1, <1>2, EditingAssumption DEF ReadOnly, WriteOps, DryRunOps
<1> HIDE DEF op
<1>6. /\ LastInv' /\ last'.kind = job.kind /\ last'.op = op /\ last'.dry = job.dry
      /\ last'.r = "ok" /\ last'.before = job.before /\ last'.plain = job.plain
      /\ ~last'.bumps => job.dry \/ op \in ReadOnly \/ HasError(op, "ok")
  <2>1. job.kind \in LastKinds /\ job.before \in Worlds
    BY <1>1, <1>2 DEF LastKinds
  <2> DEFINE kind == job.kind
             dry == job.dry
             before == job.before
             plain == job.plain
  <2>2. /\ kind \in LastKinds /\ before \in Worlds
        /\ Answered(kind, op, dry, "ok", before, 0, plain)
    BY <2>1, <1>3
  <2> HIDE DEF kind, dry, before, plain
  <2>3. /\ LastInv' /\ last'.kind = kind /\ last'.op = op /\ last'.dry = dry
        /\ last'.r = "ok" /\ last'.before = before /\ last'.plain = plain
        /\ ~last'.bumps => dry \/ op \in ReadOnly \/ HasError(op, "ok")
    BY <2>2 DEF Answered, LastInv, IsMutatingOp
  <2> QED
    BY <2>3 DEF kind, dry, before, plain
<1>7. WorkIsUndoable'
  BY <1>2, <1>3, <1>6 DEF WorkIsUndoable, Held
<1>8. DryRunIsPure' /\ NoSilentChange' /\ RollbackIsExact'
  BY <1>1, <1>2, <1>3, <1>4, <1>6 DEF DryRunIsPure, NoSilentChange, RollbackIsExact, HasError
<1>9. JobInv' /\ Standing(w')
  BY <1>3 DEF JobInv, IInv
<1> QED
  BY <1>3, <1>6, <1>7, <1>8, <1>9 DEF IInv

\* What a transaction is, as long as it runs.
LEMMA TransactionFacts ==
  ASSUME IInv, job.kind = "transaction"
  PROVE  /\ Standing(w) /\ w \in Worlds /\ saved \in Scenes
         /\ job \in Jobs /\ job.before \in Worlds /\ job.pushed \in Nat
         /\ job.done + job.left <= MaxSteps /\ MaxSteps < UndoSteps
         /\ job.done \in Nat /\ job.left \in Nat /\ MaxSteps \in Nat /\ UndoSteps \in Nat
         /\ job.plain \in BOOLEAN /\ ~job.dry
         /\ job.plain => job.pushed <= job.done /\ Rewinds(w, job.before.scene, job.pushed)
BY EditingAssumption, BlenderAssumption DEF IInv, JobInv, NoJob, Jobs, Standing

\* A step that raises: whatever has been pushed until then.
LEMMA FailsKeeps ==
  ASSUME IInv, job.kind = "transaction",
         NEW v, Standing(v), NEW n \in Nat,
         NEW plain, plain => Rewinds(v, job.before.scene, n),
         Fails(v, n, plain), UNCHANGED <<saved, calls, edits>>
  PROVE  IInv'
<1>1. /\ w' = Undo(v) /\ job' = NoJob
      /\ Answered("rollback", "transaction", FALSE, "raised", job.before, n, plain)
  BY DEF Fails, RollBack
<1>2. /\ Standing(w') /\ w'.steps = v.steps
      /\ v.at > 1 => w'.scene = v.steps[v.at - 1]
  BY <1>1, UndoLoads
<1>3. /\ LastInv' /\ last'.kind = "rollback" /\ last'.op = "transaction" /\ ~last'.dry
      /\ last'.r = "raised" /\ last'.before = job.before /\ last'.pushed = n
      /\ last'.plain = plain
  BY <1>1, TransactionFacts, AnsweredFields DEF LastKinds
<1>4. WorkIsUndoable'
  BY <1>2, <1>3 DEF WorkIsUndoable, Rewinds, Held
<1>5. RollbackIsExact'
  BY <1>2, <1>3 DEF RollbackIsExact, Rewinds
<1>6. DryRunIsPure' /\ NoSilentChange'
  BY <1>3 DEF DryRunIsPure, NoSilentChange, HasError
<1>7. JobInv'
  BY <1>1 DEF JobInv
<1> QED
  BY <1>2, <1>3, <1>4, <1>5, <1>6, <1>7 DEF IInv

LEMMA NoSuchToolKeeps ==
  ASSUME IInv, NoSuchTool
  PROVE  IInv'
BY FailsKeeps, TransactionFacts DEF NoSuchTool

LEMMA StepKeeps ==
  ASSUME IInv, NEW op \in StepTools, Step(op)
  PROVE  IInv'
<1>1. job.kind = "transaction" /\ job.left > 0 /\ UNCHANGED <<saved, calls, edits>>
  BY DEF Step
<1>2. PICK out \in Run(op, w, FALSE, saved) :
        IF out.r = "raised"
        THEN Fails(out.w, job.pushed + Pushed(out.w, w), job.plain /\ op \notin ChangesUnpushed)
        ELSE /\ w' = out.w
             /\ job' = [job EXCEPT !.done = @ + 1, !.left = @ - 1,
                                   !.pushed = job.pushed + Pushed(out.w, w),
                                   !.plain = job.plain /\ op \notin ChangesUnpushed]
             /\ UNCHANGED last
  BY DEF Step
<1> DEFINE v == out.w
           n == job.pushed + Pushed(v, w)
           plain == job.plain /\ op \notin ChangesUnpushed
<1>3. op \in Ops
  BY EditingAssumption
<1>4. Standing(v)
  BY <1>1, <1>2, <1>3, TransactionFacts, RunStands DEF Stands
<1>5. n \in Nat /\ plain \in BOOLEAN
  BY <1>1, <1>4, TransactionFacts, Steps DEF Pushed
<1>6. ASSUME plain
      PROVE  n <= job.done + 1 /\ Rewinds(v, job.before.scene, n)
  <2>1. v = w \/ Beside(UndoPush(w), v)
    BY <1>1, <1>2, <1>3, <1>6, TransactionFacts, RunUndoable DEF Undoable
  <2>2. CASE v = w
    <3>1. n = job.pushed
      BY <1>1, <2>2, TransactionFacts, Steps DEF Pushed
    <3> QED
      BY <1>1, <1>6, <2>2, <3>1, TransactionFacts
  <2>3. CASE Beside(UndoPush(w), v)
    <3>1. v.pushes = w.pushes + 1 /\ w.pushes \in Nat /\ job.pushed \in Nat
      BY <1>1, <2>3, TransactionFacts, PushStores, Steps DEF Beside
    <3>2. n = job.pushed + 1
      BY <3>1 DEF Pushed
    <3>3. job.pushed + 1 < UndoSteps
      BY <1>1, <1>6, TransactionFacts
    <3> QED
      BY <1>1, <1>6, <2>3, <3>1, <3>2, <3>3, TransactionFacts, RewindsOn
  <2> QED
    BY <2>1, <2>2, <2>3
<1> HIDE DEF n, v, plain
<1>7. CASE out.r = "raised"
  <2>1. Fails(v, n, plain)
    BY <1>2, <1>7 DEF v, n, plain
  <2> QED
    BY <1>1, <1>4, <1>5, <1>6, <2>1, FailsKeeps
<1>8. CASE out.r # "raised"
  <2>1. /\ w' = v /\ UNCHANGED last
        /\ job' = [job EXCEPT !.done = @ + 1, !.left = @ - 1, !.pushed = n, !.plain = plain]
    BY <1>2, <1>8 DEF v, n, plain
  <2>2. /\ job' \in Jobs /\ job'.kind = "transaction" /\ job'.before = job.before
        /\ ~job'.dry /\ job'.pushed = n /\ job'.plain = plain
        /\ job'.done + job'.left <= MaxSteps /\ job'.done = job.done + 1
    <3>1. /\ job \in Jobs /\ job.kind = "transaction" /\ ~job.dry
          /\ job.done \in Nat /\ job.left \in Nat /\ job.left > 0 /\ MaxSteps \in Nat
          /\ job.done + job.left <= MaxSteps
      BY <1>1, TransactionFacts
    <3>2. job.left - 1 \in Nat /\ job.done + 1 \in Nat
      BY <3>1
    <3>3. /\ job' \in Jobs /\ job'.kind = job.kind /\ job'.before = job.before
          /\ job'.dry = job.dry /\ job'.pushed = n /\ job'.plain = plain
          /\ job'.done = job.done + 1 /\ job'.left = job.left - 1
      BY <1>5, <2>1, <3>1, <3>2 DEF Jobs
    <3> QED
      BY <3>1, <3>2, <3>3
  <2>3. JobInv'
    BY <1>6, <2>1, <2>2 DEF JobInv
  <2>4. ~Ended'
    BY <2>2 DEF Ended, Idle
  <2> QED
    BY <1>1, <1>4, <2>1, <2>3, <2>4, NothingEnded DEF IInv, LastInv
<1> QED
  BY <1>7, <1>8

LEMMA TransactionEndsKeeps ==
  ASSUME IInv, TransactionEnds
  PROVE  IInv'
<1>1. /\ job.kind = "transaction" /\ job' = NoJob /\ UNCHANGED <<w, saved, calls, edits>>
      /\ Answered("transaction", "transaction", FALSE, "ok", job.before, job.pushed, job.plain)
  BY DEF TransactionEnds
<1>2. /\ LastInv' /\ last'.kind = "transaction" /\ last'.op = "transaction" /\ ~last'.dry
      /\ last'.r = "ok" /\ last'.before = job.before /\ last'.plain = job.plain
      /\ ~last'.bumps => "transaction" \in ReadOnly \/ HasError("transaction", "ok")
  BY <1>1, TransactionFacts, AnsweredFields DEF LastKinds
<1>3. WorkIsUndoable'
  BY <1>1, <1>2, TransactionFacts DEF WorkIsUndoable, Rewinds, Held
<1>4. DryRunIsPure' /\ NoSilentChange' /\ RollbackIsExact'
  BY <1>2 DEF DryRunIsPure, NoSilentChange, RollbackIsExact, ReadOnly, HasError
<1>5. JobInv'
  BY <1>1 DEF JobInv
<1> QED
  BY <1>1, <1>2, <1>3, <1>4, <1>5 DEF IInv

LEMMA UserActsKeeps ==
  ASSUME IInv, NEW kind \in {"user", "undo"}, NEW v, Standing(v), UserActs(kind, v)
  PROVE  IInv'
<1>1. /\ w' = v /\ UNCHANGED <<saved, job, calls>> /\ edits < MaxEdits /\ edits' = edits + 1
      /\ last' = [last EXCEPT !.kind = kind, !.before = w] /\ job.kind = "none"
  BY DEF UserActs, Idle
<1>2. edits' \in 0 .. MaxEdits
  BY <1>1, EditingAssumption DEF IInv
<1>3. LastInv' /\ last'.kind = kind
  BY <1>1 DEF IInv, LastInv, Standing, LastKinds
<1>4. JobInv'
  BY <1>1 DEF IInv, JobInv, Jobs, NoJob
<1>5. ~Ended'
  BY <1>3 DEF Ended
<1> QED
  BY <1>1, <1>2, <1>3, <1>4, <1>5, NothingEnded DEF IInv

LEMMA NextIInv == IInv /\ [Next]_vars => IInv'
<1> SUFFICES ASSUME IInv, [Next]_vars PROVE IInv'
  OBVIOUS
<1>1. ASSUME NEW op \in Tools, NEW dry \in BOOLEAN, Dispatch(op, dry) PROVE IInv'
  BY <1>1, DispatchKeeps
<1>2. ASSUME NEW op \in BatchTools, NEW dry \in BOOLEAN, NEW n \in 1 .. MaxSteps,
             BatchBegins(op, dry, n)
      PROVE  IInv'
  BY <1>2, BatchBeginsKeeps
<1>3. CASE Item
  BY <1>3, ItemKeeps
<1>4. CASE ItemsEnd
  BY <1>4, ItemsEndKeeps
<1>5. ASSUME NEW op \in StepTools, ApplyToSelection(op) PROVE IInv'
  BY <1>5, ApplyToSelectionKeeps
<1>6. ASSUME NEW op \in StepTools, Step(op) PROVE IInv'
  BY <1>6, StepKeeps
<1>7. CASE TransactionBegins
  BY <1>7, TransactionBeginsKeeps
<1>8. CASE NoSuchTool
  BY <1>8, NoSuchToolKeeps
<1>9. CASE TransactionEnds
  BY <1>9, TransactionEndsKeeps
<1>10. CASE UserEdits
  <2>1. PICK o \in Objs(w) : UserActs("user", UndoPush(Mark(w, {o}, "user")))
    BY <1>10 DEF UserEdits
  <2>2. Standing(Mark(w, {o}, "user"))
    BY MarkWrites, BesideStands DEF IInv, Standing, Aspects
  <2> QED
    BY <2>1, <2>2, PushStores, UserActsKeeps
<1>11. CASE UserUndoes
  BY <1>11, UndoLoads, UserActsKeeps DEF UserUndoes, IInv
<1>12. CASE UNCHANGED vars
  BY <1>12 DEF vars, IInv, JobInv, LastInv, WorkIsUndoable, DryRunIsPure, NoSilentChange,
     RollbackIsExact, Ended, Idle
<1> QED
  BY <1>1, <1>2, <1>3, <1>4, <1>5, <1>6, <1>7, <1>8, <1>9, <1>10, <1>11, <1>12 DEF Next

LEMMA InvariantIInv == Spec => []IInv
BY InitIInv, NextIInv, PTL DEF Spec

-----------------------------------------------------------------------------
\* Type correctness: the scene and every undo step are scenes, whatever the
\* capabilities write; the active step is one of them; a job has no more steps
\* than its call.
THEOREM TypeCorrect == Spec => []TypeOK
<1>1. IInv => TypeOK
  <2> SUFFICES ASSUME IInv PROVE TypeOK
    OBVIOUS
  <2>1. job = NoJob \/ /\ job.kind \in {"batch", "selection", "transaction"}
                       /\ job.done \in 0 .. MaxSteps /\ job.pushed \in Nat
                       /\ job.plain => job.pushed <= job.done
    BY EditingAssumption DEF IInv, JobInv, Jobs
  <2> QED
    BY <2>1 DEF IInv, LastInv, Standing, TypeOK
<1> QED
  BY InvariantIInv, <1>1, PTL

\* dispatcher.py and the capabilities: whatever a call, a batch, a selection or
\* a transaction has done to the scene, the scene as it was before is on the
\* undo stack, for any objects, collections and tools, and however full the
\* stack is.
THEOREM UndoKeepsWork == Spec => []WorkIsUndoable
<1>1. IInv => WorkIsUndoable
  BY DEF IInv
<1> QED
  BY InvariantIInv, <1>1, PTL

\* A dry run, of a call or of a batch, changes neither the scene nor the undo
\* stack.
THEOREM DryRunsArePure == Spec => []DryRunIsPure
<1>1. IInv => DryRunIsPure
  BY DEF IInv
<1> QED
  BY InvariantIInv, <1>1, PTL

\* server.py, _is_mutating_op: what does not bump the epoch of the snapshot
\* cache and is not answered with an error has changed nothing, bake_preview
\* excepted.
THEOREM ChangesBumpEpoch == Spec => []NoSilentChange
<1>1. IInv => NoSilentChange
  BY DEF IInv
<1> QED
  BY InvariantIInv, <1>1, PTL

\* composer.py, transaction: the one ed.undo takes a failed transaction back
\* exactly, if its steps have pushed once or twice.
THEOREM RollbackRestores == Spec => []RollbackIsExact
<1>1. IInv => RollbackIsExact
  BY DEF IInv
<1> QED
  BY InvariantIInv, <1>1, PTL
=============================================================================
