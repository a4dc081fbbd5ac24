------------------------------- MODULE Editing -------------------------------
(***************************************************************************)
(* What a client's commands and the user do to the scene and to the undo   *)
(* stack: the dispatcher with its batches (server/dispatcher.py), the      *)
(* transactions and apply_to_selection of composer.py, the checkpoints,    *)
(* and the decision of the MCP server whether its cached reads are still   *)
(* good (server.py).                                                       *)
(*                                                                         *)
(* All of it runs on Blender's main thread, one command after the other: a *)
(* batch or a transaction that has begun is a `job`, and nothing else      *)
(* moves until it ends.                                                    *)
(***************************************************************************)
EXTENDS Capabilities

CONSTANTS
  Scene0,        \* scenes Blender may have open
  Tools,         \* operations that are called singly
  BatchTools,    \* operations that tools call with a list of items
  StepTools,     \* operations used in transactions and apply_to_selection
  MaxCalls,      \* bound on the calls of clients
  MaxEdits,      \* bound on what the user does
  MaxSteps       \* bound on the items and steps of one call

\* Operations that change something before they push, or push nothing.
ChangesUnpushed ==
  {"build_nodes", "select", "deselect_all", "select_all",
   "render.viewport_screenshot", "checkpoint.restore"}

ASSUME EditingAssumption ==
  /\ Scene0 \subseteq Scenes
  /\ Tools \union StepTools \subseteq Ops
  /\ BatchTools \subseteq WriteOps
  /\ UndoSteps > MaxSteps  \* or a long batch pushes out what was before it
  /\ MaxCalls \in Nat /\ MaxEdits \in Nat /\ MaxSteps \in Nat

VARIABLES
  w,         \* the world: scene and undo stack
  saved,     \* the scene in the latest checkpoint
  job,       \* the batch or transaction that is being run
  last,      \* the last thing that was done, for the properties
  calls, edits

vars == <<w, saved, job, last, calls, edits>>

NoJob == [kind |-> "none"]
Idle == job.kind = "none"

LastKinds == {"start", "user", "undo", "call", "batch", "selection", "transaction", "rollback"}

TypeOK ==
  /\ w \in Worlds /\ w.at \in 1 .. Len(w.steps) /\ Len(w.steps) <= UndoSteps
  /\ saved \in Scenes
  /\ \/ job = NoJob
     \/ /\ job.kind \in {"batch", "selection", "transaction"}
        /\ job.done \in 0 .. MaxSteps /\ job.pushed \in Nat
        /\ job.plain => job.pushed <= job.done
  /\ last.kind \in LastKinds /\ last.before \in Worlds
  /\ calls \in 0 .. MaxCalls /\ edits \in 0 .. MaxEdits

\* A file just opened, or the scene as an earlier command left it: changed
\* since its push.
Init ==
  /\ \E s \in Scene0 :
       /\ saved = s
       /\ w \in {Opened(s)} \union
              {Mark(UndoPush(Opened(s)), {o}, "earlier") : o \in Objs(Opened(s))}
  /\ job = NoJob
  /\ last = [kind |-> "start", op |-> "", dry |-> FALSE, r |-> "ok", bumps |-> FALSE,
             pushed |-> 0, plain |-> TRUE, before |-> w]
  /\ calls = 0 /\ edits = 0

-----------------------------------------------------------------------------
(* The MCP server, when the answer is there.                                *)

\* What does not bump the epoch: the cacheable operations and three
\* namespaces that are taken to be read-only.
\* Fault: the whole checkpoint namespace is taken to be.
ReadOnly ==
  {"scene.context", "scene.snapshot", "query", "list", "bbox_info", "list_collections",
   "list_constraints", "list_vertex_groups", "list_shape_keys", "describe_api",
   "audit.read", "checkpoint.list", "render.viewport_screenshot", "render.region",
   "render.bake_preview"}
IsMutatingOp_Namespace(op) ==
  op \notin ReadOnly \union {"checkpoint.create", "checkpoint.restore"}
IsMutatingOp(op) == op \notin ReadOnly

\* A result that has the key "error": an exception, or a result of these.
HasError(op, r) == r = "raised" \/ (r = "soft" /\ op # "call_operator")

\* plain: none of the operations that ran is in ChangesUnpushed.
Answered(kind, op, dry, r, before, pushed, plain) ==
  last' = [kind |-> kind, op |-> op, dry |-> dry, r |-> r, pushed |-> pushed,
           plain |-> plain, before |-> before,
           bumps |-> ~dry /\ IsMutatingOp(op) /\ ~HasError(op, r)]

\* Tools pass dry_run on only for operations that look at it.
MayBeDry(op, dry) == dry => op \in DryRunOps

Calls == Idle /\ calls < MaxCalls /\ calls' = calls + 1 /\ UNCHANGED edits

-----------------------------------------------------------------------------
(* dispatcher.dispatch.                                                     *)

\* One call of one capability.
Dispatch(op, dry) ==
  /\ Calls
  /\ op \in Tools /\ MayBeDry(op, dry)
  /\ \E out \in Run(op, w, dry, saved) :
       /\ w' = out.w
       /\ saved' = IF op = "checkpoint.create" /\ out.r = "ok" THEN w.scene ELSE saved
       /\ Answered("call", op, dry, out.r, w, 0, op \notin ChangesUnpushed)
  /\ UNCHANGED job

\* The items of a call, under a push of their own.
Begin(kind, op, dry, n, pushes) ==
  /\ job' = [kind |-> kind, op |-> op, dry |-> dry, before |-> w,
             done |-> 0, left |-> n, pushed |-> 0, plain |-> op \notin ChangesUnpushed]
  /\ w' = IF pushes THEN UndoPush(w) ELSE w
  /\ UNCHANGED <<saved, last>>

\* Fault: the flag is left in the envelope.
ItemArgs_Forgotten == FALSE
ItemArgs == job.dry

BatchBegins(op, dry, n) ==
  /\ Calls
  /\ op \in BatchTools /\ MayBeDry(op, dry)
  /\ Begin("batch", op, dry, n, ~dry)

\* Fault: an item that raises is tried again.
Item_Again ==
  /\ job.kind \in {"batch", "selection"} /\ job.left > 0
  /\ \E out \in Run(job.op, w, ItemArgs, saved) :
       /\ w' = out.w
       /\ job' = [job EXCEPT !.done = @ + 1, !.left = IF out.r = "raised" THEN @ ELSE @ - 1]
  /\ UNCHANGED <<saved, last, calls, edits>>

\* An item that raises is reported, and the next one runs.
Item ==
  /\ job.kind \in {"batch", "selection"} /\ job.left > 0
  /\ \E out \in Run(job.op, w, ItemArgs, saved) : w' = out.w
  /\ job' = [job EXCEPT !.done = @ + 1, !.left = @ - 1]
  /\ UNCHANGED <<saved, last, calls, edits>>

ItemsEnd ==
  /\ job.kind \in {"batch", "selection"} /\ job.left = 0
  /\ Answered(job.kind, IF job.kind = "batch" THEN job.op ELSE "apply_to_selection",
              job.dry, "ok", job.before, 0, job.plain)
  /\ job' = NoJob
  /\ UNCHANGED <<w, saved, calls, edits>>

-----------------------------------------------------------------------------
(* composer.py.                                                             *)

\* Each selected object in turn; with none selected nothing is pushed.
ApplyToSelection(op) ==
  /\ Calls
  /\ op \in StepTools
  /\ Begin("selection", op, FALSE, Cardinality(w.scene.sel), w.scene.sel # {})
  /\ Cardinality(w.scene.sel) <= MaxSteps

TransactionBegins ==
  /\ Calls
  /\ Begin("transaction", "transaction", FALSE, MaxSteps, TRUE)

\* ed.undo, once, when a step raises or names no tool.
\* Fault: the exception is reported and nothing is undone.
RollBack_Never(v) == v
RollBack(v) == Undo(v)

Fails(v, pushed, plain) ==
  /\ w' = RollBack(v)
  /\ Answered("rollback", "transaction", FALSE, "raised", job.before, pushed, plain)
  /\ job' = NoJob

\* How often a step has pushed; a file it has opened starts at none.
Pushed(v, u) == IF v.pushes > u.pushes THEN v.pushes - u.pushes ELSE 0

\* One step.  A result that says ok: False is a success.
Step(op) ==
  /\ job.kind = "transaction" /\ job.left > 0
  /\ \E out \in Run(op, w, FALSE, saved) :
       LET pushed == job.pushed + Pushed(out.w, w)
           plain  == job.plain /\ op \notin ChangesUnpushed
       IN
       IF out.r = "raised"
       THEN Fails(out.w, pushed, plain)
       ELSE /\ w' = out.w
            /\ job' = [job EXCEPT !.done = @ + 1, !.left = @ - 1,
                                  !.pushed = pushed, !.plain = plain]
            /\ UNCHANGED last
  /\ UNCHANGED <<saved, calls, edits>>

NoSuchTool ==
  /\ job.kind = "transaction" /\ job.left > 0
  /\ Fails(w, job.pushed, job.plain)
  /\ UNCHANGED <<saved, calls, edits>>

TransactionEnds ==
  /\ job.kind = "transaction" /\ job.done > 0
  /\ Answered("transaction", "transaction", FALSE, "ok", job.before, job.pushed, job.plain)
  /\ job' = NoJob
  /\ UNCHANGED <<w, saved, calls, edits>>

-----------------------------------------------------------------------------
(* The user, in Blender.                                                    *)

UserActs(kind, v) ==
  /\ Idle /\ edits < MaxEdits
  /\ edits' = edits + 1
  /\ w' = v
  /\ last' = [last EXCEPT !.kind = kind, !.before = w]
  /\ UNCHANGED <<saved, job, calls>>

\* Blender pushes after an operator of the user's.
UserEdits ==
  \E o \in Objs(w) : UserActs("user", UndoPush(Mark(w, {o}, "user")))

UserUndoes == UserActs("undo", Undo(w))

Next ==
  \/ \E op \in Tools, dry \in BOOLEAN : Dispatch(op, dry)
  \/ \E op \in BatchTools, dry \in BOOLEAN, n \in 1 .. MaxSteps : BatchBegins(op, dry, n)
  \/ Item \/ ItemsEnd
  \/ \E op \in StepTools : ApplyToSelection(op) \/ Step(op)
  \/ TransactionBegins \/ NoSuchTool \/ TransactionEnds
  \/ UserEdits \/ UserUndoes

Spec == Init /\ [][Next]_vars

-----------------------------------------------------------------------------
\* A command has just ended.
Ended == Idle /\ last.kind \in {"call", "batch", "selection", "transaction", "rollback"}

\* "Every mutating capability call is wrapped" in an undo push: whatever a
\* call has done to the scene, whole, half way through a loop of names or
\* through a batch, the scene as it was before is on the undo stack, unless
\* an operation has run that changes things unpushed.
WorkIsUndoable ==
  Ended /\ w.scene # last.before.scene /\ last.plain
    => \E i \in DOMAIN w.steps : w.steps[i] = last.before.scene

\* A dry run, of one call or of a batch, leaves the scene alone and adds
\* nothing to the user's undo history.
DryRunIsPure ==
  Ended /\ last.dry => w = last.before

\* A command that the MCP server does not answer with an error has bumped
\* the epoch of the snapshot cache if it changed the scene: dry runs, reads
\* and the operations taken for reads change nothing a cached read shows.
\* bake_preview leaves its plane, light and camera behind.
NoSilentChange ==
  Ended /\ ~last.bumps /\ ~HasError(last.op, last.r)
    => w.scene = last.before.scene \/ last.op = "render.bake_preview"

\* A transaction that fails after one or two undo pushes of its steps is
\* rolled back exactly: the one ed.undo loads its own push or the first
\* step's, and both hold the scene it began with.  Not if a step has changed
\* the scene before it pushed.
RollbackIsExact ==
  Ended /\ last.kind = "rollback" /\ last.plain /\ last.pushed \in 1 .. 2
    => w.scene = last.before.scene

\* "Rolls back on failure": a transaction that fails leaves the scene it
\* began with.
TransactionIsAtomic ==
  Ended /\ last.kind = "rollback" => w.scene = last.before.scene

\* "One undo step": a user who undoes right after a batch has the scene from
\* before it.  Items that push, too, leave the last of them to be undone.
OneUndoPerBatch ==
  [][ last.kind = "batch" /\ last'.kind = "undo" => w'.scene = last.before.scene ]_vars
=============================================================================
