--------------------------- MODULE SceneNotifier ---------------------------
(***************************************************************************)
(* The scene-change notifier of the add-on (server/notify.py): a depsgraph *)
(* handler that debounces with a Blender timer, hashes the scene in        *)
(* `summary` mode (capabilities/snapshot.py) and broadcasts scene.changed  *)
(* when the hash is new.                                                   *)
(*                                                                         *)
(* Everything here runs on Blender's main thread, one callback per step.   *)
(* What is hard is what happens between two callbacks: a file is opened,   *)
(* the add-on is disabled and enabled again, or the timer is late.         *)
(*                                                                         *)
(* Abstractions.                                                           *)
(*  - The scene is its digest, which is what summary mode hashes (counts,  *)
(*    selection, active object, frame, render settings), and its detail,   *)
(*    which it does not (transforms, meshes, materials).                   *)
(*  - The hash of a digest is the digest; computing it succeeds.           *)
(*  - A broadcast reaches the clients that are connected (SendPath).       *)
(*                                                                         *)
(* The names of Init, Next and the like say whose they are: the proofs     *)
(* extend this module together with SnapshotCache.                         *)
(***************************************************************************)
EXTENDS Naturals, Sequences

CONSTANTS
  Digests,     \* what the summary can be
  NoHash,      \* None
  Debounce,    \* DEBOUNCE_S, in ticks
  MaxLoads,    \* bound on File > Open
  MaxCycles    \* bound on disabling and enabling the add-on

ASSUME NotifierAssumption ==
  /\ NoHash \notin Digests
  /\ Debounce \in Nat \ {0}
  /\ MaxLoads \in Nat
  /\ MaxCycles \in Nat

VARIABLES
  digest,      \* the summary of the scene
  lastHash,    \* _last_hash
  pending,     \* _pending
  installed,   \* _handler_installed, and the handler is in depsgraph_update_post
  timers,      \* registered _flush_timer callbacks: ticks until each is due
  loads, cycles,
  \* history, for the properties only
  moved,       \* has the detail changed since the last broadcast?
  gap          \* ticks since the last broadcast, Debounce at most

bounds == <<loads, cycles>>
notifierVars == <<digest, lastHash, pending, installed, timers, loads, cycles, moved, gap>>

NotifierTypeOK ==
  /\ digest \in Digests
  /\ lastHash \in Digests \union {NoHash}
  /\ pending \in BOOLEAN
  /\ installed \in BOOLEAN
  /\ timers \in Seq(0 .. Debounce)
  /\ loads \in 0 .. MaxLoads
  /\ cycles \in 0 .. MaxCycles
  /\ moved \in BOOLEAN
  /\ gap \in 0 .. Debounce

NotifierInit ==
  /\ digest \in Digests
  /\ lastHash = NoHash
  /\ pending = FALSE
  /\ installed = TRUE
  /\ timers = <<>>
  /\ loads = 0 /\ cycles = 0
  /\ moved = FALSE
  /\ gap = Debounce

-----------------------------------------------------------------------------
\* Is a new timer wanted?  Fault: one per depsgraph event.
Debounces_Never == installed
Debounces == installed /\ ~pending

\* The timer's first_interval.  Fault: in milliseconds.
Interval_Millis == 1000 * Debounce
Interval == Debounce

\* _on_depsgraph_update, called right after a change.
OnDepsgraphUpdate(running) ==
  IF Debounces
  THEN pending' = TRUE /\ timers' = Append(running, Interval)
  ELSE timers' = running /\ UNCHANGED pending

\* The user, or a capability, changes what the summary shows.
EditScene ==
  /\ \E d \in Digests \ {digest} : digest' = d
  /\ OnDepsgraphUpdate(timers)
  /\ UNCHANGED <<lastHash, installed, bounds, moved, gap>>

\* The user moves an object, or paints, or edits a mesh or a material.
Move ==
  /\ moved' = TRUE
  /\ OnDepsgraphUpdate(timers)
  /\ UNCHANGED <<digest, lastHash, installed, bounds, gap>>

\* File > Open: Blender drops the timer, which is not persistent, and keeps
\* the handler, which is; the new scene is evaluated.
OpenFile ==
  /\ loads < MaxLoads
  /\ loads' = loads + 1
  /\ digest' \in Digests
  /\ moved' = TRUE
  /\ OnDepsgraphUpdate(<<>>)
  /\ UNCHANGED <<lastHash, installed, cycles, gap>>

\* Does a flush broadcast?
News == digest # lastHash

\* Fault: _flush returns early, before it clears _pending.
Clears_OnNews == pending' = (pending /\ ~News)
Clears == pending' = FALSE

\* _flush_timer: the oldest timer is due.
Flush ==
  /\ timers # <<>>
  /\ Head(timers) = 0
  /\ timers' = Tail(timers)
  /\ Clears
  /\ IF News
     THEN lastHash' = digest /\ moved' = FALSE /\ gap' = 0
     ELSE UNCHANGED <<lastHash, moved, gap>>
  /\ UNCHANGED <<digest, installed, bounds>>

\* The add-on is disabled: the handler goes, a registered timer stays.
Unregister ==
  /\ installed
  /\ cycles < MaxCycles
  /\ cycles' = cycles + 1
  /\ installed' = FALSE
  /\ lastHash' = NoHash
  /\ pending' = FALSE
  /\ UNCHANGED <<digest, timers, loads, moved, gap>>

Register ==
  /\ ~installed
  /\ installed' = TRUE
  /\ UNCHANGED <<digest, lastHash, pending, timers, bounds, moved, gap>>

\* Time passes.  A timer fires late rather than early.
TimePasses ==
  /\ timers' = [i \in DOMAIN timers |-> IF timers[i] > 0 THEN timers[i] - 1 ELSE 0]
  /\ gap' = IF gap < Debounce THEN gap + 1 ELSE gap
  /\ UNCHANGED <<digest, lastHash, pending, installed, bounds, moved>>

NotifierNext == EditScene \/ Move \/ OpenFile \/ Flush \/ Unregister \/ Register \/ TimePasses

NotifierSpec == NotifierInit /\ [][NotifierNext]_notifierVars

\* Time passes, and Blender fires its timers.
NotifierFairSpec == NotifierSpec /\ WF_notifierVars(TimePasses) /\ WF_notifierVars(Flush)

-----------------------------------------------------------------------------
\* A pending flush has its timer: _pending, which silences the handler, is
\* never left behind without the callback that clears it, until a file is
\* opened, which drops the callback alone.
PendingHasTimer == pending /\ loads = 0 => timers # <<>>

\* "At most one broadcast per DEBOUNCE_S seconds" (header of notify.py), until
\* the add-on is disabled: a timer left over from before is then a second one.
BroadcastsAreSpaced ==
  [][Flush /\ News => gap = Debounce \/ cycles > 0]_notifierVars

\* Once the handler has seen a scene whose summary differs from the last
\* broadcast, it is broadcast, or becomes again what was broadcast, unless the
\* add-on is disabled or a file is opened.
DigestsReachClients ==
  (pending /\ News) ~> (~News \/ ~installed \/ loads > 0)

\* The handler "survives File > Open / Revert" (notify.py, register): opening a
\* file does not end the notifications either.  It does: the timer is gone.
NotificationsSurviveOpenFile ==
  (pending /\ News) ~> (~News \/ ~installed)

\* "External user moves a cube: add-on broadcasts scene.changed" (header of
\* mcp_server's snapshot_cache.py).  The summary does not show a move.
MovesReachClients ==
  (installed /\ moved) ~> (~moved \/ ~installed)
=============================================================================
