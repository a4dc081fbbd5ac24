--------------------------- MODULE SnapshotCache ---------------------------
(***************************************************************************)
(* The snapshot cache of the MCP server (mcp_server/blender_mcp/           *)
(* snapshot_cache.py) and its two callers in server.py: _call, which reads *)
(* through it and bumps its epoch after a mutation, and                    *)
(* _on_blender_notification, which bumps it when the add-on reports an     *)
(* edit made by somebody else.                                             *)
(*                                                                         *)
(* Everything in the MCP server runs on one event loop.  A coroutine that  *)
(* awaits its response is resumed in the order in which the reader of      *)
(* blender_client.py resolved the futures, but the reader may consume      *)
(* further frames, notifications among them, before that.                  *)
(*                                                                         *)
(* Abstractions.                                                           *)
(*  - What Blender holds is a version number; a read returns it.           *)
(*  - One cacheable op: keys of different (op, args) share only the epoch. *)
(*  - The add-on answers the commands of one connection in their order,    *)
(*    which is what CommandBridge does.                                    *)
(*  - A dry run changes nothing and bumps nothing: it is no step here.     *)
(*  - TTL 0, which bypasses the cache, is the module without its hits.     *)
(***************************************************************************)
EXTENDS Naturals, Sequences

CONSTANTS
  Reads,       \* tool calls whose op is in _CACHEABLE_OPS
  Writes,      \* tool calls whose op is mutating
  Changed,     \* what a scene.changed notification is a response to
  TTL,         \* ttl_ms
  MaxScene,    \* bound on how often the scene changes
  MaxClock     \* bound on time

Calls == Reads \union Writes

ASSUME CacheAssumption ==
  /\ Reads \intersect Writes = {}
  /\ Changed \notin Calls
  /\ TTL \in Nat \ {0}
  /\ MaxScene \in Nat
  /\ MaxClock \in Nat

VARIABLES
  scene,      \* the version of the scene in Blender
  edited,     \* is there a change that the add-on has not notified yet?
  queue,      \* calls sent and not executed yet
  wire,       \* frames on their way back: responses and notifications
  ready,      \* calls whose future is resolved and which have not resumed
  pc,         \* where each call stands
  sentAt,     \* `now` of get_or_call
  reply,      \* the response to each call: version, success, when it was executed
  epoch,      \* _epoch
  entry,      \* _entries[key]
  clock,      \* time.monotonic()
  \* history, for the properties only
  written,    \* newest version among this server's completed mutations
  told,       \* newest version of which a notification has been processed
  atStart     \* the values of the two when a call began

world   == <<scene, edited, queue, wire>>
cache   == <<epoch, entry>>
history == <<written, told, atStart>>
vars == <<scene, edited, queue, wire, ready, pc, sentAt, reply, epoch, entry,
          clock, written, told, atStart>>

Versions == 0 .. MaxScene
Times    == 0 .. MaxClock
Replies  == [version : Versions, ok : BOOLEAN, at : Times]
NoReply  == [version |-> 0, ok |-> FALSE, at |-> 0]
Frames   == [of : Calls \union {Changed}, version : Versions, ok : BOOLEAN, at : Times]
Entries  == [epoch : Nat, expires : Nat, version : Versions, at : Times]

\* No entry is an entry that has expired.
NoEntry  == [epoch |-> 0, expires |-> 0, version |-> 0, at |-> 0]

TypeOK ==
  /\ scene \in Versions
  /\ edited \in BOOLEAN
  /\ queue \in Seq(Calls)
  /\ wire \in Seq(Frames)
  /\ ready \in Seq(Calls)
  /\ pc \in [Calls -> {"idle", "sent", "hit", "done"}]
  /\ sentAt \in [Reads -> Times]
  /\ reply \in [Calls -> Replies]
  /\ epoch \in Nat
  /\ entry \in Entries
  /\ clock \in Times
  /\ written \in Versions /\ told \in Versions
  /\ atStart \in [Calls -> [written : Versions, told : Versions]]

Init ==
  /\ scene = 0
  /\ edited = FALSE
  /\ queue = <<>> /\ wire = <<>> /\ ready = <<>>
  /\ pc = [k \in Calls |-> "idle"]
  /\ sentAt = [k \in Reads |-> 0]
  /\ reply = [k \in Calls |-> NoReply]
  /\ epoch = 0
  /\ entry = NoEntry
  /\ clock = 0
  /\ written = 0 /\ told = 0
  /\ atStart = [k \in Calls |-> [written |-> 0, told |-> 0]]

Newer(a, b) == IF a > b THEN a ELSE b

-----------------------------------------------------------------------------
(* The tool call, on the event loop of the MCP server.                      *)

Begins(k) ==
  /\ pc[k] = "idle"
  /\ atStart' = [atStart EXCEPT ![k] = [written |-> written, told |-> told]]
  /\ UNCHANGED <<scene, edited, wire, ready, clock, written, told>>

Fresh == entry.epoch = epoch /\ entry.expires > clock

\* get_or_call finds a fresh entry and returns it without an await.
Hit(k) ==
  /\ k \in Reads
  /\ Begins(k)
  /\ Fresh
  /\ pc' = [pc EXCEPT ![k] = "hit"]
  /\ sentAt' = [sentAt EXCEPT ![k] = clock]
  /\ reply' = [reply EXCEPT ![k] = [version |-> entry.version, ok |-> TRUE, at |-> entry.at]]
  /\ UNCHANGED <<queue, cache>>

\* A miss, or a mutating op: the command goes to Blender.
Send(k) ==
  /\ Begins(k)
  /\ k \in Reads => ~Fresh
  /\ queue' = Append(queue, k)
  /\ pc' = [pc EXCEPT ![k] = "sent"]
  /\ sentAt' = IF k \in Reads THEN [sentAt EXCEPT ![k] = clock] ELSE sentAt
  /\ UNCHANGED <<reply, cache>>

\* What get_or_call stores once fetcher() has returned.
\* Fault: the time to live starts when the response is there.
Stored_Late(k) ==
  [epoch |-> epoch, expires |-> clock + TTL, version |-> reply[k].version, at |-> reply[k].at]
Stored(k) ==
  [epoch |-> epoch, expires |-> sentAt[k] + TTL, version |-> reply[k].version, at |-> reply[k].at]

\* What _call does to the cache after a mutation: only a success bumps.
\* Fault: it forgets to.
Bump_Never(k) == UNCHANGED epoch
Bump(k) == epoch' = IF reply[k].ok THEN epoch + 1 ELSE epoch

\* The call resumes with its response.
Resume ==
  /\ ready # <<>>
  /\ LET k == Head(ready) IN
       /\ pc' = [pc EXCEPT ![k] = "done"]
       /\ IF k \in Reads
          THEN /\ entry' = IF reply[k].ok THEN Stored(k) ELSE entry
               /\ UNCHANGED <<epoch, written>>
          ELSE /\ Bump(k)
               /\ written' = IF reply[k].ok THEN Newer(written, reply[k].version) ELSE written
               /\ UNCHANGED entry
  /\ ready' = Tail(ready)
  /\ UNCHANGED <<world, sentAt, reply, clock, told, atStart>>

\* wait_for gives up: TIMEOUT.  The command may run all the same.
GiveUp(k) ==
  /\ pc[k] = "sent"
  /\ \A i \in DOMAIN ready : ready[i] # k
  /\ pc' = [pc EXCEPT ![k] = "done"]
  /\ UNCHANGED <<world, ready, sentAt, reply, cache, clock, history>>

\* Whose future a response resolves.
\* Fault: the frame is handed on instead of the call it is for.
Woken_Frame(f) == f
Woken(f) == f.of

\* The reader takes a frame: a response resolves its future, unless the call
\* has given up; a notification bumps the epoch then and there.
Receive ==
  /\ wire # <<>>
  /\ wire' = Tail(wire)
  /\ LET f == Head(wire) IN
       IF f.of = Changed
       THEN /\ epoch' = epoch + 1
            /\ told' = f.version
            /\ UNCHANGED <<ready, reply>>
       ELSE /\ IF pc[f.of] = "sent"
               THEN /\ ready' = Append(ready, Woken(f))
                    /\ reply' = [reply EXCEPT ![f.of] =
                                   [version |-> f.version, ok |-> f.ok, at |-> f.at]]
               ELSE UNCHANGED <<ready, reply>>
            /\ UNCHANGED <<epoch, told>>
  /\ UNCHANGED <<scene, edited, queue, pc, sentAt, entry, clock, written, atStart>>

-----------------------------------------------------------------------------
(* Blender and the add-on, as far as the cache can tell.                    *)

\* A capability runs: a read returns the scene, a mutation changes it.  One
\* that fails may have changed it before it failed.
Execute ==
  /\ queue # <<>>
  /\ \E ok \in BOOLEAN, changes \in {0, 1} :
       LET k == Head(queue) IN
       /\ k \in Reads => changes = 0
       /\ k \in Writes /\ ok => changes = 1
       /\ scene + changes <= MaxScene
       /\ scene' = scene + changes
       /\ edited' = (edited \/ changes = 1)
       /\ wire' = Append(wire, [of |-> k, version |-> scene + changes, ok |-> ok, at |-> clock])
  /\ queue' = Tail(queue)
  /\ UNCHANGED <<ready, pc, sentAt, reply, cache, clock, history>>

\* The user, or another client, changes the scene.
Edit ==
  /\ scene < MaxScene
  /\ scene' = scene + 1
  /\ edited' = TRUE
  /\ UNCHANGED <<queue, wire, ready, pc, sentAt, reply, cache, clock, history>>

\* notify._flush broadcasts scene.changed.
Notify ==
  /\ edited
  /\ edited' = FALSE
  /\ wire' = Append(wire, [of |-> Changed, version |-> scene, ok |-> TRUE, at |-> clock])
  /\ UNCHANGED <<scene, queue, ready, pc, sentAt, reply, cache, clock, history>>

Tick ==
  /\ clock < MaxClock
  /\ clock' = clock + 1
  /\ UNCHANGED <<world, ready, pc, sentAt, reply, cache, history>>

Next ==
  \/ \E k \in Calls : Hit(k) \/ Send(k) \/ GiveUp(k)
  \/ Resume \/ Receive
  \/ Execute \/ Edit \/ Notify \/ Tick

Spec == Init /\ [][Next]_vars

-----------------------------------------------------------------------------
Answered(k) == pc[k] \in {"hit", "done"} /\ reply[k].ok

\* Read your writes (the `ping`, `set_transform`, `ping` of snapshot_cache's
\* header): a read that starts after a mutation of this server has succeeded
\* sees it, whatever reads were in flight around the mutation.  Nothing but
\* the order of responses keeps an older answer from being stored under the
\* new epoch.
ReadsOwnWrites ==
  \A k \in Reads : Answered(k) => reply[k].version >= atStart[k].written

\* Whatever the epoch misses, an answer from the cache is younger than the
\* TTL ("TTL safety net"): it counts from before the fetch, not from after.
HitsAreRecent ==
  \A k \in Reads : pc[k] = "hit" => sentAt[k] < reply[k].at + TTL

\* "External user moves a cube: epoch bumps, next ping re-fetches": a read
\* that starts after the notification was processed sees what it was about.
\* get_or_call reads _epoch after the await, so it does not.
NextPingSeesEdit ==
  \A k \in Reads : Answered(k) => reply[k].version >= atStart[k].told
=============================================================================
