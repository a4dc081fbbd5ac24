----------------------------- MODULE Checkpoints -----------------------------
(***************************************************************************)
(* The checkpoints of the add-on (safety/checkpoints.py): copies of the    *)
(* .blend file with a metadata file beside each, in one directory per      *)
(* source file, pruned to the newest few after every save.                 *)
(*                                                                         *)
(*  - Several Blender processes have the same project open and share its   *)
(*    directory.  A command runs to its end on the main thread of its      *)
(*    process; the steps it takes on the disk interleave with the others', *)
(*    and a process may crash between any two of them.                     *)
(*  - A checkpoint is named by its time stamp.  Stamps are numbers of one  *)
(*    clock, read once each; the clock may be set back once.               *)
(*  - A scene is a number.  The user edits it and saves the open file.     *)
(***************************************************************************)
EXTENDS Integers, FiniteSets, FiniteSetsExt, SequencesExt

CONSTANTS
  Blenders,   \* processes
  Keep,       \* DEFAULT_KEEP
  MaxSaves,   \* bound on the checkpoints that are begun
  Scenes,     \* states of a scene
  Project     \* the file that is open at first

ASSUME CheckpointsAssumption ==
  /\ Keep \in Nat \ {0} /\ MaxSaves \in Nat \ {0}
  /\ Scenes # {}

VARIABLES
  clock,   \* the time, and whether it was set back
  ck,      \* checkpoints by stamp: their two files
  order,   \* the stamps in the order the saves began
  proc     \* the processes: where they are in save_checkpoint

vars == <<clock, ck, order, proc>>

Stamps == 1 .. 2 * MaxSaves

TypeOK ==
  /\ clock.now \in Stamps \union {2 * MaxSaves + 1} /\ clock.back \in BOOLEAN
  /\ \A x \in Stamps :
       /\ ck[x].dir \in Stamps \union {Project} /\ ck[x].blend \in BOOLEAN
       /\ ck[x].meta \in {"none", "part", "full"}
       /\ {ck[x].scene, ck[x].saved} \subseteq Scenes
       /\ ck[x].done => x \in ToSet(order)
  /\ IsInjective(order) /\ Len(order) <= MaxSaves
  /\ \A p \in Blenders :
       /\ proc[p].open \in Stamps \union {Project} /\ proc[p].scene \in Scenes
       /\ proc[p].pc \in {"idle", "blend", "meta", "writing", "prune", "unlink"}
       /\ \A q \in Blenders \ {p} : proc[p].x # 0 => proc[q].x # proc[p].x
       /\ proc[p].victims \subseteq {x \in Stamps : ck[x].done}

Opened(f, s) == [pc |-> "idle", open |-> f, scene |-> s, x |-> 0, victims |-> {}, half |-> FALSE]

Init ==
  \E s \in Scenes :
    /\ clock = [now |-> MaxSaves + 1, back |-> FALSE]
    /\ ck = [x \in Stamps |-> [dir |-> Project, blend |-> FALSE, meta |-> "none", scene |-> s,
                               saved |-> s, done |-> FALSE, opened |-> FALSE]]
    /\ order = <<>>
    /\ proc = [p \in Blenders |-> Opened(Project, s)]

Goes(p, pc) == proc' = [proc EXCEPT ![p].pc = pc]

\* save_checkpoint is over, with an answer or an error.
Ends(p) == [proc[p] EXCEPT !.pc = "idle", !.x = 0, !.victims = {}, !.half = FALSE]

-----------------------------------------------------------------------------
(* The user, the clock and the processes.                                   *)

Edit(p, s) ==
  /\ proc[p].pc = "idle"
  /\ proc' = [proc EXCEPT ![p].scene = s]
  /\ UNCHANGED <<clock, ck, order>>

\* Ctrl-S, to the file that is open; that it goes to a checkpoint after a
\* restore is what matters here.
SaveFile(p) ==
  /\ proc[p].pc = "idle"
  /\ proc[p].open # Project
  /\ ck' = [ck EXCEPT ![proc[p].open].blend = TRUE, ![proc[p].open].scene = proc[p].scene]
  /\ UNCHANGED <<clock, order, proc>>

\* A process dies where it is; the user starts it again on the project, as
\* it was last saved by somebody.
Crash(p, s) ==
  /\ proc' = [proc EXCEPT ![p] = Opened(Project, s)]
  /\ UNCHANGED <<clock, ck, order>>

ClockBack ==
  /\ ~clock.back /\ order # <<>>
  /\ clock' = [now |-> 1, back |-> TRUE]
  /\ UNCHANGED <<ck, order, proc>>

-----------------------------------------------------------------------------
(* save_checkpoint.                                                         *)

\* build_paths: microseconds, and a name nobody has.
\* Fault: seconds, and no look at what is there.
Later_Seconds == [clock EXCEPT !.now = @]
Later == [clock EXCEPT !.now = @ + 1]

SaveStarts(p) ==
  LET x == clock.now
  IN
  /\ proc[p].pc = "idle" /\ Len(order) < MaxSaves
  /\ order' = Append(order, x)
  /\ clock' = Later
  /\ ck' = [ck EXCEPT ![x].dir = proc[p].open]
  /\ proc' = [proc EXCEPT ![p].pc = "blend", ![p].x = x]

\* save_as_mainfile(copy=True): the file, or nothing, and the same file open.
\* Fault: without copy, the checkpoint is the open file from now on.
OpenAfter_Checkpoint(p) == proc[p].x
OpenAfter(p) == proc[p].open

SaveBlend(p) ==
  /\ proc[p].pc = "blend"
  /\ \/ /\ ck' = [ck EXCEPT ![proc[p].x].blend = TRUE, ![proc[p].x].scene = proc[p].scene,
                            ![proc[p].x].saved = proc[p].scene]
        /\ proc' = [proc EXCEPT ![p].pc = "meta", ![p].open = OpenAfter(p)]
     \/ proc' = [proc EXCEPT ![p] = Ends(p)] /\ UNCHANGED ck
  /\ UNCHANGED <<clock, order>>

\* write_metadata creates the file and then fills it; either may fail.
WriteMeta(p) ==
  /\ \/ /\ proc[p].pc = "meta"
        /\ ck' = [ck EXCEPT ![proc[p].x].meta = "part"]
        /\ Goes(p, "writing")
     \/ /\ proc[p].pc = "writing"
        /\ ck' = [ck EXCEPT ![proc[p].x].meta = "full", ![proc[p].x].done = TRUE]
        /\ Goes(p, "prune")
     \/ /\ proc[p].pc \in {"meta", "writing"}
        /\ proc' = [proc EXCEPT ![p] = Ends(p)] /\ UNCHANGED ck
  /\ UNCHANGED <<clock, order>>

\* list_checkpoints: readable metadata whose .blend file is there.  Its order
\* is that of the stamps.
Listed(f) == {x \in Stamps : ck[x].dir = f /\ ck[x].meta = "full" /\ ck[x].blend}

\* What prune is about to remove: all but the Keep newest of the list.
\* Fault: the wrong end of the list.
Victims_Newest(s) == {x \in s : Cardinality({y \in s : y < x}) >= Keep}
Victims(s) == {x \in s : Cardinality({y \in s : y > x}) >= Keep}

Prune(p) ==
  /\ proc[p].pc = "prune"
  /\ LET v == Victims(Listed(ck[proc[p].x].dir))
     IN  proc' = [proc EXCEPT ![p] = IF v = {} THEN Ends(p)
                                     ELSE [@ EXCEPT !.pc = "unlink", !.victims = v]]
  /\ UNCHANGED <<clock, ck, order>>

\* The newest victim first: its .blend file, then its metadata; a failure is
\* logged.  After the last one, save_checkpoint answers.
Unlink(p) ==
  /\ proc[p].pc = "unlink"
  /\ \E x \in proc[p].victims :
       /\ \A y \in proc[p].victims : y <= x
       /\ \/ UNCHANGED ck
          \/ ck' = IF proc[p].half THEN [ck EXCEPT ![x].meta = "none"] ELSE [ck EXCEPT ![x].blend = FALSE]
       /\ proc' = [proc EXCEPT ![p] =
            IF ~@.half THEN [@ EXCEPT !.half = TRUE]
            ELSE IF @.victims = {x} THEN Ends(p)
            ELSE [@ EXCEPT !.half = FALSE, !.victims = proc[p].victims \ {x}]]
  /\ UNCHANGED <<clock, order>>

-----------------------------------------------------------------------------
\* restore_checkpoint: open_mainfile, which makes it the open file.  Its path
\* comes from a list, which may be an old one.
Restore(p, x) ==
  /\ proc[p].pc = "idle" /\ ck[x].done /\ ck[x].blend
  /\ proc' = [proc EXCEPT ![p] = Opened(x, ck[x].scene)]
  /\ ck' = [ck EXCEPT ![x].opened = TRUE]
  /\ UNCHANGED <<clock, order>>

Next ==
  \/ ClockBack
  \/ \E p \in Blenders :
       \/ SaveFile(p)
       \/ SaveStarts(p) \/ SaveBlend(p) \/ WriteMeta(p) \/ Prune(p) \/ Unlink(p)
       \/ \E s \in Scenes : Edit(p, s) \/ Crash(p, s)
       \/ \E x \in Stamps : Restore(p, x)

Spec == Init /\ [][Next]_vars

-----------------------------------------------------------------------------
\* Where x is in the order of the saves.
Age(x) == CHOOSE i \in DOMAIN order : order[i] = x

\* The last Keep checkpoints of a file that were completed are there to be
\* restored, whatever other processes save and prune at the same time, and
\* wherever any of them crashes or fails; only a clock that is set back
\* makes prune take the newest for the oldest.
NewestAreListed ==
  ~clock.back =>
    \A x \in Stamps :
      /\ ck[x].done
      /\ Cardinality({y \in Stamps : /\ ck[y].dir = ck[x].dir /\ ck[y].done
                                     /\ Age(y) > Age(x)}) < Keep
      => ck[x].blend /\ ck[x].meta = "full"

\* A checkpoint holds the scene it was made of.  Nothing but a restore opens
\* it: after one, a Ctrl-S of the user goes to the checkpoint.
CheckpointsAreCopies ==
  \A x \in Stamps : ck[x].blend /\ ~ck[x].opened => ck[x].scene = ck[x].saved
=============================================================================
