-------------------------- MODULE CheckpointsProofs --------------------------
(***************************************************************************)
(* Theorems about Checkpoints, for any number of processes, saves, scenes  *)
(* and checkpoints that are kept.                                          *)
(*                                                                         *)
(*  - IInv: what is saved is not changed afterwards, unless it has been    *)
(*    restored; only what was restored is open.                            *)
(*  - KeepInv: what prune removes, and when it may.                        *)
(***************************************************************************)
EXTENDS Checkpoints, FiniteSetTheorems, SequenceTheorems, TLAPS

Files == Stamps \union {Project}

CheckpointRecords ==
  [dir : Files, blend : BOOLEAN, meta : {"none", "part", "full"}, scene : Scenes,
   saved : Scenes, done : BOOLEAN, opened : BOOLEAN]

\* A process, whatever prune has given it to remove.
ProcessRecord(r) ==
  r = [pc |-> r.pc, open |-> r.open, scene |-> r.scene, x |-> r.x,
       victims |-> r.victims, half |-> r.half]

Shape ==
  /\ ck \in [Stamps -> CheckpointRecords]
  /\ proc = [p \in Blenders |-> proc[p]]
  /\ \A p \in Blenders :
       /\ ProcessRecord(proc[p])
       /\ proc[p].scene \in Scenes
       /\ proc[p].open \in Files

\* A process has a checkpoint open only after a restore of it; so a Ctrl-S
\* goes to no other.
OnlyRestoredAreOpen ==
  \A p \in Blenders : proc[p].open # Project => ck[proc[p].open].opened

IInv == Shape /\ OnlyRestoredAreOpen /\ CheckpointsAreCopies

-----------------------------------------------------------------------------
\* A step of process p, which becomes r and may open a checkpoint that has
\* been restored; nothing else is written over.
LEMMA ProcessMoves ==
  ASSUME IInv, NEW p \in Blenders, NEW r, proc' = [proc EXCEPT ![p] = r],
         ProcessRecord(r), r.scene \in Scenes, r.open \in Files,
         ck' \in [Stamps -> CheckpointRecords],
         \A x \in Stamps : ck[x].opened => ck'[x].opened,
         r.open # Project => ck'[r.open].opened,
         CheckpointsAreCopies'
  PROVE  IInv'
<1>1. proc'[p] = r /\ \A q \in Blenders \ {p} : proc'[q] = proc[q]
  BY DEF IInv, Shape
<1>2. proc' = [q \in Blenders |-> proc'[q]]
  BY DEF IInv, Shape
<1>3. Shape'
  BY <1>1, <1>2 DEF IInv, Shape
<1>4. OnlyRestoredAreOpen'
  <2> SUFFICES ASSUME NEW q \in Blenders, proc'[q].open # Project
               PROVE  ck'[proc'[q].open].opened
    BY DEF OnlyRestoredAreOpen
  <2>1. CASE q = p
    BY <1>1, <2>1
  <2>2. CASE q # p
    <3>1. proc'[q] = proc[q] /\ proc[q].open \in Stamps
      BY <1>1, <2>2 DEF IInv, Shape, Files
    <3>2. ck[proc[q].open].opened
      BY <3>1 DEF IInv, OnlyRestoredAreOpen
    <3> QED BY <3>1, <3>2
  <2> QED BY <2>1, <2>2
<1> QED BY <1>3, <1>4 DEF IInv

\* A checkpoint that is given new contents, all of them or none.
LEMMA CheckpointChanges ==
  ASSUME IInv, NEW x, NEW c, ck' = [ck EXCEPT ![x] = c],
         x \in Stamps => /\ c \in CheckpointRecords
                         /\ ck[x].opened => c.opened
                         /\ c.blend /\ ~c.opened => c.scene = c.saved
  PROVE  /\ ck' \in [Stamps -> CheckpointRecords]
         /\ \A y \in Stamps : ck[y].opened => ck'[y].opened
         /\ CheckpointsAreCopies'
<1>1. ck \in [Stamps -> CheckpointRecords]
  BY DEF IInv, Shape
<1>2. \A y \in Stamps : ck'[y] = IF y = x THEN c ELSE ck[y]
  BY <1>1
<1>3. ck' \in [Stamps -> CheckpointRecords]
  BY <1>1, <1>2
<1>4. \A y \in Stamps : ck[y].opened => ck'[y].opened
  BY <1>2
<1>5. CheckpointsAreCopies'
  BY <1>2 DEF IInv, CheckpointsAreCopies
<1> QED BY <1>3, <1>4, <1>5

\* Nothing is written: what processes do in memory.
LEMMA NothingWritten ==
  ASSUME IInv, UNCHANGED ck
  PROVE  /\ ck' \in [Stamps -> CheckpointRecords]
         /\ \A y \in Stamps : ck[y].opened => ck'[y].opened
         /\ CheckpointsAreCopies'
  BY DEF IInv, Shape, CheckpointsAreCopies
-----------------------------------------------------------------------------
LEMMA InitIInv == Init => IInv
<1> SUFFICES ASSUME Init PROVE IInv
  OBVIOUS
<1>1. PICK s \in Scenes :
        /\ ck = [x \in Stamps |-> [dir |-> Project, blend |-> FALSE, meta |-> "none", scene |-> s,
                                   saved |-> s, done |-> FALSE, opened |-> FALSE]]
        /\ proc = [p \in Blenders |-> Opened(Project, s)]
  BY DEF Init
<1>2. ck \in [Stamps -> CheckpointRecords]
  BY <1>1 DEF CheckpointRecords, Files
<1>3. ASSUME NEW p \in Blenders
      PROVE  ProcessRecord(proc[p]) /\ proc[p].scene \in Scenes /\ proc[p].open = Project
  BY <1>1 DEF Opened, ProcessRecord
<1>4. proc = [p \in Blenders |-> proc[p]]
  BY <1>1
<1>5. Shape
  BY <1>2, <1>3, <1>4 DEF Shape, Files
<1> QED BY <1>1, <1>3, <1>5 DEF IInv, OnlyRestoredAreOpen, CheckpointsAreCopies

\* What each process is.
LEMMA ProcessFacts ==
  ASSUME IInv, NEW p \in Blenders
  PROVE  /\ ProcessRecord(proc[p]) /\ proc[p].scene \in Scenes /\ proc[p].open \in Files
         /\ \A r : ProcessRecord(r) /\ r.open = proc[p].open =>
              (r.open # Project => ck[r.open].opened)
  BY DEF IInv, Shape, OnlyRestoredAreOpen

\* q is what r becomes when its file and its scene stay.
Keeps(r, q) == ProcessRecord(q) /\ q.open = r.open /\ q.scene = r.scene

LEMMA FieldLemma ==
  ASSUME NEW r, ProcessRecord(r), NEW v
  PROVE  /\ Keeps(r, [r EXCEPT !.pc = v]) /\ Keeps(r, [r EXCEPT !.x = v])
         /\ Keeps(r, [r EXCEPT !.victims = v]) /\ Keeps(r, [r EXCEPT !.half = v])
         /\ r.open = v => Keeps(r, [r EXCEPT !.open = v])
<1>1. PICK a, b, c, d, e, g :
        r = [pc |-> a, open |-> b, scene |-> c, x |-> d, victims |-> e, half |-> g]
  BY DEF ProcessRecord
<1>2. Keeps(r, [r EXCEPT !.pc = v])
  <2>1. [r EXCEPT !.pc = v] = [pc |-> v, open |-> b, scene |-> c, x |-> d, victims |-> e, half |-> g]
    BY <1>1
  <2> QED BY <1>1, <2>1 DEF Keeps, ProcessRecord
<1>3. Keeps(r, [r EXCEPT !.x = v])
  <2>1. [r EXCEPT !.x = v] = [pc |-> a, open |-> b, scene |-> c, x |-> v, victims |-> e, half |-> g]
    BY <1>1
  <2> QED BY <1>1, <2>1 DEF Keeps, ProcessRecord
<1>4. Keeps(r, [r EXCEPT !.victims = v])
  <2>1. [r EXCEPT !.victims = v] = [pc |-> a, open |-> b, scene |-> c, x |-> d, victims |-> v, half |-> g]
    BY <1>1
  <2> QED BY <1>1, <2>1 DEF Keeps, ProcessRecord
<1>5. Keeps(r, [r EXCEPT !.half = v])
  <2>1. [r EXCEPT !.half = v] = [pc |-> a, open |-> b, scene |-> c, x |-> d, victims |-> e, half |-> v]
    BY <1>1
  <2> QED BY <1>1, <2>1 DEF Keeps, ProcessRecord
<1>6. r.open = v => Keeps(r, [r EXCEPT !.open = v])
  <2>1. [r EXCEPT !.open = v] = [pc |-> a, open |-> v, scene |-> c, x |-> d, victims |-> e, half |-> g]
    BY <1>1
  <2> QED BY <1>1, <2>1 DEF Keeps, ProcessRecord
<1> QED BY <1>2, <1>3, <1>4, <1>5, <1>6

LEMMA KeepsTwice ==
  ASSUME NEW r, NEW q, NEW s, Keeps(r, q), Keeps(q, s)
  PROVE  Keeps(r, s)
  BY DEF Keeps

LEMMA EndsLemma ==
  ASSUME NEW p, ProcessRecord(proc[p])
  PROVE  Keeps(proc[p], Ends(p))
<1> DEFINE q == [proc[p] EXCEPT !.pc = "idle"]
           r == [q EXCEPT !.x = 0]
           s == [r EXCEPT !.victims = {}]
           t == [s EXCEPT !.half = FALSE]
<1>1. Ends(p) = t
  BY DEF Ends
<1>2. Keeps(proc[p], q)
  BY FieldLemma
<1>3. Keeps(q, r)
  <2> HIDE DEF q
  <2> QED BY <1>2, FieldLemma DEF Keeps
<1>4. Keeps(r, s)
  <2> HIDE DEF r
  <2> QED BY <1>3, FieldLemma DEF Keeps
<1>5. Keeps(s, t)
  <2> HIDE DEF s
  <2> QED BY <1>4, FieldLemma DEF Keeps
<1> HIDE DEF q, r, s, t
<1> QED BY <1>1, <1>2, <1>3, <1>4, <1>5, KeepsTwice

\* A step of a process that keeps its file and its scene.
LEMMA KeepingStep ==
  ASSUME IInv, NEW p \in Blenders, NEW r, proc' = [proc EXCEPT ![p] = r], Keeps(proc[p], r),
         ck' \in [Stamps -> CheckpointRecords],
         \A x \in Stamps : ck[x].opened => ck'[x].opened,
         CheckpointsAreCopies'
  PROVE  IInv'
<1>1. ProcessRecord(r) /\ r.scene \in Scenes /\ r.open \in Files
  BY ProcessFacts DEF Keeps
<1>2. r.open # Project => ck'[r.open].opened
  BY ProcessFacts DEF Keeps, Files
<1> QED BY <1>1, <1>2, ProcessMoves

LEMMA SaveFileStep ==
  ASSUME IInv, NEW p \in Blenders, SaveFile(p)
  PROVE  IInv'
<1> DEFINE o == proc[p].open
           c == [ck[o] EXCEPT !.blend = TRUE, !.scene = proc[p].scene]
<1>1. o \in Stamps /\ ck[o] \in CheckpointRecords /\ ck[o].opened /\ proc[p].scene \in Scenes
  BY ProcessFacts DEF SaveFile, Files, IInv, Shape, OnlyRestoredAreOpen
<1>2. c \in CheckpointRecords /\ c.opened
  BY <1>1 DEF CheckpointRecords
<1>3. ck' = [ck EXCEPT ![o] = c]
  BY <1>1 DEF SaveFile, IInv, Shape
<1> HIDE DEF c
<1>4. /\ ck' \in [Stamps -> CheckpointRecords]
      /\ \A y \in Stamps : ck[y].opened => ck'[y].opened
      /\ CheckpointsAreCopies'
  BY <1>1, <1>2, <1>3, CheckpointChanges
<1>5. proc' = proc
  BY DEF SaveFile
<1>6. Shape'
  BY <1>4, <1>5 DEF IInv, Shape
<1>7. OnlyRestoredAreOpen'
  BY <1>4, <1>5 DEF IInv, Shape, Files, OnlyRestoredAreOpen
<1> QED BY <1>4, <1>6, <1>7 DEF IInv

\* build_paths gives the checkpoint its directory, and nothing else.
LEMMA SaveStartsStep ==
  ASSUME IInv, NEW p \in Blenders, SaveStarts(p)
  PROVE  IInv'
<1> DEFINE x == clock.now
           c == [ck[x] EXCEPT !.dir = proc[p].open]
           r == [proc[p] EXCEPT !.pc = "blend", !.x = x]
<1>1. ProcessRecord(proc[p]) /\ proc[p].scene \in Scenes /\ proc[p].open \in Files
  BY ProcessFacts
<1>2. x \in Stamps => /\ c \in CheckpointRecords
                      /\ ck[x].opened => c.opened
                      /\ c.blend /\ ~c.opened => c.scene = c.saved
  BY <1>1 DEF IInv, Shape, CheckpointRecords, CheckpointsAreCopies
<1>3. ck' = [ck EXCEPT ![x] = c] /\ proc' = [proc EXCEPT ![p] = r]
  BY DEF SaveStarts, IInv, Shape
<1>4. Keeps(proc[p], r)
  <2> DEFINE q == [proc[p] EXCEPT !.pc = "blend"]
  <2>1. Keeps(proc[p], q)
    BY <1>1, FieldLemma
  <2>2. Keeps(q, [q EXCEPT !.x = x])
    <3> HIDE DEF q
    <3> QED BY <2>1, FieldLemma DEF Keeps
  <2>3. r = [q EXCEPT !.x = x]
    OBVIOUS
  <2> HIDE DEF q, r
  <2> QED BY <2>1, <2>2, <2>3, KeepsTwice
<1> HIDE DEF c, r
<1>5. /\ ck' \in [Stamps -> CheckpointRecords]
      /\ \A y \in Stamps : ck[y].opened => ck'[y].opened
      /\ CheckpointsAreCopies'
  BY <1>2, <1>3, CheckpointChanges
<1> QED BY <1>1, <1>3, <1>4, <1>5, KeepingStep

\* save_as_mainfile writes the scene, and leaves the open file open.
LEMMA SaveBlendStep ==
  ASSUME IInv, NEW p \in Blenders, SaveBlend(p)
  PROVE  IInv'
<1>1. ProcessRecord(proc[p]) /\ proc[p].scene \in Scenes /\ proc[p].open \in Files
  BY ProcessFacts
<1>2. PICK r : proc' = [proc EXCEPT ![p] = r] /\ Keeps(proc[p], r)
  <2>1. CASE proc' = [proc EXCEPT ![p].pc = "meta", ![p].open = OpenAfter(p)]
    <3> DEFINE q == [proc[p] EXCEPT !.pc = "meta"]
               r == [q EXCEPT !.open = proc[p].open]
    <3>1. proc' = [proc EXCEPT ![p] = r]
      BY <2>1 DEF IInv, Shape, OpenAfter
    <3>2. Keeps(proc[p], q)
      BY <1>1, FieldLemma
    <3>3. Keeps(q, r)
      <4> HIDE DEF q
      <4> QED BY <3>2, FieldLemma DEF Keeps
    <3> HIDE DEF q, r
    <3> QED BY <3>1, <3>2, <3>3, KeepsTwice
  <2>2. CASE proc' = [proc EXCEPT ![p] = Ends(p)]
    BY <1>1, <2>2, EndsLemma
  <2> QED BY <2>1, <2>2 DEF SaveBlend
<1>3. /\ ck' \in [Stamps -> CheckpointRecords]
      /\ \A y \in Stamps : ck[y].opened => ck'[y].opened
      /\ CheckpointsAreCopies'
  <2> DEFINE x == proc[p].x
             s == proc[p].scene
             c == [ck[x] EXCEPT !.blend = TRUE, !.scene = s, !.saved = s]
  <2>1. CASE UNCHANGED ck
    BY <2>1, NothingWritten
  <2>2. CASE ck' = [ck EXCEPT ![x].blend = TRUE, ![x].scene = s, ![x].saved = s]
    <3>1. x \in Stamps => /\ c \in CheckpointRecords
                          /\ ck[x].opened => c.opened
                          /\ c.blend /\ ~c.opened => c.scene = c.saved
      BY <1>1 DEF IInv, Shape, CheckpointRecords
    <3>2. ck' = [ck EXCEPT ![x] = c]
      BY <2>2 DEF IInv, Shape
    <3> HIDE DEF c
    <3> QED BY <3>1, <3>2, CheckpointChanges
  <2> QED BY <2>1, <2>2 DEF SaveBlend
<1> QED BY <1>2, <1>3, KeepingStep

LEMMA WriteMetaStep ==
  ASSUME IInv, NEW p \in Blenders, WriteMeta(p)
  PROVE  IInv'
<1>1. ProcessRecord(proc[p])
  BY ProcessFacts
<1> DEFINE Kept == \E r : proc' = [proc EXCEPT ![p] = r] /\ Keeps(proc[p], r)
<1>2. Kept
  <2>1. ASSUME NEW v, proc' = [proc EXCEPT ![p].pc = v] PROVE Kept
    <3>1. proc' = [proc EXCEPT ![p] = [proc[p] EXCEPT !.pc = v]]
      BY <2>1 DEF IInv, Shape
    <3> QED BY <1>1, <3>1, FieldLemma
  <2>2. CASE proc' = [proc EXCEPT ![p] = Ends(p)]
    BY <1>1, <2>2, EndsLemma
  <2> QED BY <2>1, <2>2 DEF WriteMeta, Goes
<1>3. /\ ck' \in [Stamps -> CheckpointRecords]
      /\ \A y \in Stamps : ck[y].opened => ck'[y].opened
      /\ CheckpointsAreCopies'
  <2> DEFINE x == proc[p].x
             part == [ck[x] EXCEPT !.meta = "part"]
             full == [ck[x] EXCEPT !.meta = "full", !.done = TRUE]
  <2>1. CASE UNCHANGED ck
    BY <2>1, NothingWritten
  <2>2. CASE ck' = [ck EXCEPT ![x].meta = "part"]
    <3>1. x \in Stamps => /\ part \in CheckpointRecords
                          /\ ck[x].opened => part.opened
                          /\ part.blend /\ ~part.opened => part.scene = part.saved
      BY DEF IInv, Shape, CheckpointRecords, CheckpointsAreCopies
    <3>2. ck' = [ck EXCEPT ![x] = part]
      BY <2>2 DEF IInv, Shape
    <3> HIDE DEF part
    <3> QED BY <3>1, <3>2, CheckpointChanges
  <2>3. CASE ck' = [ck EXCEPT ![x].meta = "full", ![x].done = TRUE]
    <3>1. x \in Stamps => /\ full \in CheckpointRecords
                          /\ ck[x].opened => full.opened
                          /\ full.blend /\ ~full.opened => full.scene = full.saved
      BY DEF IInv, Shape, CheckpointRecords, CheckpointsAreCopies
    <3>2. ck' = [ck EXCEPT ![x] = full]
      BY <2>3 DEF IInv, Shape
    <3> HIDE DEF full
    <3> QED BY <3>1, <3>2, CheckpointChanges
  <2> QED BY <2>1, <2>2, <2>3 DEF WriteMeta
<1> QED BY <1>2, <1>3, KeepingStep

LEMMA PruneStep ==
  ASSUME IInv, NEW p \in Blenders, Prune(p)
  PROVE  IInv'
<1> DEFINE v == Victims(Listed(ck[proc[p].x].dir))
           q == [proc[p] EXCEPT !.pc = "unlink"]
           r == [q EXCEPT !.victims = v]
<1>1. ProcessRecord(proc[p])
  BY ProcessFacts
<1>2. Keeps(proc[p], Ends(p))
  BY <1>1, EndsLemma
<1>3. Keeps(proc[p], r)
  <2> HIDE DEF v
  <2>1. Keeps(proc[p], q)
    BY <1>1, FieldLemma
  <2>2. Keeps(q, r)
    <3> HIDE DEF q
    <3> QED BY <2>1, FieldLemma DEF Keeps
  <2> HIDE DEF q, r
  <2> QED BY <2>1, <2>2, KeepsTwice
<1>4. UNCHANGED ck /\ (\/ proc' = [proc EXCEPT ![p] = Ends(p)]
                       \/ proc' = [proc EXCEPT ![p] = r])
  BY DEF Prune, IInv, Shape
<1> HIDE DEF r
<1> QED BY <1>2, <1>3, <1>4, NothingWritten, KeepingStep

LEMMA UnlinkStep ==
  ASSUME IInv, NEW p \in Blenders, Unlink(p)
  PROVE  IInv'
<1>1. ProcessRecord(proc[p])
  BY ProcessFacts
<1>2. PICK x \in proc[p].victims :
        /\ \/ UNCHANGED ck
           \/ ck' = IF proc[p].half THEN [ck EXCEPT ![x].meta = "none"] ELSE [ck EXCEPT ![x].blend = FALSE]
        /\ proc' = [proc EXCEPT ![p] =
             IF ~@.half THEN [@ EXCEPT !.half = TRUE]
             ELSE IF @.victims = {x} THEN Ends(p)
             ELSE [@ EXCEPT !.half = FALSE, !.victims = proc[p].victims \ {x}]]
  BY DEF Unlink
<1> DEFINE half == [proc[p] EXCEPT !.half = TRUE]
           q == [proc[p] EXCEPT !.half = FALSE]
           next == [q EXCEPT !.victims = proc[p].victims \ {x}]
<1>3. Keeps(proc[p], Ends(p)) /\ Keeps(proc[p], half)
  BY <1>1, EndsLemma, FieldLemma
<1>4. Keeps(proc[p], next)
  <2>1. Keeps(proc[p], q)
    BY <1>1, FieldLemma
  <2>2. Keeps(q, next)
    <3> HIDE DEF q
    <3> QED BY <2>1, FieldLemma DEF Keeps
  <2> HIDE DEF q, next
  <2> QED BY <2>1, <2>2, KeepsTwice
<1>5. \/ proc' = [proc EXCEPT ![p] = Ends(p)]
      \/ proc' = [proc EXCEPT ![p] = half]
      \/ proc' = [proc EXCEPT ![p] = next]
  <2>1. proc' = [proc EXCEPT ![p] = IF ~proc[p].half THEN half
                                    ELSE IF proc[p].victims = {x} THEN Ends(p) ELSE next]
    BY <1>2 DEF IInv, Shape
  <2> HIDE DEF half, next
  <2> QED BY <2>1
<1>6. /\ ck' \in [Stamps -> CheckpointRecords]
      /\ \A y \in Stamps : ck[y].opened => ck'[y].opened
      /\ CheckpointsAreCopies'
  <2> DEFINE blend == [ck[x] EXCEPT !.blend = FALSE]
             meta == [ck[x] EXCEPT !.meta = "none"]
  <2>1. x \in Stamps => /\ blend \in CheckpointRecords /\ meta \in CheckpointRecords
                        /\ ck[x].opened => blend.opened /\ meta.opened
                        /\ ~blend.blend
                        /\ meta.blend /\ ~meta.opened => meta.scene = meta.saved
    BY DEF IInv, Shape, CheckpointRecords, CheckpointsAreCopies
  <2>2. UNCHANGED ck \/ ck' = [ck EXCEPT ![x] = blend] \/ ck' = [ck EXCEPT ![x] = meta]
    BY <1>2 DEF IInv, Shape
  <2> HIDE DEF blend, meta
  <2>3. CASE ck' = [ck EXCEPT ![x] = blend]
    BY <2>1, <2>3, CheckpointChanges
  <2>4. CASE ck' = [ck EXCEPT ![x] = meta]
    BY <2>1, <2>4, CheckpointChanges
  <2> QED BY <2>2, <2>3, <2>4, NothingWritten
<1> HIDE DEF half, next
<1> QED BY <1>3, <1>4, <1>5, <1>6, KeepingStep

\* Opening a file: the project, or a checkpoint, which is marked.
LEMMA OpenedLemma ==
  ASSUME NEW f \in Files, NEW s \in Scenes
  PROVE  /\ ProcessRecord(Opened(f, s))
         /\ Opened(f, s).open = f /\ Opened(f, s).scene \in Scenes
  BY DEF Opened, ProcessRecord

LEMMA CrashStep ==
  ASSUME IInv, NEW p \in Blenders, NEW s \in Scenes, Crash(p, s)
  PROVE  IInv'
<1>1. Project \in Files
  BY DEF Files
<1>2. UNCHANGED ck /\ proc' = [proc EXCEPT ![p] = Opened(Project, s)]
  BY DEF Crash
<1>3. /\ ProcessRecord(Opened(Project, s))
      /\ Opened(Project, s).open = Project /\ Opened(Project, s).scene \in Scenes
  BY <1>1, OpenedLemma
<1> QED BY <1>1, <1>2, <1>3, NothingWritten, ProcessMoves

LEMMA RestoreStep ==
  ASSUME IInv, NEW p \in Blenders, NEW x \in Stamps, Restore(p, x)
  PROVE  IInv'
<1> DEFINE c == [ck[x] EXCEPT !.opened = TRUE]
           s == ck[x].scene
<1>1. /\ c \in CheckpointRecords /\ c.opened /\ s \in Scenes /\ x \in Files
  BY DEF IInv, Shape, CheckpointRecords, Files
<1>2. ck' = [ck EXCEPT ![x] = c] /\ proc' = [proc EXCEPT ![p] = Opened(x, s)]
  BY DEF Restore, IInv, Shape
<1>3. ck'[x].opened
  BY <1>1, <1>2 DEF IInv, Shape
<1> HIDE DEF c, s
<1>4. /\ ck' \in [Stamps -> CheckpointRecords]
      /\ \A y \in Stamps : ck[y].opened => ck'[y].opened
      /\ CheckpointsAreCopies'
  BY <1>1, <1>2, CheckpointChanges
<1>5. ProcessRecord(Opened(x, s)) /\ Opened(x, s).open = x /\ Opened(x, s).scene \in Scenes
  BY <1>1, OpenedLemma
<1> QED BY <1>1, <1>2, <1>3, <1>4, <1>5, ProcessMoves

LEMMA EditStep ==
  ASSUME IInv, NEW p \in Blenders, NEW s \in Scenes, Edit(p, s)
  PROVE  IInv'
<1> DEFINE r == [proc[p] EXCEPT !.scene = s]
<1>1. ProcessRecord(r) /\ r.scene = s /\ r.open = proc[p].open
  <2>1. ProcessRecord(proc[p])
    BY ProcessFacts
  <2>2. r = [pc |-> proc[p].pc, open |-> proc[p].open, scene |-> s, x |-> proc[p].x,
             victims |-> proc[p].victims, half |-> proc[p].half]
    <3>1. PICK a, b, c, d, e, g :
            proc[p] = [pc |-> a, open |-> b, scene |-> c, x |-> d, victims |-> e, half |-> g]
      BY <2>1 DEF ProcessRecord
    <3> QED BY <3>1
  <2> HIDE DEF r
  <2> QED BY <2>2 DEF ProcessRecord
<1>2. UNCHANGED ck /\ proc' = [proc EXCEPT ![p] = r]
  BY DEF Edit, IInv, Shape
<1> HIDE DEF r
<1>3. r.open \in Files /\ (r.open # Project => ck'[r.open].opened)
  BY <1>1, <1>2, ProcessFacts
<1> QED BY <1>1, <1>2, <1>3, NothingWritten, ProcessMoves

LEMMA Step == IInv /\ [Next]_vars => IInv'
<1> SUFFICES ASSUME IInv, [Next]_vars PROVE IInv'
  OBVIOUS
<1>1. CASE ClockBack \/ UNCHANGED vars
  <2>1. UNCHANGED <<ck, proc>>
    BY <1>1 DEF ClockBack, vars
  <2> QED BY <2>1 DEF IInv, Shape, OnlyRestoredAreOpen, CheckpointsAreCopies
<1>2. ASSUME NEW p \in Blenders,
             \/ SaveFile(p) \/ SaveStarts(p) \/ SaveBlend(p)
             \/ WriteMeta(p) \/ Prune(p) \/ Unlink(p)
      PROVE  IInv'
  BY <1>2, SaveFileStep, SaveStartsStep, SaveBlendStep, WriteMetaStep, PruneStep, UnlinkStep
<1>3. ASSUME NEW p \in Blenders, NEW s \in Scenes, Edit(p, s) \/ Crash(p, s) PROVE IInv'
  BY <1>3, EditStep, CrashStep
<1>4. ASSUME NEW p \in Blenders, NEW x \in Stamps, Restore(p, x) PROVE IInv'
  BY <1>4, RestoreStep
<1> QED BY <1>1, <1>2, <1>3, <1>4 DEF Next

-----------------------------------------------------------------------------
\* A checkpoint holds the scene it was made of until it is restored, however
\* many processes save, prune, restore, edit and crash
\* (Checkpoints!CheckpointsAreCopies).
THEOREM SavedStaysSaved == Spec => []CheckpointsAreCopies
<1>1. IInv => CheckpointsAreCopies
  BY DEF IInv
<1> QED BY <1>1, InitIInv, Step, PTL DEF Spec
-----------------------------------------------------------------------------
(* What prune keeps.  A checkpoint goes only when Keep newer ones of the    *)
(* same file were completed, and those stay completed; so the newest Keep   *)
(* are never a victim, even of a prune that listed them long ago.           *)

\* The completed checkpoints of x's file that are newer than x by their
\* stamps, if c are the checkpoints.
Newer(x, c) == {y \in Stamps : c[y].dir = c[x].dir /\ c[y].done /\ y > x}

Superseded(x, c) == Cardinality(Newer(x, c)) >= Keep

\* The stamps, of which the clock gives a new one to every save.
ClockInv(k, o) ==
  /\ k = [now |-> k.now, back |-> k.back] /\ k.now \in Nat \ {0} /\ k.back \in BOOLEAN
  /\ o \in Seq(Stamps) /\ Len(o) <= MaxSaves
  /\ \A i, j \in 1 .. Len(o) : o[i] = o[j] => i = j
  /\ ~k.back => k.now = MaxSaves + 1 + Len(o) /\ (\A i \in 1 .. Len(o) : o[i] = MaxSaves + i)
  /\ k.back => k.now <= Len(o) /\ (\A i \in 1 .. Len(o) : o[i] < k.now \/ o[i] > MaxSaves)

Stamped(o) == {o[i] : i \in 1 .. Len(o)}

CheckpointInv(x, c, o) ==
  /\ c[x].done => x \in Stamped(o)
  /\ c[x].meta = "full" => c[x].done
  /\ c[x].done => (c[x].blend /\ c[x].meta = "full") \/ Superseded(x, c)

ProcessInv(r, c, o) ==
  /\ r.pc \in {"idle", "blend", "meta", "writing", "prune", "unlink"}
  /\ r.x = 0 \/ r.x \in Stamped(o)
  /\ r.pc \in {"blend", "meta", "writing"} => r.x # 0 /\ ~c[r.x].done
  /\ r.pc \in {"meta", "writing"} => c[r.x].blend
  /\ \A v \in r.victims : v \in Stamps /\ c[v].done /\ Superseded(v, c)

OneSaveEach == \A p \in Blenders : \A q \in Blenders \ {p} : proc[p].x # 0 => proc[q].x # proc[p].x

KeepInv ==
  /\ ClockInv(clock, order)
  /\ \A x \in Stamps : CheckpointInv(x, ck, order)
  /\ \A p \in Blenders : ProcessInv(proc[p], ck, order)
  /\ OneSaveEach

\* c is followed by d: what is completed stays completed, in its directory.
Follows(c, d) == \A y \in Stamps : c[y].done => d[y].done /\ d[y].dir = c[y].dir

LEMMA NewerIsFinite ==
  ASSUME NEW x, NEW c
  PROVE  IsFiniteSet(Newer(x, c)) /\ Cardinality(Newer(x, c)) \in Nat
<1>1. IsFiniteSet(Stamps)
  BY CheckpointsAssumption, FS_Interval DEF Stamps
<1>2. Newer(x, c) \in SUBSET Stamps
  BY DEF Newer
<1> QED BY <1>1, <1>2, FS_Subset, FS_CardinalityType

\* What is superseded stays so.
LEMMA SupersededStays ==
  ASSUME NEW c, NEW d, Follows(c, d), NEW x \in Stamps, c[x].done, Superseded(x, c)
  PROVE  Superseded(x, d)
<1>1. Newer(x, c) \in SUBSET Newer(x, d)
  BY DEF Follows, Newer
<1>2. Cardinality(Newer(x, c)) <= Cardinality(Newer(x, d))
  BY <1>1, NewerIsFinite, FS_Subset
<1>3. Cardinality(Newer(x, c)) \in Int /\ Cardinality(Newer(x, d)) \in Int /\ Keep \in Int
  BY NewerIsFinite, CheckpointsAssumption
<1> QED BY <1>2, <1>3 DEF Superseded

\* A process that does not move while the checkpoints do.
LEMMA ProcessStays ==
  ASSUME NEW r, NEW c, NEW d, NEW o, NEW u, ProcessInv(r, c, o), Follows(c, d),
         Stamped(o) \subseteq Stamped(u),
         r.x # 0 /\ ~c[r.x].done => ~d[r.x].done,
         r.x # 0 /\ ~c[r.x].done /\ c[r.x].blend => d[r.x].blend
  PROVE  ProcessInv(r, d, u)
<1>1. ASSUME NEW v \in r.victims PROVE v \in Stamps /\ d[v].done /\ Superseded(v, d)
  <2>1. v \in Stamps /\ c[v].done /\ Superseded(v, c)
    BY DEF ProcessInv
  <2> QED BY <2>1, SupersededStays DEF Follows
<1> QED BY <1>1 DEF ProcessInv

\* A checkpoint, z, is given new contents.
LEMMA CheckpointsStay ==
  ASSUME IInv, KeepInv, NEW z \in Stamps, NEW n, ck' = [ck EXCEPT ![z] = n],
         n.dir = ck[z].dir, ck[z].done => n.done,
         n.done => z \in Stamped(order),
         n.meta = "full" => n.done,
         n.done => (n.blend /\ n.meta = "full") \/ (ck[z].done /\ Superseded(z, ck))
  PROVE  Follows(ck, ck') /\ \A x \in Stamps : CheckpointInv(x, ck', order)
<1>1. \A y \in Stamps : ck'[y] = IF y = z THEN n ELSE ck[y]
  BY DEF IInv, Shape
<1>2. Follows(ck, ck')
  BY <1>1 DEF Follows
<1>3. ASSUME NEW x \in Stamps PROVE CheckpointInv(x, ck', order)
  <2>1. CheckpointInv(x, ck, order)
    BY DEF KeepInv
  <2>2. ck[x].done /\ Superseded(x, ck) => Superseded(x, ck')
    BY <1>2, SupersededStays
  <2>3. CASE x = z
    BY <1>1, <2>2, <2>3 DEF CheckpointInv
  <2>4. CASE x # z
    BY <1>1, <2>1, <2>2, <2>4 DEF CheckpointInv
  <2> QED BY <2>3, <2>4
<1> QED BY <1>2, <1>3

\* The stamp of a process is that of a checkpoint.
LEMMA StampFacts ==
  ASSUME KeepInv, NEW p \in Blenders
  PROVE  /\ Stamped(order) \subseteq Stamps
         /\ proc[p].x = 0 \/ proc[p].x \in Stamps
         /\ proc[p].pc \in {"blend", "meta", "writing"} =>
              proc[p].x \in Stamped(order) /\ ~ck[proc[p].x].done
<1>1. Stamped(order) \subseteq Stamps
  BY DEF KeepInv, ClockInv, Stamped
<1> QED BY <1>1 DEF KeepInv, ProcessInv

\* p becomes r, and z is given new contents: they are nothing to a process
\* that has begun another checkpoint.
LEMMA ProcessesStay ==
  ASSUME IInv, KeepInv, NEW p \in Blenders, NEW r,
         proc' = [proc EXCEPT ![p] = r], UNCHANGED <<clock, order>>,
         NEW z \in Stamps, NEW n, ck' = [ck EXCEPT ![z] = n],
         Follows(ck, ck'), \A x \in Stamps : CheckpointInv(x, ck', order),
         \/ proc[p].x = z
         \/ (n.done <=> ck[z].done) /\ (~ck[z].done /\ ck[z].blend => n.blend),
         ProcessInv(r, ck', order), r.x = 0 \/ r.x = proc[p].x
  PROVE  KeepInv'
<1>1. \A q \in Blenders : proc'[q] = IF q = p THEN r ELSE proc[q]
  BY DEF IInv, Shape
<1>2. \A y \in Stamps : ck'[y] = IF y = z THEN n ELSE ck[y]
  BY DEF IInv, Shape
<1>3. ASSUME NEW q \in Blenders PROVE ProcessInv(proc'[q], ck', order)
  <2>1. CASE q = p
    BY <1>1, <2>1
  <2>2. CASE q # p
    <3>1. proc'[q] = proc[q] /\ ProcessInv(proc[q], ck, order)
      BY <1>1, <2>2 DEF KeepInv
    <3>2. proc[q].x # 0 => proc[q].x \in Stamps
      BY StampFacts
    <3>3. proc[q].x # 0 => proc[p].x # proc[q].x
      BY <2>2 DEF KeepInv, OneSaveEach
    <3>4. proc[q].x # 0 /\ ~ck[proc[q].x].done => ~ck'[proc[q].x].done
      BY <1>2, <3>2, <3>3
    <3>5. proc[q].x # 0 /\ ~ck[proc[q].x].done /\ ck[proc[q].x].blend => ck'[proc[q].x].blend
      BY <1>2, <3>2, <3>3
    <3> QED BY <3>1, <3>4, <3>5, ProcessStays
  <2> QED BY <2>1, <2>2
<1>4. OneSaveEach'
  BY <1>1 DEF KeepInv, OneSaveEach
<1>5. ClockInv(clock, order)' /\ order' = order
  BY DEF KeepInv
<1> QED BY <1>3, <1>4, <1>5 DEF KeepInv

\* The same when nothing is written.
LEMMA OnlyTheProcess ==
  ASSUME IInv, KeepInv, NEW p \in Blenders, NEW r,
         proc' = [proc EXCEPT ![p] = r], UNCHANGED <<clock, ck, order>>,
         ProcessInv(r, ck, order), r.x = 0 \/ r.x = proc[p].x
  PROVE  KeepInv'
<1>1. \A q \in Blenders : proc'[q] = IF q = p THEN r ELSE proc[q]
  BY DEF IInv, Shape
<1>2. OneSaveEach'
  BY <1>1 DEF KeepInv, OneSaveEach
<1>3. \A q \in Blenders : ProcessInv(proc'[q], ck, order)
  BY <1>1 DEF KeepInv
<1> QED BY <1>2, <1>3 DEF KeepInv
-----------------------------------------------------------------------------
\* The fields KeepInv is about, of q: those of r, with some new.
Became(q, pc, x, victims) == q.pc = pc /\ q.x = x /\ q.victims = victims

LEMMA FieldFacts ==
  ASSUME NEW r, ProcessRecord(r), NEW v
  PROVE  /\ Became([r EXCEPT !.pc = v], v, r.x, r.victims)
         /\ Became([r EXCEPT !.x = v], r.pc, v, r.victims)
         /\ Became([r EXCEPT !.victims = v], r.pc, r.x, v)
         /\ Became([r EXCEPT !.half = v], r.pc, r.x, r.victims)
         /\ Became([r EXCEPT !.open = v], r.pc, r.x, r.victims)
         /\ Became([r EXCEPT !.scene = v], r.pc, r.x, r.victims)
<1>1. PICK a, b, c, d, e, g :
        r = [pc |-> a, open |-> b, scene |-> c, x |-> d, victims |-> e, half |-> g]
  BY DEF ProcessRecord
<1>2. Became([r EXCEPT !.pc = v], v, r.x, r.victims)
  BY <1>1 DEF Became
<1>3. Became([r EXCEPT !.x = v], r.pc, v, r.victims)
  BY <1>1 DEF Became
<1>4. Became([r EXCEPT !.victims = v], r.pc, r.x, v)
  BY <1>1 DEF Became
<1>5. Became([r EXCEPT !.half = v], r.pc, r.x, r.victims)
  BY <1>1 DEF Became
<1>6. Became([r EXCEPT !.open = v], r.pc, r.x, r.victims)
  BY <1>1 DEF Became
<1>7. Became([r EXCEPT !.scene = v], r.pc, r.x, r.victims)
  BY <1>1 DEF Became
<1> QED BY <1>2, <1>3, <1>4, <1>5, <1>6, <1>7

LEMMA EndsFacts ==
  ASSUME NEW p, ProcessRecord(proc[p])
  PROVE  Became(Ends(p), "idle", 0, {})
<1> DEFINE q == [proc[p] EXCEPT !.pc = "idle"]
           r == [q EXCEPT !.x = 0]
           s == [r EXCEPT !.victims = {}]
           t == [s EXCEPT !.half = FALSE]
<1>1. Ends(p) = t
  BY DEF Ends
<1>2. ProcessRecord(q) /\ Became(q, "idle", proc[p].x, proc[p].victims)
  BY FieldLemma, FieldFacts DEF Keeps
<1> HIDE DEF q
<1>3. ProcessRecord(r) /\ Became(r, "idle", 0, proc[p].victims)
  <2>1. Keeps(q, r) /\ Became(r, q.pc, 0, q.victims)
    BY <1>2, FieldLemma, FieldFacts
  <2> HIDE DEF r
  <2> QED BY <1>2, <2>1 DEF Keeps, Became
<1> HIDE DEF r
<1>4. ProcessRecord(s) /\ Became(s, "idle", 0, {})
  <2>1. Keeps(r, s) /\ Became(s, r.pc, r.x, {})
    BY <1>3, FieldLemma, FieldFacts
  <2> HIDE DEF s
  <2> QED BY <1>3, <2>1 DEF Keeps, Became
<1> HIDE DEF s
<1>5. Became(t, "idle", 0, {})
  <2>1. Became(t, s.pc, s.x, s.victims)
    BY <1>4, FieldFacts
  <2> HIDE DEF t
  <2> QED BY <1>4, <2>1 DEF Became
<1> QED BY <1>1, <1>5

\* A process that is idle asks nothing.
LEMMA IdleProcess ==
  ASSUME NEW r, Became(r, "idle", 0, {}), NEW c, NEW o
  PROVE  ProcessInv(r, c, o)
  BY DEF Became, ProcessInv

LEMMA EndsKeeps ==
  ASSUME IInv, KeepInv, NEW p \in Blenders,
         proc' = [proc EXCEPT ![p] = Ends(p)], UNCHANGED <<clock, ck, order>>
  PROVE  KeepInv'
<1> DEFINE r == Ends(p)
<1>1. Became(r, "idle", 0, {})
  BY ProcessFacts, EndsFacts
<1>2. ProcessInv(r, ck, order) /\ r.x = 0
  BY <1>1, IdleProcess DEF Became
<1>3. proc' = [proc EXCEPT ![p] = r]
  OBVIOUS
<1> HIDE DEF r
<1> QED BY <1>2, <1>3, OnlyTheProcess

LEMMA KeepInit == Init => KeepInv
<1> SUFFICES ASSUME Init PROVE KeepInv
  OBVIOUS
<1>1. PICK s \in Scenes :
        /\ clock = [now |-> MaxSaves + 1, back |-> FALSE]
        /\ ck = [x \in Stamps |-> [dir |-> Project, blend |-> FALSE, meta |-> "none", scene |-> s,
                                   saved |-> s, done |-> FALSE, opened |-> FALSE]]
        /\ order = <<>>
        /\ proc = [p \in Blenders |-> Opened(Project, s)]
  BY DEF Init
<1>2. ClockInv(clock, order)
  BY <1>1, CheckpointsAssumption DEF ClockInv
<1>3. \A x \in Stamps : CheckpointInv(x, ck, order)
  BY <1>1 DEF CheckpointInv
<1>4. ASSUME NEW p \in Blenders PROVE ProcessInv(proc[p], ck, order) /\ proc[p].x = 0
  <2>1. proc[p] = Opened(Project, s)
    BY <1>1
  <2>2. Became(proc[p], "idle", 0, {})
    BY <2>1 DEF Opened, Became
  <2> QED BY <2>2, IdleProcess DEF Became
<1> QED BY <1>2, <1>3, <1>4 DEF KeepInv, OneSaveEach

LEMMA KeepEdit ==
  ASSUME IInv, KeepInv, NEW p \in Blenders, NEW s \in Scenes, Edit(p, s)
  PROVE  KeepInv'
<1> DEFINE r == [proc[p] EXCEPT !.scene = s]
<1>1. Became(r, proc[p].pc, proc[p].x, proc[p].victims)
  BY ProcessFacts, FieldFacts
<1>2. proc' = [proc EXCEPT ![p] = r] /\ UNCHANGED <<clock, ck, order>>
  BY DEF Edit, IInv, Shape
<1> HIDE DEF r
<1>3. ProcessInv(proc[p], ck, order)
  BY DEF KeepInv
<1>4. ProcessInv(r, ck, order) /\ r.x = proc[p].x
  BY <1>1, <1>3 DEF Became, ProcessInv
<1> QED BY <1>2, <1>4, OnlyTheProcess

LEMMA KeepCrash ==
  ASSUME IInv, KeepInv, NEW p \in Blenders, NEW s \in Scenes, Crash(p, s)
  PROVE  KeepInv'
<1> DEFINE r == Opened(Project, s)
<1>1. Became(r, "idle", 0, {})
  BY DEF Opened, Became
<1>2. ProcessInv(r, ck, order) /\ r.x = 0
  BY <1>1, IdleProcess DEF Became
<1>3. proc' = [proc EXCEPT ![p] = r] /\ UNCHANGED <<clock, ck, order>>
  BY DEF Crash
<1> HIDE DEF r
<1> QED BY <1>2, <1>3, OnlyTheProcess

LEMMA KeepRestore ==
  ASSUME IInv, KeepInv, NEW p \in Blenders, NEW x \in Stamps, Restore(p, x)
  PROVE  KeepInv'
<1> DEFINE n == [ck[x] EXCEPT !.opened = TRUE]
           r == Opened(x, ck[x].scene)
<1>1. ck[x] \in CheckpointRecords /\ CheckpointInv(x, ck, order)
  BY DEF IInv, Shape, KeepInv
<1>2. /\ n.dir = ck[x].dir /\ n.done = ck[x].done /\ n.meta = ck[x].meta
      /\ n.blend = ck[x].blend
  BY <1>1 DEF CheckpointRecords
<1>3. /\ ck' = [ck EXCEPT ![x] = n] /\ proc' = [proc EXCEPT ![p] = r]
      /\ UNCHANGED <<clock, order>>
  BY DEF Restore, IInv, Shape
<1>4. Became(r, "idle", 0, {})
  BY DEF Opened, Became
<1>5. ProcessInv(r, ck', order) /\ r.x = 0
  BY <1>4, IdleProcess DEF Became
<1> HIDE DEF n, r
<1>6. Follows(ck, ck') /\ \A y \in Stamps : CheckpointInv(y, ck', order)
  <2>1. n.done => x \in Stamped(order)
    BY <1>1, <1>2 DEF CheckpointInv
  <2>2. n.meta = "full" => n.done
    BY <1>1, <1>2 DEF CheckpointInv
  <2>3. n.done => (n.blend /\ n.meta = "full") \/ (ck[x].done /\ Superseded(x, ck))
    BY <1>1, <1>2 DEF CheckpointInv
  <2> QED BY <1>2, <1>3, <2>1, <2>2, <2>3, CheckpointsStay
<1> QED BY <1>2, <1>3, <1>5, <1>6, ProcessesStay

\* A Ctrl-S to a restored checkpoint brings back its file at most.
LEMMA KeepSaveFile ==
  ASSUME IInv, KeepInv, NEW p \in Blenders, SaveFile(p)
  PROVE  KeepInv'
<1> DEFINE x == proc[p].open
           n == [ck[x] EXCEPT !.blend = TRUE, !.scene = proc[p].scene]
<1>1. x \in Stamps
  BY ProcessFacts DEF SaveFile, Files
<1>2. ck[x] \in CheckpointRecords /\ CheckpointInv(x, ck, order)
  BY <1>1 DEF IInv, Shape, KeepInv
<1>3. /\ n.dir = ck[x].dir /\ n.done = ck[x].done /\ n.meta = ck[x].meta /\ n.blend
  BY <1>2 DEF CheckpointRecords
<1>4. /\ ck' = [ck EXCEPT ![x] = n] /\ UNCHANGED <<clock, order, proc>>
  BY DEF SaveFile, IInv, Shape
<1> HIDE DEF n
<1>5. proc' = [proc EXCEPT ![p] = proc[p]]
  BY <1>4 DEF IInv, Shape
<1> HIDE DEF x
<1>6. Follows(ck, ck') /\ \A y \in Stamps : CheckpointInv(y, ck', order)
  <2>1. n.done => x \in Stamped(order)
    BY <1>2, <1>3 DEF CheckpointInv
  <2>2. n.meta = "full" => n.done
    BY <1>2, <1>3 DEF CheckpointInv
  <2>3. n.done => (n.blend /\ n.meta = "full") \/ (ck[x].done /\ Superseded(x, ck))
    BY <1>2, <1>3 DEF CheckpointInv
  <2> QED BY <1>1, <1>3, <1>4, <2>1, <2>2, <2>3, CheckpointsStay
<1>7. ProcessInv(proc[p], ck', order)
  <2>1. ProcessInv(proc[p], ck, order)
    BY DEF KeepInv
  <2>2. proc[p].x # 0 => proc[p].x \in Stamps
    BY StampFacts
  <2>3. \A y \in Stamps : ck'[y] = IF y = x THEN n ELSE ck[y]
    BY <1>4 DEF IInv, Shape
  <2> QED BY <1>3, <1>6, <2>1, <2>2, <2>3, ProcessStays
<1> QED BY <1>1, <1>3, <1>4, <1>5, <1>6, <1>7, ProcessesStay
-----------------------------------------------------------------------------
\* The clock gives a save a stamp that no other has.
LEMMA StampIsNew ==
  ASSUME NEW k, NEW o, ClockInv(k, o), Len(o) < MaxSaves
  PROVE  k.now \in Stamps \ Stamped(o)
<1>1. Len(o) \in Nat /\ MaxSaves \in Nat /\ k.now \in Nat \ {0} /\ k.back \in BOOLEAN
      /\ \A i \in 1 .. Len(o) : o[i] \in Int
  BY CheckpointsAssumption DEF ClockInv, Stamps
<1>2. CASE ~k.back
  <2>1. k.now = MaxSaves + 1 + Len(o) /\ \A i \in 1 .. Len(o) : o[i] = MaxSaves + i
    BY <1>2 DEF ClockInv
  <2>2. k.now \in Stamps
    BY <1>1, <2>1 DEF Stamps
  <2>3. \A i \in 1 .. Len(o) : o[i] # k.now
    BY <1>1, <2>1
  <2> QED BY <2>2, <2>3 DEF Stamped
<1>3. CASE k.back
  <2>1. k.now <= Len(o) /\ \A i \in 1 .. Len(o) : o[i] < k.now \/ o[i] > MaxSaves
    BY <1>3 DEF ClockInv
  <2>2. k.now \in Stamps
    BY <1>1, <2>1 DEF Stamps
  <2>3. \A i \in 1 .. Len(o) : o[i] # k.now
    BY <1>1, <2>1
  <2> QED BY <2>2, <2>3 DEF Stamped
<1> QED BY <1>1, <1>2, <1>3

LEMMA ClockTicks ==
  ASSUME NEW k, NEW o, ClockInv(k, o), Len(o) < MaxSaves
  PROVE  /\ ClockInv([k EXCEPT !.now = @ + 1], Append(o, k.now))
         /\ Stamped(Append(o, k.now)) = Stamped(o) \union {k.now}
<1> DEFINE l == [k EXCEPT !.now = @ + 1]
           u == Append(o, k.now)
<1>1. k.now \in Stamps \ Stamped(o)
  BY StampIsNew
<1>2. /\ Len(o) \in Nat /\ MaxSaves \in Nat /\ k.now \in Nat \ {0} /\ k.back \in BOOLEAN
      /\ o \in Seq(Stamps)
  BY CheckpointsAssumption DEF ClockInv, Stamps
<1>3. /\ u \in Seq(Stamps) /\ Len(u) = Len(o) + 1 /\ u[Len(o) + 1] = k.now
      /\ \A i \in 1 .. Len(o) : u[i] = o[i]
  BY <1>1, <1>2, AppendProperties
<1>4. l = [now |-> k.now + 1, back |-> k.back]
  <2>1. PICK a, b : k = [now |-> a, back |-> b]
    BY DEF ClockInv
  <2> QED BY <2>1
<1> HIDE DEF l, u
<1>5. l.now = k.now + 1 /\ l.back = k.back /\ l = [now |-> l.now, back |-> l.back]
  BY <1>4
<1>6. \A i \in 1 .. Len(u) : (i \in 1 .. Len(o) /\ u[i] = o[i]) \/ (i = Len(o) + 1 /\ u[i] = k.now)
  BY <1>2, <1>3
<1>7. Stamped(u) = Stamped(o) \union {k.now}
  <2>1. \A i \in 1 .. Len(o) : i \in 1 .. Len(u)
    BY <1>2, <1>3
  <2>2. Len(o) + 1 \in 1 .. Len(u)
    BY <1>2, <1>3
  <2> QED BY <1>3, <1>6, <2>1, <2>2 DEF Stamped
<1>8. \A i, j \in 1 .. Len(u) : u[i] = u[j] => i = j
  <2>1. \A i, j \in 1 .. Len(o) : o[i] = o[j] => i = j
    BY DEF ClockInv
  <2>2. \A i \in 1 .. Len(o) : o[i] # k.now
    BY <1>1 DEF Stamped
  <2> QED BY <1>6, <2>1, <2>2
<1>9. ~l.back => l.now = MaxSaves + 1 + Len(u) /\ (\A i \in 1 .. Len(u) : u[i] = MaxSaves + i)
  <2> SUFFICES ASSUME ~k.back
               PROVE  l.now = MaxSaves + 1 + Len(u) /\ (\A i \in 1 .. Len(u) : u[i] = MaxSaves + i)
    BY <1>5
  <2>1. k.now = MaxSaves + 1 + Len(o) /\ (\A i \in 1 .. Len(o) : o[i] = MaxSaves + i)
    BY DEF ClockInv
  <2>2. l.now = MaxSaves + 1 + Len(u)
    BY <1>2, <1>3, <1>5, <2>1
  <2>3. \A i \in 1 .. Len(u) : u[i] = MaxSaves + i
    BY <1>2, <1>6, <2>1
  <2> QED BY <2>2, <2>3
<1>10. l.back => l.now <= Len(u) /\ (\A i \in 1 .. Len(u) : u[i] < l.now \/ u[i] > MaxSaves)
  <2> SUFFICES ASSUME k.back
               PROVE  l.now <= Len(u) /\ (\A i \in 1 .. Len(u) : u[i] < l.now \/ u[i] > MaxSaves)
    BY <1>5
  <2>1. k.now <= Len(o) /\ (\A i \in 1 .. Len(o) : o[i] < k.now \/ o[i] > MaxSaves)
    BY DEF ClockInv
  <2>2. l.now <= Len(u)
    BY <1>2, <1>3, <1>5, <2>1
  <2>3. \A i \in 1 .. Len(o) : o[i] \in Int
    BY <1>2 DEF Stamps
  <2>4. \A i \in 1 .. Len(u) : u[i] < l.now \/ u[i] > MaxSaves
    BY <1>2, <1>5, <1>6, <2>1, <2>3
  <2> QED BY <2>2, <2>4
<1>11. l.now \in Nat \ {0} /\ l.back \in BOOLEAN /\ Len(u) <= MaxSaves
  BY <1>2, <1>3, <1>5
<1>12. ClockInv(l, u)
  BY <1>3, <1>5, <1>8, <1>9, <1>10, <1>11 DEF ClockInv
<1> QED BY <1>7, <1>12 DEF l, u

\* The clock is set back, once.
LEMMA KeepClockBack ==
  ASSUME KeepInv, ClockBack
  PROVE  KeepInv'
<1>1. clock' = [now |-> 1, back |-> TRUE] /\ UNCHANGED <<ck, order, proc>> /\ order # <<>> /\ ~clock.back
  BY DEF ClockBack
<1>2. /\ order \in Seq(Stamps) /\ Len(order) \in Nat /\ Len(order) <= MaxSaves /\ MaxSaves \in Nat
      /\ \A i, j \in 1 .. Len(order) : order[i] = order[j] => i = j
      /\ \A i \in 1 .. Len(order) : order[i] = MaxSaves + i
  BY <1>1, CheckpointsAssumption DEF KeepInv, ClockInv
<1>3. Len(order) >= 1
  BY <1>1, <1>2, EmptySeq
<1>4. \A i \in 1 .. Len(order) : order[i] > MaxSaves
  BY <1>2
<1> DEFINE k == [now |-> 1, back |-> TRUE]
<1>5. k.now = 1 /\ k.back /\ k = [now |-> k.now, back |-> k.back] /\ k.back \in BOOLEAN
  OBVIOUS
<1> HIDE DEF k
<1>6. ClockInv(k, order)
  <2>1. \A i \in 1 .. Len(order) : order[i] < k.now \/ order[i] > MaxSaves
    BY <1>4
  <2>2. k.now <= Len(order) /\ k.now \in Nat \ {0}
    BY <1>3, <1>5
  <2> QED BY <1>2, <1>5, <2>1, <2>2 DEF ClockInv
<1>7. clock' = k
  BY <1>1 DEF k
<1> QED BY <1>1, <1>6, <1>7 DEF KeepInv, OneSaveEach

\* A checkpoint is begun that nothing is known of.
LEMMA KeepSaveStarts ==
  ASSUME IInv, KeepInv, NEW p \in Blenders, SaveStarts(p)
  PROVE  KeepInv'
<1> DEFINE x == clock.now
           n == [ck[x] EXCEPT !.dir = proc[p].open]
           q == [proc[p] EXCEPT !.pc = "blend"]
           r == [q EXCEPT !.x = x]
<1>1. x \in Stamps /\ x \notin Stamped(order)
  BY StampIsNew DEF KeepInv, SaveStarts
<1>2. ClockInv(clock', order') /\ Stamped(order') = Stamped(order) \union {x}
  BY ClockTicks DEF KeepInv, SaveStarts, Later
<1>3. ck' = [ck EXCEPT ![x] = n] /\ proc' = [proc EXCEPT ![p] = r]
  BY DEF SaveStarts, IInv, Shape
<1>4. n.done = ck[x].done /\ n.blend = ck[x].blend /\ n.meta = ck[x].meta
  BY <1>1 DEF IInv, Shape, CheckpointRecords
<1>5. ~ck[x].done
  BY <1>1 DEF KeepInv, CheckpointInv
<1>6. Became(r, "blend", x, proc[p].victims)
  <2>1. ProcessRecord(q) /\ Became(q, "blend", proc[p].x, proc[p].victims)
    BY ProcessFacts, FieldLemma, FieldFacts DEF Keeps
  <2> HIDE DEF q, x
  <2>2. Became(r, q.pc, x, q.victims)
    BY <2>1, FieldFacts
  <2> HIDE DEF r
  <2> QED BY <2>1, <2>2 DEF Became
<1> HIDE DEF n, r, q
<1>7. \A y \in Stamps : ck'[y] = IF y = x THEN n ELSE ck[y]
  BY <1>3 DEF IInv, Shape
<1>8. \A b \in Blenders : proc'[b] = IF b = p THEN r ELSE proc[b]
  BY <1>3 DEF IInv, Shape
<1> HIDE DEF x
<1>9. Follows(ck, ck')
  BY <1>5, <1>7 DEF Follows
<1>10. ASSUME NEW y \in Stamps PROVE CheckpointInv(y, ck', order')
  <2>1. CheckpointInv(y, ck, order)
    BY DEF KeepInv
  <2>2. CASE y = x
    BY <1>4, <1>5, <1>7, <2>1, <2>2 DEF CheckpointInv
  <2>3. CASE y # x
    BY <1>2, <1>7, <1>9, <2>1, <2>3, SupersededStays DEF CheckpointInv
  <2> QED BY <2>2, <2>3
<1>11. ASSUME NEW b \in Blenders, b # p
       PROVE  ProcessInv(proc'[b], ck', order') /\ proc'[b].x # x /\ proc'[b] = proc[b]
  <2>1. ProcessInv(proc[b], ck, order) /\ proc'[b] = proc[b]
    BY <1>8, <1>11 DEF KeepInv
  <2>2. proc[b].x # 0 => proc[b].x \in Stamped(order) /\ proc[b].x \in Stamps
    BY <2>1, StampFacts DEF ProcessInv
  <2>3. x # 0
    BY <1>1 DEF Stamps
  <2>4. proc[b].x # x
    BY <1>1, <2>2, <2>3
  <2>5. proc[b].x # 0 => ck'[proc[b].x] = ck[proc[b].x]
    BY <1>7, <2>2, <2>4
  <2>6. ProcessInv(proc[b], ck', order')
    BY <1>2, <1>9, <2>1, <2>5, ProcessStays
  <2> QED BY <2>1, <2>4, <2>6
<1>12. ProcessInv(proc'[p], ck', order') /\ proc'[p].x = x
  <2>1. proc'[p] = r /\ ~ck'[x].done /\ x \in Stamped(order') /\ x # 0
    BY <1>1, <1>2, <1>4, <1>5, <1>7, <1>8 DEF Stamps
  <2>2. ASSUME NEW v \in r.victims PROVE v \in Stamps /\ ck'[v].done /\ Superseded(v, ck')
    <3>1. v \in Stamps /\ ck[v].done /\ Superseded(v, ck)
      BY <1>6, <2>2 DEF Became, KeepInv, ProcessInv
    <3> QED BY <1>9, <3>1, SupersededStays DEF Follows
  <2> QED BY <1>6, <2>1, <2>2 DEF Became, ProcessInv
<1>13. OneSaveEach'
  BY <1>11, <1>12 DEF KeepInv, OneSaveEach
<1> QED BY <1>2, <1>10, <1>11, <1>12, <1>13 DEF KeepInv

\* The .blend file of a checkpoint that is not completed is written.
LEMMA KeepSaveBlend ==
  ASSUME IInv, KeepInv, NEW p \in Blenders, SaveBlend(p)
  PROVE  KeepInv'
<1> DEFINE x == proc[p].x
           s == proc[p].scene
           n == [ck[x] EXCEPT !.blend = TRUE, !.scene = s, !.saved = s]
           q == [proc[p] EXCEPT !.pc = "meta"]
           r == [q EXCEPT !.open = proc[p].open]
<1>1. proc[p].pc = "blend" /\ UNCHANGED <<clock, order>>
  BY DEF SaveBlend
<1>2. CASE proc' = [proc EXCEPT ![p] = Ends(p)] /\ UNCHANGED ck
  BY <1>1, <1>2, EndsKeeps
<1>3. CASE /\ ck' = [ck EXCEPT ![x].blend = TRUE, ![x].scene = s, ![x].saved = s]
           /\ proc' = [proc EXCEPT ![p].pc = "meta", ![p].open = OpenAfter(p)]
  <2>1. ck' = [ck EXCEPT ![x] = n] /\ proc' = [proc EXCEPT ![p] = r]
    BY <1>3 DEF IInv, Shape, OpenAfter
  <2>2. x \in Stamps /\ x \in Stamped(order) /\ ~ck[x].done /\ x # 0
    BY <1>1, StampFacts DEF Stamps
  <2>3. CheckpointInv(x, ck, order)
    BY <2>2 DEF KeepInv
  <2>4. n.dir = ck[x].dir /\ n.done = ck[x].done /\ n.meta = ck[x].meta /\ n.blend
    BY <2>2 DEF IInv, Shape, CheckpointRecords
  <2>5. Became(r, "meta", x, proc[p].victims)
    <3>1. ProcessRecord(q) /\ Became(q, "meta", x, proc[p].victims)
      BY ProcessFacts, FieldLemma, FieldFacts DEF Keeps
    <3> HIDE DEF q
    <3>2. Became(r, q.pc, q.x, q.victims)
      BY <3>1, FieldFacts
    <3> HIDE DEF r
    <3> QED BY <3>1, <3>2 DEF Became
  <2> HIDE DEF n, q, r
  <2>6. Follows(ck, ck') /\ \A y \in Stamps : CheckpointInv(y, ck', order)
    <3>1. n.meta = "full" => n.done
      BY <2>3, <2>4 DEF CheckpointInv
    <3> QED BY <2>1, <2>2, <2>4, <3>1, CheckpointsStay
  <2>7. ck'[x] = n
    BY <2>1, <2>2 DEF IInv, Shape
  <2>8. ASSUME NEW v \in r.victims PROVE v \in Stamps /\ ck'[v].done /\ Superseded(v, ck')
    <3>1. v \in Stamps /\ ck[v].done /\ Superseded(v, ck)
      BY <2>5, <2>8 DEF Became, KeepInv, ProcessInv
    <3> QED BY <2>6, <3>1, SupersededStays DEF Follows
  <2>9. ProcessInv(r, ck', order) /\ r.x = x
    <3> HIDE DEF x
    <3> QED BY <2>2, <2>4, <2>5, <2>7, <2>8 DEF Became, ProcessInv
  <2> QED BY <1>1, <2>1, <2>2, <2>4, <2>6, <2>9, ProcessesStay
<1> QED BY <1>2, <1>3 DEF SaveBlend

\* The metadata: with it a checkpoint is completed, and both its files are
\* there.
LEMMA KeepWriteMeta ==
  ASSUME IInv, KeepInv, NEW p \in Blenders, WriteMeta(p)
  PROVE  KeepInv'
<1> DEFINE x == proc[p].x
<1>1. proc[p].pc \in {"meta", "writing"} /\ UNCHANGED <<clock, order>>
  BY DEF WriteMeta
<1>2. x \in Stamps /\ x \in Stamped(order) /\ ~ck[x].done /\ x # 0
  BY <1>1, StampFacts DEF Stamps
<1>3. CheckpointInv(x, ck, order) /\ ck[x].blend
  BY <1>1, <1>2 DEF KeepInv, ProcessInv
<1>4. CASE proc' = [proc EXCEPT ![p] = Ends(p)] /\ UNCHANGED ck
  BY <1>1, <1>4, EndsKeeps
<1>5. ASSUME NEW pc \in {"writing", "prune"}, NEW n,
             ck' = [ck EXCEPT ![x] = n], proc' = [proc EXCEPT ![p].pc = pc],
             n.dir = ck[x].dir, n.blend, n.done <=> pc = "prune",
             n.meta = "full" <=> pc = "prune"
      PROVE  KeepInv'
  <2> DEFINE r == [proc[p] EXCEPT !.pc = pc]
  <2>1. proc' = [proc EXCEPT ![p] = r]
    BY <1>5 DEF IInv, Shape
  <2>2. Became(r, pc, x, proc[p].victims)
    BY ProcessFacts, FieldFacts
  <2> HIDE DEF r
  <2>3. Follows(ck, ck') /\ \A y \in Stamps : CheckpointInv(y, ck', order)
    BY <1>2, <1>5, CheckpointsStay
  <2>4. ck'[x] = n
    BY <1>2, <1>5 DEF IInv, Shape
  <2>5. ASSUME NEW v \in r.victims PROVE v \in Stamps /\ ck'[v].done /\ Superseded(v, ck')
    <3>1. v \in Stamps /\ ck[v].done /\ Superseded(v, ck)
      BY <2>2, <2>5 DEF Became, KeepInv, ProcessInv
    <3> QED BY <2>3, <3>1, SupersededStays DEF Follows
  <2>6. ProcessInv(r, ck', order) /\ r.x = x
    <3> HIDE DEF x
    <3> QED BY <1>2, <1>5, <2>2, <2>4, <2>5 DEF Became, ProcessInv
  <2> QED BY <1>1, <1>2, <1>5, <2>1, <2>3, <2>6, ProcessesStay
<1>6. CASE ck' = [ck EXCEPT ![x].meta = "part"] /\ Goes(p, "writing")
  <2> DEFINE n == [ck[x] EXCEPT !.meta = "part"]
  <2>1. ck' = [ck EXCEPT ![x] = n] /\ proc' = [proc EXCEPT ![p].pc = "writing"]
    BY <1>6 DEF IInv, Shape, Goes
  <2>2. n.dir = ck[x].dir /\ n.blend /\ ~n.done /\ n.meta = "part"
    BY <1>2, <1>3 DEF IInv, Shape, CheckpointRecords
  <2> HIDE DEF n, x
  <2> QED BY <1>5, <2>1, <2>2
<1>7. CASE ck' = [ck EXCEPT ![x].meta = "full", ![x].done = TRUE] /\ Goes(p, "prune")
  <2> DEFINE n == [ck[x] EXCEPT !.meta = "full", !.done = TRUE]
  <2>1. ck' = [ck EXCEPT ![x] = n] /\ proc' = [proc EXCEPT ![p].pc = "prune"]
    BY <1>7 DEF IInv, Shape, Goes
  <2>2. n.dir = ck[x].dir /\ n.blend /\ n.done /\ n.meta = "full"
    BY <1>2, <1>3 DEF IInv, Shape, CheckpointRecords
  <2> HIDE DEF n, x
  <2> QED BY <1>5, <2>1, <2>2
<1> QED BY <1>4, <1>6, <1>7 DEF WriteMeta

\* What prune lists is completed: a victim has Keep newer ones.
LEMMA VictimsAreSuperseded ==
  ASSUME IInv, KeepInv, NEW f, NEW v \in Victims(Listed(f))
  PROVE  v \in Stamps /\ ck[v].done /\ Superseded(v, ck)
<1> DEFINE N == {y \in Listed(f) : y > v}
<1>1. v \in Stamps /\ ck[v].dir = f /\ ck[v].done /\ Cardinality(N) >= Keep
  BY DEF Victims, Listed, KeepInv, CheckpointInv
<1>2. N \in SUBSET Newer(v, ck)
  BY <1>1 DEF Listed, Newer, KeepInv, CheckpointInv
<1>3. Cardinality(N) <= Cardinality(Newer(v, ck)) /\ IsFiniteSet(N)
  BY <1>2, NewerIsFinite, FS_Subset
<1>4. Cardinality(N) \in Nat /\ Cardinality(Newer(v, ck)) \in Nat /\ Keep \in Nat
  BY <1>3, NewerIsFinite, FS_CardinalityType, CheckpointsAssumption
<1> HIDE DEF N
<1>5. Cardinality(Newer(v, ck)) >= Keep
  BY <1>1, <1>3, <1>4
<1> QED BY <1>1, <1>5 DEF Superseded

LEMMA KeepPrune ==
  ASSUME IInv, KeepInv, NEW p \in Blenders, Prune(p)
  PROVE  KeepInv'
<1> DEFINE v == Victims(Listed(ck[proc[p].x].dir))
           q == [proc[p] EXCEPT !.pc = "unlink"]
           r == [q EXCEPT !.victims = v]
<1>1. UNCHANGED <<clock, ck, order>>
  BY DEF Prune
<1>2. CASE proc' = [proc EXCEPT ![p] = Ends(p)]
  BY <1>1, <1>2, EndsKeeps
<1>3. CASE proc' = [proc EXCEPT ![p] = r]
  <2>1. \A y \in v : y \in Stamps /\ ck[y].done /\ Superseded(y, ck)
    BY VictimsAreSuperseded
  <2> HIDE DEF v
  <2>2. Became(r, "unlink", proc[p].x, v)
    <3>1. ProcessRecord(q) /\ Became(q, "unlink", proc[p].x, proc[p].victims)
      BY ProcessFacts, FieldLemma, FieldFacts DEF Keeps
    <3> HIDE DEF q
    <3>2. Became(r, q.pc, q.x, v)
      BY <3>1, FieldFacts
    <3> HIDE DEF r
    <3> QED BY <3>1, <3>2 DEF Became
  <2> HIDE DEF q, r
  <2>3. proc[p].x = 0 \/ proc[p].x \in Stamped(order)
    BY DEF KeepInv, ProcessInv
  <2>4. ProcessInv(r, ck, order) /\ r.x = proc[p].x
    BY <2>1, <2>2, <2>3 DEF Became, ProcessInv
  <2> QED BY <1>1, <1>3, <2>4, OnlyTheProcess
<1>4. proc' = [proc EXCEPT ![p] = Ends(p)] \/ proc' = [proc EXCEPT ![p] = r]
  BY DEF Prune, IInv, Shape
<1> QED BY <1>2, <1>3, <1>4

\* A victim loses a file, and has been superseded.
LEMMA KeepUnlink ==
  ASSUME IInv, KeepInv, NEW p \in Blenders, Unlink(p)
  PROVE  KeepInv'
<1>1. PICK x \in proc[p].victims :
        /\ \/ UNCHANGED ck
           \/ ck' = IF proc[p].half THEN [ck EXCEPT ![x].meta = "none"] ELSE [ck EXCEPT ![x].blend = FALSE]
        /\ proc' = [proc EXCEPT ![p] =
             IF ~@.half THEN [@ EXCEPT !.half = TRUE]
             ELSE IF @.victims = {x} THEN Ends(p)
             ELSE [@ EXCEPT !.half = FALSE, !.victims = proc[p].victims \ {x}]]
  BY DEF Unlink
<1>2. UNCHANGED <<clock, order>> /\ proc[p].pc = "unlink"
  BY DEF Unlink
<1>3. ProcessInv(proc[p], ck, order)
  BY DEF KeepInv
<1>4. x \in Stamps /\ ck[x].done /\ Superseded(x, ck)
  BY <1>3 DEF ProcessInv
<1>5. CheckpointInv(x, ck, order)
  BY <1>4 DEF KeepInv
<1> DEFINE half == [proc[p] EXCEPT !.half = TRUE]
           q == [proc[p] EXCEPT !.half = FALSE]
           next == [q EXCEPT !.victims = proc[p].victims \ {x}]
           r == IF ~proc[p].half THEN half ELSE IF proc[p].victims = {x} THEN Ends(p) ELSE next
<1>6. proc' = [proc EXCEPT ![p] = r]
  BY <1>1 DEF IInv, Shape
<1>7. \/ Became(r, "unlink", proc[p].x, proc[p].victims)
      \/ Became(r, "idle", 0, {})
      \/ Became(r, "unlink", proc[p].x, proc[p].victims \ {x})
  <2>1. Became(half, "unlink", proc[p].x, proc[p].victims)
    BY <1>2, ProcessFacts, FieldFacts DEF Became
  <2>2. Became(Ends(p), "idle", 0, {})
    BY ProcessFacts, EndsFacts
  <2>3. Became(next, "unlink", proc[p].x, proc[p].victims \ {x})
    <3>1. ProcessRecord(q) /\ Became(q, "unlink", proc[p].x, proc[p].victims)
      BY <1>2, ProcessFacts, FieldLemma, FieldFacts DEF Keeps
    <3> HIDE DEF q
    <3>2. Became(next, q.pc, q.x, proc[p].victims \ {x})
      BY <3>1, FieldFacts
    <3> HIDE DEF next
    <3> QED BY <3>1, <3>2 DEF Became
  <2> HIDE DEF half, next
  <2> QED BY <2>1, <2>2, <2>3
<1> HIDE DEF half, q, next, r
<1>8. /\ r.pc \in {"idle", "unlink"} /\ (r.x = 0 \/ r.x = proc[p].x)
      /\ \A v \in r.victims : v \in proc[p].victims
  BY <1>7 DEF Became
<1>9. ASSUME NEW c, Follows(ck, c) PROVE ProcessInv(r, c, order)
  <2>1. ASSUME NEW v \in r.victims PROVE v \in Stamps /\ c[v].done /\ Superseded(v, c)
    <3>1. v \in Stamps /\ ck[v].done /\ Superseded(v, ck)
      BY <1>3, <1>8 DEF ProcessInv
    <3> QED BY <1>9, <3>1, SupersededStays DEF Follows
  <2> QED BY <1>3, <1>8, <2>1 DEF ProcessInv
<1>10. CASE UNCHANGED ck
  <2>1. Follows(ck, ck)
    BY DEF Follows
  <2> QED BY <1>2, <1>6, <1>8, <1>9, <1>10, <2>1, OnlyTheProcess
<1>11. ASSUME NEW n, ck' = [ck EXCEPT ![x] = n], n.dir = ck[x].dir, n.done
       PROVE  KeepInv'
  <2>1. Follows(ck, ck') /\ \A y \in Stamps : CheckpointInv(y, ck', order)
    BY <1>4, <1>5, <1>11, CheckpointsStay DEF CheckpointInv
  <2> QED BY <1>2, <1>4, <1>6, <1>8, <1>9, <1>11, <2>1, ProcessesStay
<1>12. CASE ck' = [ck EXCEPT ![x].meta = "none"]
  <2> DEFINE n == [ck[x] EXCEPT !.meta = "none"]
  <2>1. ck' = [ck EXCEPT ![x] = n] /\ n.dir = ck[x].dir /\ n.done
    BY <1>4, <1>12 DEF IInv, Shape, CheckpointRecords
  <2> HIDE DEF n
  <2> QED BY <1>11, <2>1
<1>13. CASE ck' = [ck EXCEPT ![x].blend = FALSE]
  <2> DEFINE n == [ck[x] EXCEPT !.blend = FALSE]
  <2>1. ck' = [ck EXCEPT ![x] = n] /\ n.dir = ck[x].dir /\ n.done
    BY <1>4, <1>13 DEF IInv, Shape, CheckpointRecords
  <2> HIDE DEF n
  <2> QED BY <1>11, <2>1
<1> QED BY <1>1, <1>10, <1>12, <1>13

LEMMA KeepStep == IInv /\ KeepInv /\ [Next]_vars => KeepInv'
<1> SUFFICES ASSUME IInv, KeepInv, [Next]_vars PROVE KeepInv'
  OBVIOUS
<1>1. CASE UNCHANGED vars
  BY <1>1 DEF vars, KeepInv, OneSaveEach
<1>2. CASE ClockBack
  BY <1>2, KeepClockBack
<1>3. ASSUME NEW p \in Blenders,
             \/ SaveFile(p) \/ SaveStarts(p) \/ SaveBlend(p)
             \/ WriteMeta(p) \/ Prune(p) \/ Unlink(p)
      PROVE  KeepInv'
  BY <1>3, KeepSaveFile, KeepSaveStarts, KeepSaveBlend, KeepWriteMeta, KeepPrune, KeepUnlink
<1>4. ASSUME NEW p \in Blenders, NEW s \in Scenes, Edit(p, s) \/ Crash(p, s) PROVE KeepInv'
  BY <1>4, KeepEdit, KeepCrash
<1>5. ASSUME NEW p \in Blenders, NEW x \in Stamps, Restore(p, x) PROVE KeepInv'
  BY <1>5, KeepRestore
<1> QED BY <1>1, <1>2, <1>3, <1>4, <1>5 DEF Next

\* Until the clock is set back, the order of the stamps is that of the saves.
LEMMA AgesAreStamps ==
  ASSUME KeepInv, ~clock.back, NEW x \in Stamps, ck[x].done
  PROVE  Age(x) \in Nat /\ x = MaxSaves + Age(x)
<1>1. order \in Seq(Stamps) /\ \A i \in 1 .. Len(order) : order[i] = MaxSaves + i
  BY DEF KeepInv, ClockInv
<1>2. DOMAIN order = 1 .. Len(order) /\ Len(order) \in Nat
  BY <1>1
<1>3. \E i \in DOMAIN order : order[i] = x
  BY <1>2 DEF KeepInv, CheckpointInv, Stamped
<1>4. Age(x) \in DOMAIN order /\ order[Age(x)] = x
  BY <1>3 DEF Age
<1> QED BY <1>1, <1>2, <1>4

LEMMA KeepInvKeeps == KeepInv => NewestAreListed
<1> SUFFICES ASSUME KeepInv, ~clock.back, NEW x \in Stamps, ck[x].done,
                    Cardinality({y \in Stamps : /\ ck[y].dir = ck[x].dir /\ ck[y].done
                                                /\ Age(y) > Age(x)}) < Keep
             PROVE  ck[x].blend /\ ck[x].meta = "full"
  BY DEF NewestAreListed
<1>1. ASSUME NEW y \in Stamps, ck[y].done PROVE Age(y) > Age(x) <=> y > x
  <2>1. Age(x) \in Nat /\ x = MaxSaves + Age(x) /\ Age(y) \in Nat /\ y = MaxSaves + Age(y)
    BY <1>1, AgesAreStamps
  <2>2. MaxSaves \in Nat
    BY CheckpointsAssumption
  <2> QED BY <2>1, <2>2
<1>2. Newer(x, ck) = {y \in Stamps : /\ ck[y].dir = ck[x].dir /\ ck[y].done
                                     /\ Age(y) > Age(x)}
  BY <1>1 DEF Newer
<1>3. Cardinality(Newer(x, ck)) \in Nat /\ Keep \in Nat
  BY NewerIsFinite, CheckpointsAssumption
<1>4. ~Superseded(x, ck)
  BY <1>2, <1>3 DEF Superseded
<1> QED BY <1>4 DEF KeepInv, CheckpointInv

LEMMA KeepInvTypes == IInv /\ KeepInv => TypeOK
<1> SUFFICES ASSUME IInv, KeepInv PROVE TypeOK
  OBVIOUS
<1>1. clock.now \in Stamps \union {2 * MaxSaves + 1} /\ clock.back \in BOOLEAN
  <2>1. /\ clock.now \in Nat \ {0} /\ clock.back \in BOOLEAN /\ MaxSaves \in Nat
        /\ Len(order) \in Nat /\ Len(order) <= MaxSaves
    BY CheckpointsAssumption DEF KeepInv, ClockInv
  <2>2. clock.now <= 2 * MaxSaves + 1
    BY <2>1 DEF KeepInv, ClockInv
  <2> QED BY <2>1, <2>2 DEF Stamps
<1>2. Stamped(order) = ToSet(order) /\ IsInjective(order) /\ Len(order) <= MaxSaves
  <2>1. order \in Seq(Stamps)
    BY DEF KeepInv, ClockInv
  <2>2. DOMAIN order = 1 .. Len(order)
    BY <2>1
  <2> QED BY <2>2 DEF KeepInv, ClockInv, Stamped, ToSet, IsInjective
<1>3. ASSUME NEW x \in Stamps
      PROVE  /\ ck[x].dir \in Stamps \union {Project} /\ ck[x].blend \in BOOLEAN
             /\ ck[x].meta \in {"none", "part", "full"}
             /\ {ck[x].scene, ck[x].saved} \subseteq Scenes
             /\ ck[x].done => x \in ToSet(order)
  <2>1. ck[x] \in CheckpointRecords
    BY DEF IInv, Shape
  <2>2. ck[x].done => x \in ToSet(order)
    BY <1>2 DEF KeepInv, CheckpointInv
  <2> QED BY <2>1, <2>2 DEF CheckpointRecords, Files
<1>4. ASSUME NEW p \in Blenders
      PROVE  /\ proc[p].open \in Stamps \union {Project} /\ proc[p].scene \in Scenes
             /\ proc[p].pc \in {"idle", "blend", "meta", "writing", "prune", "unlink"}
             /\ \A q \in Blenders \ {p} : proc[p].x # 0 => proc[q].x # proc[p].x
             /\ proc[p].victims \subseteq {x \in Stamps : ck[x].done}
  <2>1. proc[p].open \in Stamps \union {Project} /\ proc[p].scene \in Scenes
    BY DEF IInv, Shape, Files
  <2>2. ProcessInv(proc[p], ck, order)
    BY DEF KeepInv
  <2> QED BY <2>1, <2>2 DEF ProcessInv, KeepInv, OneSaveEach
<1> QED BY <1>1, <1>2, <1>3, <1>4 DEF TypeOK

\* Checkpoints, processes and the clock are of their types; no two saves
\* have one stamp, nor two processes one save, and prune is only ever about
\* to remove completed checkpoints (Checkpoints!TypeOK).
THEOREM TypeCorrect == Spec => []TypeOK
<1> QED BY InitIInv, Step, KeepInit, KeepStep, KeepInvTypes, PTL DEF Spec

\* The newest Keep completed checkpoints of a file can be restored, whatever
\* is saved, pruned, crashes or fails meanwhile, as long as the clock is not
\* set back (Checkpoints!NewestAreListed).
THEOREM NewestStayListed == Spec => []NewestAreListed
<1> QED BY InitIInv, Step, KeepInit, KeepStep, KeepInvKeeps, PTL DEF Spec
=============================================================================
