--------------------------- MODULE FreshnessProofs ---------------------------
(***************************************************************************)
(* Proofs about how what the clients see of the scene stays fresh: the     *)
(* cache of the MCP server (SnapshotCache) and the add-on's notifier of    *)
(* changes (SceneNotifier).                                                *)
(*                                                                         *)
(* SnapshotCache: its type invariant, that a read sees the mutations of    *)
(* this server that were complete when it started, and that a hit is       *)
(* younger than the time to live.                                          *)
(*                                                                         *)
(* SceneNotifier, for any set of digests, any debounce interval and any    *)
(* number of File > Opens and re-registrations: its types, that a pending  *)
(* flush has its timer, and that broadcasts are spaced.                    *)
(***************************************************************************)
EXTENDS SnapshotCache, SceneNotifier, TLAPS

-----------------------------------------------------------------------------
(* The cache of the MCP server.                                             *)

\* A call is in at most one place on its way to Blender and back, and there
\* once: resolving its future twice, or resuming it twice, cannot happen.
OnceInv ==
  /\ \A i, j \in DOMAIN queue : queue[i] = queue[j] => i = j
  /\ \A i, j \in DOMAIN wire : wire[i].of = wire[j].of /\ wire[i].of # Changed => i = j
  /\ \A i, j \in DOMAIN ready : ready[i] = ready[j] => i = j
  /\ \A i \in DOMAIN queue, j \in DOMAIN wire : queue[i] # wire[j].of
  /\ \A i \in DOMAIN queue, j \in DOMAIN ready : queue[i] # ready[j]
  /\ \A i \in DOMAIN wire, j \in DOMAIN ready : wire[i].of # ready[j]
  /\ \A i \in DOMAIN queue : pc[queue[i]] \in {"sent", "done"}
  /\ \A i \in DOMAIN wire : wire[i].of # Changed => pc[wire[i].of] \in {"sent", "done"}
  /\ \A i \in DOMAIN ready : pc[ready[i]] = "sent"

\* Responses come back, and calls resume, in the order of the versions they
\* carry: what has been written is not newer than any answer still on its way.
VersionsInv ==
  /\ written <= scene
  /\ \A k \in Calls : atStart[k].written <= written
  /\ \A i \in DOMAIN wire : written <= wire[i].version /\ wire[i].version <= scene
  /\ \A i, j \in DOMAIN wire : i < j => wire[i].version <= wire[j].version
  /\ \A i \in DOMAIN ready :
       written <= reply[ready[i]].version /\ reply[ready[i]].version <= scene
  /\ \A i, j \in DOMAIN ready :
       i < j => reply[ready[i]].version <= reply[ready[j]].version
  /\ \A i \in DOMAIN ready, j \in DOMAIN wire :
       reply[ready[i]].version <= wire[j].version

\* An entry of the current epoch is as new as what has been written.
EntryInv ==
  /\ entry.epoch <= epoch
  /\ entry.epoch = epoch => written <= entry.version
  /\ entry.expires <= entry.at + TTL

\* A response was computed after its command was sent.
TimesInv ==
  /\ \A k \in Reads : sentAt[k] <= clock
  /\ \A i \in DOMAIN wire : wire[i].of \in Reads => sentAt[wire[i].of] <= wire[i].at
  /\ \A i \in DOMAIN ready : ready[i] \in Reads => sentAt[ready[i]] <= reply[ready[i]].at

\* Only a response makes a reply of a call.
NoReplyInv ==
  \A k \in Calls :
    \/ pc[k] = "idle"
    \/ pc[k] = "sent" /\ \A i \in DOMAIN ready : ready[i] # k
    => ~reply[k].ok

IInv ==
  /\ TypeOK /\ OnceInv /\ VersionsInv /\ EntryInv /\ TimesInv /\ NoReplyInv
  /\ ReadsOwnWrites /\ HitsAreRecent

-----------------------------------------------------------------------------
(* Sequences, by their elements.                                            *)

LEMMA TailElements ==
  ASSUME NEW S, NEW q \in Seq(S), q # <<>>
  PROVE  /\ Tail(q) \in Seq(S)
         /\ Head(q) \in S /\ 1 \in DOMAIN q /\ Head(q) = q[1]
         /\ \A i \in DOMAIN q : i \in Nat \ {0} /\ q[i] \in S
         /\ \A i \in DOMAIN Tail(q) :
              i \in Nat \ {0} /\ i + 1 \in DOMAIN q /\ Tail(q)[i] = q[i + 1]
         /\ \A i \in DOMAIN q :
              q[i] = Head(q) \/ \E j \in DOMAIN Tail(q) : Tail(q)[j] = q[i]
<1> DEFINE r == Tail(q)
<1>1. /\ r \in Seq(S) /\ Len(q) \in Nat \ {0} /\ Len(r) = Len(q) - 1
      /\ \A i \in 1 .. Len(r) : r[i] = q[i + 1]
      /\ Head(q) = q[1]
  OBVIOUS
<1>2. DOMAIN r = 1 .. (Len(q) - 1) /\ DOMAIN q = 1 .. Len(q)
  BY <1>1
<1>3. \A i \in DOMAIN q : q[i] \in S
  BY <1>2
<1> HIDE DEF r
<1>4. \A i \in DOMAIN r : i \in Nat \ {0} /\ i + 1 \in DOMAIN q /\ r[i] = q[i + 1]
  BY <1>1, <1>2
<1>5. 1 \in DOMAIN q /\ \A i \in DOMAIN q : i \in Nat \ {0}
  BY <1>1, <1>2
<1>6. \A i \in DOMAIN q : q[i] = Head(q) \/ \E j \in DOMAIN r : r[j] = q[i]
  <2> SUFFICES ASSUME NEW i \in DOMAIN q, i # 1
               PROVE  \E j \in DOMAIN r : r[j] = q[i]
    BY <1>1
  <2>1. i - 1 \in DOMAIN r /\ r[i - 1] = q[i]
    BY <1>1, <1>2
  <2> QED
    BY <2>1
<1> QED
  BY <1>1, <1>3, <1>4, <1>5, <1>6 DEF r

LEMMA AppendElements ==
  ASSUME NEW S, NEW q \in Seq(S), NEW e \in S
  PROVE  /\ Append(q, e) \in Seq(S)
         /\ \A i \in DOMAIN q : i \in Nat \ {0} /\ i <= Len(q) /\ q[i] \in S
         /\ Len(q) \in Nat
         /\ \A i \in DOMAIN Append(q, e) :
              \/ i \in DOMAIN q /\ Append(q, e)[i] = q[i]
              \/ i = Len(q) + 1 /\ Append(q, e)[i] = e
<1> DEFINE r == Append(q, e)
<1>1. /\ r \in Seq(S) /\ Len(r) = Len(q) + 1 /\ Len(q) \in Nat
      /\ \A i \in 1 .. Len(q) : r[i] = q[i] /\ q[i] \in S
      /\ r[Len(q) + 1] = e
  OBVIOUS
<1>2. DOMAIN r = 1 .. (Len(q) + 1) /\ DOMAIN q = 1 .. Len(q)
  BY <1>1
<1> HIDE DEF r
<1>3. \A i \in DOMAIN r : \/ i \in DOMAIN q /\ r[i] = q[i]
                          \/ i = Len(q) + 1 /\ r[i] = e
  BY <1>1, <1>2
<1> QED
  BY <1>1, <1>2, <1>3 DEF r

-----------------------------------------------------------------------------
LEMMA InitIInv == Init => IInv
<1> SUFFICES ASSUME Init PROVE IInv
  OBVIOUS
<1> USE CacheAssumption
<1>1. DOMAIN queue = {} /\ DOMAIN wire = {} /\ DOMAIN ready = {}
  BY DEF Init
<1>2. 0 \in Versions /\ 0 \in Times
  BY DEF Versions, Times
<1>3. TypeOK
  <2>1. NoReply \in Replies /\ NoEntry \in Entries
    BY <1>2 DEF NoReply, Replies, NoEntry, Entries
  <2>2. [written |-> 0, told |-> 0] \in [written : Versions, told : Versions]
    BY <1>2
  <2>3. <<>> \in Seq(Calls) /\ <<>> \in Seq(Frames)
    OBVIOUS
  <2> QED
    BY <1>2, <2>1, <2>2, <2>3 DEF Init, TypeOK
<1>4. OnceInv /\ VersionsInv /\ EntryInv /\ TimesInv
  BY <1>1 DEF Init, OnceInv, VersionsInv, EntryInv, TimesInv, NoEntry, Calls
<1>5. NoReplyInv /\ ReadsOwnWrites /\ HitsAreRecent
  BY DEF Init, NoReplyInv, ReadsOwnWrites, HitsAreRecent, NoReply, Answered, Calls
<1> QED
  BY <1>3, <1>4, <1>5 DEF IInv

\* The call's own bookkeeping: what was written when it began.
LEMMA HitIInv ==
  ASSUME IInv, NEW k \in Calls, Hit(k)
  PROVE  IInv'
<1> USE CacheAssumption
<1>1. /\ k \in Reads /\ pc[k] = "idle" /\ entry.epoch = epoch /\ clock < entry.expires
      /\ pc' = [pc EXCEPT ![k] = "hit"]
      /\ sentAt' = [sentAt EXCEPT ![k] = clock]
      /\ reply' = [reply EXCEPT ![k] = [version |-> entry.version, ok |-> TRUE, at |-> entry.at]]
      /\ atStart' = [atStart EXCEPT ![k] = [written |-> written, told |-> told]]
      /\ UNCHANGED <<scene, edited, queue, wire, ready, clock, written, told, epoch, entry>>
  BY DEF Hit, Begins, Fresh, cache, IInv, TypeOK, Entries, Times
<1>2. TypeOK'
  <2>1. /\ [version |-> entry.version, ok |-> TRUE, at |-> entry.at] \in Replies
        /\ [written |-> written, told |-> told] \in [written : Versions, told : Versions]
    BY DEF IInv, TypeOK, Entries, Replies
  <2> QED
    BY <1>1, <2>1 DEF IInv, TypeOK
<1>3. /\ \A i \in DOMAIN queue : queue[i] # k
      /\ \A i \in DOMAIN wire : wire[i].of # k
      /\ \A i \in DOMAIN ready : ready[i] # k
  BY <1>1 DEF IInv, OnceInv
<1>4. OnceInv'
  BY <1>1, <1>3 DEF IInv, TypeOK, OnceInv
<1>5. /\ reply'[k].version = entry.version /\ reply'[k].at = entry.at
      /\ \A j \in Calls \ {k} : reply'[j] = reply[j]
      /\ atStart'[k].written = written
      /\ \A j \in Calls \ {k} : atStart'[j] = atStart[j]
  BY <1>1 DEF IInv, TypeOK
<1>6. VersionsInv'
  BY <1>1, <1>3, <1>5 DEF IInv, TypeOK, VersionsInv, Versions
<1>7. EntryInv'
  BY <1>1 DEF IInv, EntryInv
<1>8. TimesInv'
  BY <1>1, <1>3, <1>5 DEF IInv, TypeOK, TimesInv, Times
<1>9. NoReplyInv'
  BY <1>1, <1>5 DEF IInv, TypeOK, NoReplyInv
<1>10. ReadsOwnWrites'
  BY <1>1, <1>5 DEF IInv, TypeOK, ReadsOwnWrites, Answered, EntryInv, Calls
<1>11. HitsAreRecent'
  BY <1>1, <1>5 DEF IInv, TypeOK, HitsAreRecent, EntryInv, Entries, Times, Calls
<1> QED
  BY <1>2, <1>4, <1>6, <1>7, <1>8, <1>9, <1>10, <1>11 DEF IInv

LEMMA SendIInv ==
  ASSUME IInv, NEW k \in Calls, Send(k)
  PROVE  IInv'
<1> USE CacheAssumption
<1>1. /\ pc[k] = "idle" /\ queue' = Append(queue, k)
      /\ pc' = [pc EXCEPT ![k] = "sent"]
      /\ sentAt' = IF k \in Reads THEN [sentAt EXCEPT ![k] = clock] ELSE sentAt
      /\ atStart' = [atStart EXCEPT ![k] = [written |-> written, told |-> told]]
      /\ UNCHANGED <<scene, edited, wire, ready, reply, clock, written, told, epoch, entry>>
  BY DEF Send, Begins, cache
<1>2. /\ queue \in Seq(Calls) /\ queue' \in Seq(Calls)
      /\ \A i \in DOMAIN queue : i \in Nat \ {0} /\ i <= Len(queue) /\ queue[i] \in Calls
      /\ Len(queue) \in Nat
      /\ \A i \in DOMAIN queue' :
           \/ i \in DOMAIN queue /\ queue'[i] = queue[i]
           \/ i = Len(queue) + 1 /\ queue'[i] = k
  BY <1>1, AppendElements DEF IInv, TypeOK
<1>3. TypeOK'
  <2>1. [written |-> written, told |-> told] \in [written : Versions, told : Versions]
    BY DEF IInv, TypeOK
  <2>2. sentAt' \in [Reads -> Times]
    BY <1>1 DEF IInv, TypeOK
  <2> QED
    BY <1>1, <1>2, <2>1, <2>2 DEF IInv, TypeOK
<1>4. /\ \A i \in DOMAIN queue : queue[i] # k
      /\ \A i \in DOMAIN wire : wire[i].of # k
      /\ \A i \in DOMAIN ready : ready[i] # k
  BY <1>1 DEF IInv, OnceInv
<1>5. OnceInv'
  BY <1>1, <1>2, <1>4 DEF IInv, TypeOK, OnceInv
<1>6. /\ atStart'[k].written = written
      /\ \A j \in Calls \ {k} : atStart'[j] = atStart[j]
  BY <1>1 DEF IInv, TypeOK
<1>7. VersionsInv'
  BY <1>1, <1>6 DEF IInv, TypeOK, VersionsInv, Versions
<1>8. EntryInv'
  BY <1>1 DEF IInv, EntryInv
<1>9. TimesInv'
  BY <1>1, <1>4 DEF IInv, TypeOK, TimesInv, Times
<1>10. NoReplyInv'
  BY <1>1 DEF IInv, TypeOK, NoReplyInv
<1>11. ReadsOwnWrites'
  BY <1>1, <1>6 DEF IInv, TypeOK, ReadsOwnWrites, Answered, Calls
<1>12. HitsAreRecent'
  BY <1>1 DEF IInv, TypeOK, HitsAreRecent, Calls
<1> QED
  BY <1>3, <1>5, <1>7, <1>8, <1>9, <1>10, <1>11, <1>12 DEF IInv

LEMMA GiveUpIInv ==
  ASSUME IInv, NEW k \in Calls, GiveUp(k)
  PROVE  IInv'
<1>1. /\ pc[k] = "sent" /\ \A i \in DOMAIN ready : ready[i] # k
      /\ pc' = [pc EXCEPT ![k] = "done"]
      /\ UNCHANGED <<scene, edited, queue, wire, ready, sentAt, reply, epoch, entry,
                     clock, written, told, atStart>>
  BY DEF GiveUp, world, cache, history
<1>2. TypeOK'
  BY <1>1 DEF IInv, TypeOK
<1>3. OnceInv'
  BY <1>1 DEF IInv, TypeOK, OnceInv
<1>4. VersionsInv' /\ EntryInv' /\ TimesInv'
  BY <1>1 DEF IInv, VersionsInv, EntryInv, TimesInv
<1>5. ~reply[k].ok
  BY <1>1 DEF IInv, NoReplyInv
<1>6. NoReplyInv'
  BY <1>1 DEF IInv, TypeOK, NoReplyInv
<1>7. ReadsOwnWrites'
  BY <1>1, <1>5 DEF IInv, TypeOK, ReadsOwnWrites, Answered, Calls
<1>8. HitsAreRecent'
  BY <1>1 DEF IInv, TypeOK, HitsAreRecent, Calls
<1> QED
  BY <1>2, <1>3, <1>4, <1>6, <1>7, <1>8 DEF IInv
LEMMA ResumeIInv ==
  ASSUME IInv, Resume
  PROVE  IInv'
<1> USE CacheAssumption
<1>1. ready # <<>> /\ ready \in Seq(Calls)
  BY DEF Resume, IInv, TypeOK
<1>2. PICK k \in Calls : k = Head(ready)
  BY <1>1, TailElements
<1>3. /\ pc' = [pc EXCEPT ![k] = "done"]
      /\ ready' = Tail(ready)
      /\ UNCHANGED <<scene, edited, queue, wire, sentAt, reply, clock, told, atStart>>
  BY <1>2 DEF Resume, world
<1>4. \/ /\ k \in Reads
         /\ entry' = IF reply[k].ok THEN Stored(k) ELSE entry
         /\ UNCHANGED <<epoch, written>>
      \/ /\ k \notin Reads
         /\ epoch' = IF reply[k].ok THEN epoch + 1 ELSE epoch
         /\ written' = IF reply[k].ok THEN Newer(written, reply[k].version) ELSE written
         /\ UNCHANGED entry
  BY <1>2 DEF Resume, Bump
<1>5. /\ ready' \in Seq(Calls)
      /\ 1 \in DOMAIN ready /\ ready[1] = k
      /\ \A i \in DOMAIN ready : i \in Nat \ {0} /\ ready[i] \in Calls
      /\ \A i \in DOMAIN ready' :
           i \in Nat \ {0} /\ i + 1 \in DOMAIN ready /\ ready'[i] = ready[i + 1]
  BY <1>1, <1>2, <1>3, TailElements
<1>6. /\ reply[k] \in Replies /\ reply[k].version \in Versions
      /\ reply[k].ok \in BOOLEAN /\ reply[k].at \in Times
      /\ written <= reply[k].version /\ reply[k].version <= scene
  BY <1>5 DEF IInv, TypeOK, Replies, VersionsInv
<1>7. \A i \in DOMAIN ready' :
        ready'[i] # k /\ reply[k].version <= reply[ready'[i]].version
  BY <1>5 DEF IInv, OnceInv, VersionsInv
\* What has been written stays below the answers that are still to be read.
<1>8. /\ written' \in Versions /\ written <= written' /\ written' <= scene
      /\ \A i \in DOMAIN ready' : written' <= reply[ready'[i]].version
      /\ \A i \in DOMAIN wire : written' <= wire[i].version
  <2>1. written' \in {written, reply[k].version}
    BY <1>4 DEF Newer
  <2>2. \A i \in DOMAIN wire : written <= wire[i].version /\ reply[k].version <= wire[i].version
    BY <1>5 DEF IInv, VersionsInv
  <2>3. \A i \in DOMAIN ready' :
          written <= reply[ready'[i]].version /\ reply[k].version <= reply[ready'[i]].version
    BY <1>5, <1>7 DEF IInv, VersionsInv
  <2>4. written \in Versions /\ written <= scene
    BY DEF IInv, TypeOK, VersionsInv
  <2>5. written <= written
    BY <2>4 DEF Versions
  <2> QED
    BY <1>6, <2>1, <2>2, <2>3, <2>4, <2>5
<1>9. entry' \in Entries /\ epoch' \in Nat /\ EntryInv'
  <2>1. CASE k \in Reads /\ reply[k].ok
    <3>1. /\ entry' = [epoch |-> epoch, expires |-> sentAt[k] + TTL,
                       version |-> reply[k].version, at |-> reply[k].at]
          /\ UNCHANGED <<epoch, written>>
      BY <1>4, <2>1 DEF Stored
    <3>2. sentAt[k] \in Nat /\ sentAt[k] <= reply[k].at
      BY <1>5, <2>1 DEF IInv, TypeOK, TimesInv, Times
    <3> QED
      BY <1>6, <3>1, <3>2 DEF IInv, TypeOK, Entries, EntryInv, Times
  <2>2. CASE ~reply[k].ok
    BY <1>4, <2>2 DEF IInv, TypeOK, EntryInv
  <2>3. CASE k \notin Reads /\ reply[k].ok
    <3>1. entry' = entry /\ epoch' = epoch + 1
      BY <1>4, <2>3
    <3> QED
      BY <3>1 DEF IInv, TypeOK, EntryInv, Entries
  <2> QED
    BY <2>1, <2>2, <2>3
<1>10. TypeOK'
  BY <1>3, <1>5, <1>8, <1>9 DEF IInv, TypeOK
<1>11. OnceInv'
  BY <1>3, <1>5, <1>7 DEF IInv, TypeOK, OnceInv
<1>12. VersionsInv'
  <2>1. \A j \in Calls : (atStart[j].written <= written)'
    BY <1>3, <1>8 DEF IInv, TypeOK, VersionsInv, Versions
  <2>2. \A i \in DOMAIN wire' : (written <= wire[i].version /\ wire[i].version <= scene)'
    BY <1>3, <1>8 DEF IInv, VersionsInv
  <2>3. \A i \in DOMAIN ready' :
          (written <= reply[ready[i]].version /\ reply[ready[i]].version <= scene)'
    BY <1>3, <1>5, <1>8 DEF IInv, VersionsInv
  <2>4. \A i, j \in DOMAIN ready' :
          i < j => (reply[ready[i]].version <= reply[ready[j]].version)'
    <3>1. \A i, j \in DOMAIN ready' : i < j => i + 1 < j + 1
      BY <1>5
    <3> QED
      BY <1>3, <1>5, <3>1 DEF IInv, VersionsInv
  <2>5. \A i \in DOMAIN ready', j \in DOMAIN wire' :
          (reply[ready[i]].version <= wire[j].version)'
    BY <1>3, <1>5 DEF IInv, VersionsInv
  <2> QED
    BY <1>3, <1>8, <2>1, <2>2, <2>3, <2>4, <2>5 DEF IInv, VersionsInv
<1>13. TimesInv'
  BY <1>3, <1>5 DEF IInv, TimesInv
<1>14. NoReplyInv'
  <2>1. \A i \in DOMAIN ready : ready[i] = k \/ \E j \in DOMAIN ready' : ready'[j] = ready[i]
    BY <1>1, <1>2, <1>3, TailElements
  <2> QED
    BY <1>3, <2>1 DEF IInv, TypeOK, NoReplyInv
<1>15. ReadsOwnWrites'
  <2>1. atStart[k].written <= reply[k].version
    BY <1>6 DEF IInv, TypeOK, VersionsInv, Versions
  <2> QED
    BY <1>3, <2>1 DEF IInv, TypeOK, ReadsOwnWrites, Answered, Calls
<1>16. HitsAreRecent'
  BY <1>3 DEF IInv, TypeOK, HitsAreRecent, Calls
<1> QED
  BY <1>9, <1>10, <1>11, <1>12, <1>13, <1>14, <1>15, <1>16 DEF IInv

LEMMA ReceiveIInv ==
  ASSUME IInv, Receive
  PROVE  IInv'
<1> USE CacheAssumption
<1>1. wire # <<>> /\ wire \in Seq(Frames) /\ ready \in Seq(Calls)
  BY DEF Receive, IInv, TypeOK
<1>2. PICK f \in Frames : f = Head(wire)
  BY <1>1, TailElements
<1>3. /\ f.of \in Calls \union {Changed} /\ f.version \in Versions
      /\ f.ok \in BOOLEAN /\ f.at \in Times
  BY DEF Frames
<1>4. /\ wire' = Tail(wire)
      /\ UNCHANGED <<scene, edited, queue, pc, sentAt, entry, clock, written, atStart>>
  BY DEF Receive
<1>5. \/ f.of = Changed /\ epoch' = epoch + 1 /\ told' = f.version /\ UNCHANGED <<ready, reply>>
      \/ /\ f.of # Changed /\ pc[f.of] = "sent"
         /\ ready' = Append(ready, f.of)
         /\ reply' = [reply EXCEPT ![f.of] = [version |-> f.version, ok |-> f.ok, at |-> f.at]]
         /\ UNCHANGED <<epoch, told>>
      \/ f.of # Changed /\ pc[f.of] # "sent" /\ UNCHANGED <<ready, reply, epoch, told>>
  BY <1>2 DEF Receive, Woken
<1>6. /\ wire' \in Seq(Frames)
      /\ 1 \in DOMAIN wire /\ wire[1] = f
      /\ \A i \in DOMAIN wire : i \in Nat \ {0} /\ wire[i] \in Frames
      /\ \A i \in DOMAIN wire' :
           i \in Nat \ {0} /\ i + 1 \in DOMAIN wire /\ wire'[i] = wire[i + 1]
  BY <1>1, <1>2, <1>4, TailElements
<1>7. /\ written <= f.version /\ f.version <= scene
      /\ \A i \in DOMAIN wire' : f.version <= wire'[i].version
      /\ \A i \in DOMAIN ready : reply[ready[i]].version <= f.version
  BY <1>6 DEF IInv, VersionsInv
<1>8. EntryInv'
  BY <1>4, <1>5 DEF IInv, TypeOK, EntryInv, Entries
<1>9. HitsAreRecent' /\ ReadsOwnWrites'
  BY <1>4, <1>5 DEF IInv, TypeOK, HitsAreRecent, ReadsOwnWrites, Answered, Calls
<1>10. CASE ~(f.of # Changed /\ pc[f.of] = "sent")
  <2>1. UNCHANGED <<ready, reply>>
    BY <1>5, <1>10
  <2>2. TypeOK'
    BY <1>3, <1>4, <1>5, <1>6, <1>10 DEF IInv, TypeOK
  <2>3. OnceInv'
    BY <1>4, <1>6, <2>1 DEF IInv, OnceInv
  <2>4. VersionsInv'
    BY <1>4, <1>6, <2>1 DEF IInv, VersionsInv
  <2>5. TimesInv' /\ NoReplyInv'
    BY <1>4, <1>6, <2>1 DEF IInv, TimesInv, NoReplyInv
  <2> QED
    BY <1>8, <1>9, <2>2, <2>3, <2>4, <2>5 DEF IInv
<1>11. CASE f.of # Changed /\ pc[f.of] = "sent"
  <2>1. PICK k \in Calls : k = f.of
    BY <1>3, <1>11
  <2>2. /\ ready' = Append(ready, k)
        /\ reply' = [reply EXCEPT ![k] = [version |-> f.version, ok |-> f.ok, at |-> f.at]]
        /\ UNCHANGED <<epoch, told>>
    BY <1>5, <1>11, <2>1
  <2>3. /\ ready' \in Seq(Calls)
        /\ \A i \in DOMAIN ready : i \in Nat \ {0} /\ i <= Len(ready) /\ ready[i] \in Calls
        /\ Len(ready) \in Nat
        /\ \A i \in DOMAIN ready' :
             \/ i \in DOMAIN ready /\ ready'[i] = ready[i]
             \/ i = Len(ready) + 1 /\ ready'[i] = k
    BY <1>1, <2>2, AppendElements
  <2>4. /\ \A i \in DOMAIN ready : ready[i] # k
        /\ \A i \in DOMAIN wire' : wire'[i].of # k
        /\ \A i \in DOMAIN queue : queue[i] # k
    <3>1. \A i \in DOMAIN ready : ready[i] # k
      BY <1>6, <2>1 DEF IInv, OnceInv
    <3>2. \A i \in DOMAIN queue : queue[i] # k
      BY <1>6, <2>1 DEF IInv, OnceInv
    <3>3. \A i \in DOMAIN wire' : wire'[i].of # k
      BY <1>6, <1>11, <2>1 DEF IInv, OnceInv
    <3> QED
      BY <3>1, <3>2, <3>3
  <2>5. /\ [version |-> f.version, ok |-> f.ok, at |-> f.at] \in Replies
        /\ reply' \in [Calls -> Replies]
        /\ reply'[k].version = f.version /\ reply'[k].at = f.at
        /\ \A j \in Calls \ {k} : reply'[j] = reply[j]
    BY <1>3, <2>2 DEF IInv, TypeOK, Replies
  <2>6. TypeOK'
    BY <1>4, <1>6, <2>2, <2>3, <2>5 DEF IInv, TypeOK
  <2>7. OnceInv'
    <3>1. \A i, j \in DOMAIN ready' : (ready[i] = ready[j])' => i = j
      BY <2>3, <2>4 DEF IInv, OnceInv
    <3>2. /\ \A i \in DOMAIN queue', j \in DOMAIN ready' : (queue[i] # ready[j])'
          /\ \A i \in DOMAIN wire', j \in DOMAIN ready' : (wire[i].of # ready[j])'
      BY <1>4, <1>6, <2>3, <2>4 DEF IInv, OnceInv
    <3>3. \A i \in DOMAIN ready' : (pc[ready[i]] = "sent")'
      BY <1>4, <1>11, <2>1, <2>3 DEF IInv, OnceInv
    <3>4. \A i, j \in DOMAIN wire' :
            (wire[i].of = wire[j].of /\ wire[i].of # Changed)' => i = j
      <4>1. \A i, j \in DOMAIN wire' : i + 1 = j + 1 => i = j
        BY <1>6
      <4> QED
        BY <1>6, <4>1 DEF IInv, OnceInv
    <3>5. /\ \A i, j \in DOMAIN queue' : (queue[i] = queue[j])' => i = j
          /\ \A i \in DOMAIN queue', j \in DOMAIN wire' : (queue[i] # wire[j].of)'
          /\ \A i \in DOMAIN queue' : (pc[queue[i]] \in {"sent", "done"})'
          /\ \A i \in DOMAIN wire' :
               (wire[i].of # Changed => pc[wire[i].of] \in {"sent", "done"})'
      BY <1>4, <1>6 DEF IInv, OnceInv
    <3> QED
      BY <3>1, <3>2, <3>3, <3>4, <3>5 DEF OnceInv
  \* The answer goes behind those that are there, and is not newer than those
  \* that are to come.
  <2>8. VersionsInv'
    <3>1. \A i \in DOMAIN ready' :
            \/ i \in DOMAIN ready /\ reply'[ready'[i]] = reply[ready[i]]
            \/ i = Len(ready) + 1 /\ reply'[ready'[i]].version = f.version
      BY <2>3, <2>4, <2>5
    <3>2. \A i \in DOMAIN ready' :
            (written <= reply[ready[i]].version /\ reply[ready[i]].version <= scene)'
      BY <1>4, <1>7, <3>1 DEF IInv, VersionsInv
    <3>3. \A i, j \in DOMAIN ready' :
            i < j => (reply[ready[i]].version <= reply[ready[j]].version)'
      BY <1>7, <2>3, <3>1 DEF IInv, VersionsInv
    <3>4. \A i \in DOMAIN ready', j \in DOMAIN wire' :
            (reply[ready[i]].version <= wire[j].version)'
      BY <1>6, <1>7, <3>1 DEF IInv, VersionsInv
    <3>5. /\ written' <= scene'
          /\ \A j \in Calls : (atStart[j].written <= written)'
          /\ \A i \in DOMAIN wire' : (written <= wire[i].version /\ wire[i].version <= scene)'
          /\ \A i, j \in DOMAIN wire' : i < j => (wire[i].version <= wire[j].version)'
      BY <1>4, <1>6 DEF IInv, VersionsInv
    <3> QED
      BY <3>2, <3>3, <3>4, <3>5 DEF VersionsInv
  <2>9. TimesInv'
    <3>1. k \in Reads => sentAt[k] <= f.at
      BY <1>6, <2>1 DEF IInv, TimesInv
    <3> QED
      BY <1>4, <1>6, <2>3, <2>4, <2>5, <3>1 DEF IInv, TimesInv
  <2>10. NoReplyInv'
    <3>1. Len(ready) + 1 \in DOMAIN ready' /\ ready'[Len(ready) + 1] = k
      BY <1>1, <2>2
    <3>2. \A i \in DOMAIN ready : i \in DOMAIN ready' /\ ready'[i] = ready[i]
      BY <1>1, <2>2
    <3>3. pc[k] = "sent"
      BY <1>11, <2>1
    <3> QED
      BY <1>4, <2>5, <3>1, <3>2, <3>3 DEF IInv, NoReplyInv
  <2> QED
    BY <1>8, <1>9, <2>6, <2>7, <2>8, <2>9, <2>10 DEF IInv
<1> QED
  BY <1>10, <1>11
\* Nothing on its way is newer than the scene, now or later.
LEMMA OlderThanScene ==
  ASSUME IInv, NEW s \in Versions, scene <= s
  PROVE  /\ scene \in Nat /\ s \in Nat /\ written \in Nat /\ written <= s
         /\ \A i \in DOMAIN wire : wire[i].version \in Nat /\ wire[i].version <= s
         /\ \A i \in DOMAIN ready :
              reply[ready[i]].version \in Nat /\ reply[ready[i]].version <= s
<1> USE CacheAssumption
<1>1. scene \in Nat /\ s \in Nat /\ written \in Nat /\ written <= scene
  BY DEF IInv, TypeOK, Versions, VersionsInv
<1>2. \A i \in DOMAIN wire : wire[i].version \in Nat /\ wire[i].version <= scene
  <2>1. \A i \in DOMAIN wire : wire[i] \in Frames
    BY DEF IInv, TypeOK
  <2> QED
    BY <2>1 DEF IInv, VersionsInv, Frames, Versions
<1>3. \A i \in DOMAIN ready :
        reply[ready[i]].version \in Nat /\ reply[ready[i]].version <= scene
  <2>1. \A i \in DOMAIN ready : ready[i] \in Calls
    BY DEF IInv, TypeOK
  <2> QED
    BY <2>1 DEF IInv, TypeOK, VersionsInv, Replies, Versions
<1> QED
  BY <1>1, <1>2, <1>3

\* A frame of the present version goes to the end of what is on its way.
LEMMA FrameKeepsOrder ==
  ASSUME IInv, scene' \in Versions, scene <= scene',
         NEW f \in Frames, f.version = scene', wire' = Append(wire, f),
         UNCHANGED <<ready, reply, written, atStart>>
  PROVE  VersionsInv'
<1>1. /\ wire \in Seq(Frames) /\ wire' \in Seq(Frames)
      /\ \A i \in DOMAIN wire : i \in Nat \ {0} /\ i <= Len(wire) /\ wire[i] \in Frames
      /\ Len(wire) \in Nat
      /\ \A i \in DOMAIN wire' :
           \/ i \in DOMAIN wire /\ wire'[i] = wire[i]
           \/ i = Len(wire) + 1 /\ wire'[i] = f
  BY AppendElements DEF IInv, TypeOK
<1>2. PICK s \in Versions : s = scene'
  OBVIOUS
<1>3. /\ s \in Nat /\ written \in Nat /\ written <= s
      /\ \A i \in DOMAIN wire : wire[i].version \in Nat /\ wire[i].version <= s
      /\ \A i \in DOMAIN ready :
           reply[ready[i]].version \in Nat /\ reply[ready[i]].version <= s
  BY <1>2, OlderThanScene
<1>4. \A i \in DOMAIN wire' : (written <= wire[i].version /\ wire[i].version <= scene)'
  BY <1>1, <1>2, <1>3 DEF IInv, VersionsInv
<1>5. \A i, j \in DOMAIN wire' : i < j => (wire[i].version <= wire[j].version)'
  BY <1>1, <1>2, <1>3 DEF IInv, VersionsInv
<1>6. \A i \in DOMAIN ready', j \in DOMAIN wire' :
        (reply[ready[i]].version <= wire[j].version)'
  BY <1>1, <1>2, <1>3 DEF IInv, VersionsInv
<1>7. /\ written' <= scene'
      /\ \A j \in Calls : (atStart[j].written <= written)'
      /\ \A i \in DOMAIN ready' :
           (written <= reply[ready[i]].version /\ reply[ready[i]].version <= scene)'
      /\ \A i, j \in DOMAIN ready' :
           i < j => (reply[ready[i]].version <= reply[ready[j]].version)'
  BY <1>2, <1>3 DEF IInv, VersionsInv
<1> QED
  BY <1>4, <1>5, <1>6, <1>7 DEF VersionsInv

LEMMA ExecuteIInv ==
  ASSUME IInv, Execute
  PROVE  IInv'
<1> USE CacheAssumption
<1>1. queue # <<>> /\ queue \in Seq(Calls) /\ wire \in Seq(Frames)
  BY DEF Execute, IInv, TypeOK
<1>2. PICK k \in Calls : k = Head(queue)
  BY <1>1, TailElements
<1>3. PICK ok \in BOOLEAN, changes \in {0, 1} :
        /\ scene + changes <= MaxScene
        /\ scene' = scene + changes
        /\ edited' = (edited \/ changes = 1)
        /\ wire' = Append(wire, [of |-> k, version |-> scene + changes, ok |-> ok, at |-> clock])
  BY <1>2 DEF Execute
<1>4. /\ queue' = Tail(queue)
      /\ UNCHANGED <<ready, pc, sentAt, reply, epoch, entry, clock, written, told, atStart>>
  BY DEF Execute, cache, history
<1>5. scene' \in Versions /\ scene <= scene' /\ edited' \in BOOLEAN
  BY <1>3 DEF IInv, TypeOK, Versions
<1>6. PICK f \in Frames : f = [of |-> k, version |-> scene', ok |-> ok, at |-> clock]
  BY <1>3, <1>5 DEF IInv, TypeOK, Frames
<1>7. f.of = k /\ f.version = scene' /\ f.at = clock /\ wire' = Append(wire, f)
  BY <1>3, <1>6
<1>8. /\ wire' \in Seq(Frames)
      /\ \A i \in DOMAIN wire : i \in Nat \ {0} /\ i <= Len(wire) /\ wire[i] \in Frames
      /\ Len(wire) \in Nat
      /\ \A i \in DOMAIN wire' :
           \/ i \in DOMAIN wire /\ wire'[i] = wire[i]
           \/ i = Len(wire) + 1 /\ wire'[i] = f
  BY <1>1, <1>7, AppendElements
<1>9. /\ queue' \in Seq(Calls)
      /\ 1 \in DOMAIN queue /\ queue[1] = k
      /\ \A i \in DOMAIN queue : i \in Nat \ {0} /\ queue[i] \in Calls
      /\ \A i \in DOMAIN queue' :
           i \in Nat \ {0} /\ i + 1 \in DOMAIN queue /\ queue'[i] = queue[i + 1]
  BY <1>1, <1>2, <1>4, TailElements
<1>10. TypeOK'
  BY <1>4, <1>5, <1>8, <1>9 DEF IInv, TypeOK
<1>11. OnceInv'
  BY <1>4, <1>7, <1>8, <1>9 DEF IInv, OnceInv
<1>12. VersionsInv'
  BY <1>4, <1>5, <1>7, FrameKeepsOrder
<1>13. EntryInv' /\ NoReplyInv' /\ ReadsOwnWrites' /\ HitsAreRecent'
  BY <1>4 DEF IInv, EntryInv, NoReplyInv, ReadsOwnWrites, Answered, HitsAreRecent
<1>14. TimesInv'
  BY <1>4, <1>7, <1>8 DEF IInv, TimesInv
<1> QED
  BY <1>10, <1>11, <1>12, <1>13, <1>14 DEF IInv

LEMMA NotifyIInv ==
  ASSUME IInv, Notify
  PROVE  IInv'
<1> USE CacheAssumption
<1>1. /\ edited' = FALSE
      /\ wire' = Append(wire, [of |-> Changed, version |-> scene, ok |-> TRUE, at |-> clock])
      /\ UNCHANGED <<scene, queue, ready, pc, sentAt, reply, epoch, entry, clock,
                     written, told, atStart>>
  BY DEF Notify, cache, history
<1>2. PICK f \in Frames : f = [of |-> Changed, version |-> scene, ok |-> TRUE, at |-> clock]
  BY DEF IInv, TypeOK, Frames
<1>3. f.of = Changed /\ f.version = scene /\ f.at = clock /\ wire' = Append(wire, f)
  BY <1>1, <1>2
<1>4. wire \in Seq(Frames)
  BY DEF IInv, TypeOK
<1>5. /\ wire' \in Seq(Frames)
      /\ \A i \in DOMAIN wire : i \in Nat \ {0} /\ i <= Len(wire) /\ wire[i] \in Frames
      /\ Len(wire) \in Nat
      /\ \A i \in DOMAIN wire' :
           \/ i \in DOMAIN wire /\ wire'[i] = wire[i]
           \/ i = Len(wire) + 1 /\ wire'[i] = f
  BY <1>3, <1>4, AppendElements
<1>6. Changed \notin Reads /\ \A i \in DOMAIN queue : queue[i] # Changed
  BY DEF IInv, TypeOK, Calls
<1>7. \A i \in DOMAIN ready : ready[i] # Changed
  BY DEF IInv, TypeOK
<1>8. TypeOK'
  BY <1>1, <1>5 DEF IInv, TypeOK
<1>9. OnceInv'
  BY <1>1, <1>3, <1>5, <1>6, <1>7 DEF IInv, OnceInv
<1>10. VersionsInv'
  BY <1>1, <1>3, FrameKeepsOrder DEF IInv, TypeOK, Versions
<1>11. EntryInv' /\ NoReplyInv' /\ ReadsOwnWrites' /\ HitsAreRecent'
  BY <1>1 DEF IInv, EntryInv, NoReplyInv, ReadsOwnWrites, Answered, HitsAreRecent
<1>12. TimesInv'
  BY <1>1, <1>3, <1>5, <1>6 DEF IInv, TimesInv
<1> QED
  BY <1>8, <1>9, <1>10, <1>11, <1>12 DEF IInv

LEMMA EditTickIInv ==
  ASSUME IInv, Edit \/ Tick
  PROVE  IInv'
<1> USE CacheAssumption
<1>1. /\ scene' \in Versions /\ scene <= scene' /\ edited' \in BOOLEAN
      /\ clock' \in Times /\ clock <= clock'
      /\ UNCHANGED <<queue, wire, ready, pc, sentAt, reply, epoch, entry, written, told, atStart>>
  <2>1. CASE Edit
    <3>1. /\ scene < MaxScene /\ scene' = scene + 1 /\ edited' = TRUE
          /\ UNCHANGED <<queue, wire, ready, pc, sentAt, reply, epoch, entry, clock,
                         written, told, atStart>>
      BY <2>1 DEF Edit, cache, history
    <3>2. scene \in 0 .. MaxScene /\ clock \in 0 .. MaxClock
      BY DEF IInv, TypeOK, Versions, Times
    <3> QED
      BY <3>1, <3>2 DEF Versions, Times
  <2>2. CASE Tick
    <3>1. /\ clock < MaxClock /\ clock' = clock + 1
          /\ UNCHANGED <<scene, edited, queue, wire, ready, pc, sentAt, reply, epoch,
                         entry, written, told, atStart>>
      BY <2>2 DEF Tick, world, cache, history
    <3>2. scene \in 0 .. MaxScene /\ clock \in 0 .. MaxClock /\ edited \in BOOLEAN
      BY DEF IInv, TypeOK, Versions, Times
    <3> QED
      BY <3>1, <3>2 DEF Versions, Times
  <2> QED
    BY <2>1, <2>2
<1>2. TypeOK'
  BY <1>1 DEF IInv, TypeOK
<1>3. OnceInv' /\ EntryInv' /\ NoReplyInv' /\ ReadsOwnWrites' /\ HitsAreRecent'
  BY <1>1 DEF IInv, OnceInv, EntryInv, NoReplyInv, ReadsOwnWrites, Answered, HitsAreRecent
<1>4. VersionsInv'
  <2>1. PICK s \in Versions : s = scene'
    BY <1>1
  <2>2. /\ written <= s
        /\ \A i \in DOMAIN wire : wire[i].version <= s
        /\ \A i \in DOMAIN ready : reply[ready[i]].version <= s
    BY <1>1, <2>1, OlderThanScene
  <2> QED
    BY <1>1, <2>1, <2>2 DEF IInv, VersionsInv
<1>5. TimesInv'
  BY <1>1 DEF IInv, TypeOK, TimesInv, Times
<1> QED
  BY <1>2, <1>3, <1>4, <1>5 DEF IInv

LEMMA NextIInv == IInv /\ [Next]_vars => IInv'
<1> SUFFICES ASSUME IInv, [Next]_vars PROVE IInv'
  OBVIOUS
<1>1. CASE Next
  BY <1>1, HitIInv, SendIInv, GiveUpIInv, ResumeIInv, ReceiveIInv, ExecuteIInv,
     NotifyIInv, EditTickIInv DEF Next
<1>2. CASE UNCHANGED vars
  BY <1>2 DEF vars, IInv, TypeOK, OnceInv, VersionsInv, EntryInv, TimesInv, NoReplyInv,
              ReadsOwnWrites, HitsAreRecent, Answered
<1> QED
  BY <1>1, <1>2

LEMMA InvariantIInv == Spec => []IInv
BY InitIInv, NextIInv, PTL DEF Spec

-----------------------------------------------------------------------------
\* Type correctness of the cache, the calls and what travels between them.
THEOREM TypeCorrect == Spec => []TypeOK
<1>1. IInv => TypeOK
  BY DEF IInv
<1> QED
  BY <1>1, InvariantIInv, PTL

\* snapshot_cache.py, get_or_call and bump_epoch: a read that starts after a
\* mutation of this server has succeeded is never answered with an older
\* version, by Blender or from the cache.
THEOREM ReadYourWrites == Spec => []ReadsOwnWrites
<1>1. IInv => ReadsOwnWrites
  BY DEF IInv
<1> QED
  BY <1>1, InvariantIInv, PTL

\* snapshot_cache.py, "TTL safety net": an answer from the cache was computed
\* less than ttl_ms ago, for any clock, even when the epoch misses an edit.
THEOREM HitsWithinTTL == Spec => []HitsAreRecent
<1>1. IInv => HitsAreRecent
  BY DEF IInv
<1> QED
  BY <1>1, InvariantIInv, PTL

-----------------------------------------------------------------------------
(* The notifier of the add-on.                                              *)

USE NotifierAssumption

\* While the add-on has not been disabled there is one timer at most, it was
\* wanted by the handler, and it is not due before the interval is over.
OneTimer ==
  cycles = 0 =>
    /\ installed
    /\ Len(timers) <= 1
    /\ timers # <<>> => pending
    /\ \A i \in DOMAIN timers : timers[i] + gap >= Debounce

NotifierInv == NotifierTypeOK /\ PendingHasTimer /\ OneTimer

-----------------------------------------------------------------------------
\* A sequence that loses its head, or gains a last element.
LEMMA HeadTimer ==
  ASSUME NEW S, NEW s \in Seq(S), s # <<>>
  PROVE  Tail(s) \in Seq(S) /\ Len(Tail(s)) = Len(s) - 1 /\ Head(s) = s[1] /\ 1 \in DOMAIN s
  OBVIOUS

LEMMA TimerAdded ==
  ASSUME NEW S, NEW s \in Seq(S), NEW e \in S
  PROVE  /\ Append(s, e) \in Seq(S)
         /\ Append(s, e) # <<>>
         /\ s = <<>> => Len(Append(s, e)) = 1 /\ \A i \in DOMAIN Append(s, e) : Append(s, e)[i] = e
  OBVIOUS

\* What a depsgraph event does to the timers that are still running.
LEMMA UpdateTimers ==
  ASSUME NotifierInv, NEW running \in Seq(0 .. Debounce), OnDepsgraphUpdate(running)
  PROVE  /\ timers' \in Seq(0 .. Debounce)
         /\ pending' \in BOOLEAN
         /\ (pending => running # <<>>) => (pending' => timers' # <<>>)
         /\ \/ timers' = running /\ pending' = pending
            \/ ~pending /\ pending' /\ timers' = Append(running, Debounce)
<1>1. Debounce \in 0 .. Debounce
  OBVIOUS
<1>2. CASE Debounces
  <2>1. ~pending /\ pending' = TRUE /\ timers' = Append(running, Debounce)
    BY <1>2 DEF OnDepsgraphUpdate, Debounces, Interval
  <2>2. timers' \in Seq(0 .. Debounce) /\ timers' # <<>>
    BY <1>1, <2>1, TimerAdded
  <2> QED BY <2>1, <2>2
<1>3. CASE ~Debounces
  BY <1>3 DEF OnDepsgraphUpdate, NotifierInv, NotifierTypeOK
<1> QED BY <1>2, <1>3

\* A change of the scene, seen by the handler with `running` timers, keeps the
\* single timer: it adds one only if none is pending.
LEMMA ChangeKeepsOneTimer ==
  ASSUME NotifierInv, NEW running \in Seq(0 .. Debounce), running \in {timers, <<>>},
         OnDepsgraphUpdate(running), UNCHANGED <<installed, cycles, gap>>
  PROVE  OneTimer'
<1> SUFFICES ASSUME cycles = 0
             PROVE  /\ installed /\ Len(timers') <= 1
                    /\ timers' # <<>> => pending'
                    /\ \A i \in DOMAIN timers' : timers'[i] + gap >= Debounce
  BY DEF OneTimer
<1>1. /\ installed /\ Len(running) <= 1
      /\ running # <<>> => pending
      /\ \A i \in DOMAIN running : running[i] + gap >= Debounce
  BY DEF NotifierInv, OneTimer
<1>2. CASE timers' = running /\ pending' = pending
  BY <1>1, <1>2
<1>3. CASE ~pending /\ pending' /\ timers' = Append(running, Debounce)
  <2>1. running = <<>>
    BY <1>1, <1>3
  <2>2. Len(timers') = 1 /\ \A i \in DOMAIN timers' : timers'[i] = Debounce
    BY <1>3, <2>1, TimerAdded
  <2> QED BY <1>1, <1>3, <2>2 DEF NotifierInv, NotifierTypeOK
<1> QED BY <1>2, <1>3, UpdateTimers

-----------------------------------------------------------------------------
LEMMA InitNotifier == NotifierInit => NotifierInv
<1> SUFFICES ASSUME NotifierInit PROVE NotifierInv
  OBVIOUS
<1>1. timers = <<>> /\ timers \in Seq(0 .. Debounce) /\ Len(timers) = 0
  BY DEF NotifierInit
<1>2. \A i \in DOMAIN timers : timers[i] + gap >= Debounce
  BY <1>1
<1>3. 0 \in 0 .. MaxLoads /\ 0 \in 0 .. MaxCycles /\ Debounce \in 0 .. Debounce
  OBVIOUS
<1>4. NotifierTypeOK
  BY <1>1, <1>3 DEF NotifierInit, NotifierTypeOK
<1>5. PendingHasTimer /\ OneTimer
  BY <1>1, <1>2 DEF NotifierInit, PendingHasTimer, OneTimer
<1> QED BY <1>4, <1>5 DEF NotifierInv

LEMMA NextNotifier == NotifierInv /\ [NotifierNext]_notifierVars => NotifierInv'
<1> SUFFICES ASSUME NotifierInv, [NotifierNext]_notifierVars PROVE NotifierInv'
  OBVIOUS
<1> USE DEF bounds
<1>0. NotifierTypeOK /\ PendingHasTimer /\ OneTimer BY DEF NotifierInv
<1>1. CASE EditScene
  <2>1. OnDepsgraphUpdate(timers) /\ UNCHANGED <<lastHash, installed, loads, cycles, moved, gap>>
        /\ digest' \in Digests
    BY <1>1 DEF EditScene
  <2>2. timers \in Seq(0 .. Debounce) BY <1>0 DEF NotifierTypeOK
  <2>3. OneTimer' BY <2>1, <2>2, ChangeKeepsOneTimer
  <2> QED BY <1>0, <2>1, <2>2, <2>3, UpdateTimers DEF NotifierInv, NotifierTypeOK, PendingHasTimer
<1>2. CASE Move
  <2>1. OnDepsgraphUpdate(timers) /\ UNCHANGED <<digest, lastHash, installed, loads, cycles, gap>>
        /\ moved' = TRUE
    BY <1>2 DEF Move
  <2>2. timers \in Seq(0 .. Debounce) BY <1>0 DEF NotifierTypeOK
  <2>3. OneTimer' BY <2>1, <2>2, ChangeKeepsOneTimer
  <2> QED BY <1>0, <2>1, <2>2, <2>3, UpdateTimers DEF NotifierInv, NotifierTypeOK, PendingHasTimer
<1>3. CASE OpenFile
  <2>1. OnDepsgraphUpdate(<<>>) /\ UNCHANGED <<lastHash, installed, cycles, gap>>
        /\ digest' \in Digests /\ moved' = TRUE /\ loads' = loads + 1 /\ loads < MaxLoads
    BY <1>3 DEF OpenFile
  <2>2. <<>> \in Seq(0 .. Debounce) OBVIOUS
  <2>3. OneTimer' BY <2>1, <2>2, ChangeKeepsOneTimer
  <2>4. timers' \in Seq(0 .. Debounce) /\ pending' \in BOOLEAN
    BY <2>1, <2>2, UpdateTimers
  <2> QED BY <1>0, <2>1, <2>3, <2>4 DEF NotifierInv, NotifierTypeOK, PendingHasTimer
<1>4. CASE Flush
  <2>1. timers # <<>> /\ timers' = Tail(timers) /\ pending' = FALSE
        /\ UNCHANGED <<digest, installed, loads, cycles>>
    BY <1>4 DEF Flush, Clears
  <2>2. timers' \in Seq(0 .. Debounce) /\ Len(timers') = Len(timers) - 1
    BY <1>0, <2>1, HeadTimer DEF NotifierTypeOK
  <2>3. lastHash' \in Digests \union {NoHash} /\ moved' \in BOOLEAN /\ gap' \in 0 .. Debounce
    <3>1. 0 \in 0 .. Debounce OBVIOUS
    <3>2. CASE News
      BY <1>0, <1>4, <3>1, <3>2 DEF Flush, NotifierTypeOK
    <3>3. CASE ~News
      BY <1>0, <1>4, <3>3 DEF Flush, NotifierTypeOK
    <3> QED BY <3>2, <3>3
  <2>4. ASSUME cycles' = 0 PROVE Len(timers') = 0 /\ timers' = <<>> /\ installed'
    BY <1>0, <2>1, <2>2, <2>4 DEF OneTimer, NotifierTypeOK
  <2>5. OneTimer'
    BY <2>4 DEF OneTimer
  <2> QED BY <1>0, <2>1, <2>2, <2>3, <2>5 DEF NotifierInv, NotifierTypeOK, PendingHasTimer
<1>5. CASE Unregister
  <2>1. cycles' \in 0 .. MaxCycles /\ cycles' # 0
    BY <1>0, <1>5 DEF Unregister, NotifierTypeOK
  <2>2. NotifierTypeOK'
    BY <1>0, <1>5, <2>1 DEF Unregister, NotifierTypeOK
  <2> QED BY <1>5, <2>1, <2>2 DEF Unregister, NotifierInv, PendingHasTimer, OneTimer
<1>6. CASE Register
  BY <1>0, <1>6 DEF Register, NotifierInv, NotifierTypeOK, PendingHasTimer, OneTimer
<1>7. CASE TimePasses
  <2>1. /\ Len(timers) \in Nat /\ DOMAIN timers = 1 .. Len(timers)
        /\ \A i \in DOMAIN timers : timers[i] \in 0 .. Debounce
    BY <1>0 DEF NotifierTypeOK
  <2>2. /\ timers' = [i \in 1 .. Len(timers) |-> IF timers[i] > 0 THEN timers[i] - 1 ELSE 0]
        /\ gap' = IF gap < Debounce THEN gap + 1 ELSE gap
        /\ UNCHANGED <<digest, lastHash, pending, installed, loads, cycles, moved>>
    BY <1>7, <2>1 DEF TimePasses
  <2>3. timers' \in Seq(0 .. Debounce) /\ Len(timers') = Len(timers)
    BY <2>1, <2>2
  <2>4. timers' = <<>> <=> timers = <<>>
    BY <1>0, <2>3 DEF NotifierTypeOK
  <2>5. ASSUME cycles = 0, NEW i \in DOMAIN timers' PROVE timers'[i] + gap' >= Debounce
    BY <1>0, <2>1, <2>2, <2>5 DEF OneTimer, NotifierTypeOK
  <2> QED BY <1>0, <2>2, <2>3, <2>4, <2>5 DEF NotifierInv, NotifierTypeOK, PendingHasTimer, OneTimer
<1>8. CASE UNCHANGED notifierVars
  BY <1>0, <1>8 DEF notifierVars, NotifierInv, NotifierTypeOK, PendingHasTimer, OneTimer
<1> QED BY <1>1, <1>2, <1>3, <1>4, <1>5, <1>6, <1>7, <1>8 DEF NotifierNext

\* The inductive invariant holds in every reachable state.
LEMMA NotifierInvariant == NotifierSpec => []NotifierInv
BY InitNotifier, NextNotifier, PTL DEF NotifierSpec

-----------------------------------------------------------------------------
\* Every reachable state of the notifier has its types.
THEOREM NotifierTypeCorrect == NotifierSpec => []NotifierTypeOK
<1>1. NotifierInv => NotifierTypeOK BY DEF NotifierInv
<1> QED BY NotifierInvariant, <1>1, PTL

\* Until a file is opened, _pending is never set without the timer whose
\* callback clears it, however often the add-on is disabled and enabled.
THEOREM PendingKeepsTimer == NotifierSpec => []PendingHasTimer
<1>1. NotifierInv => PendingHasTimer BY DEF NotifierInv
<1> QED BY NotifierInvariant, <1>1, PTL

\* Whatever the debounce interval, two broadcasts are at least that far apart
\* until the add-on is disabled, opening files included.
THEOREM BroadcastsKeepDistance == NotifierSpec => BroadcastsAreSpaced
<1>1. NotifierInv /\ [NotifierNext]_notifierVars => [Flush /\ News => gap = Debounce \/ cycles > 0]_notifierVars
  <2> SUFFICES ASSUME NotifierInv, Flush, cycles = 0 PROVE gap = Debounce
    BY DEF NotifierInv, NotifierTypeOK
  <2>1. 1 \in DOMAIN timers /\ timers[1] = 0
    BY HeadTimer DEF Flush, NotifierInv, NotifierTypeOK
  <2>2. timers[1] + gap >= Debounce
    BY <2>1 DEF NotifierInv, OneTimer
  <2> QED BY <2>1, <2>2 DEF NotifierInv, NotifierTypeOK
<1> QED BY NotifierInvariant, <1>1, PTL DEF NotifierSpec, BroadcastsAreSpaced
=============================================================================
