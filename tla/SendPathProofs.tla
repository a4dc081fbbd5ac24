--------------------------- MODULE SendPathProofs ---------------------------
(***************************************************************************)
(* Theorems about SendPath, for any number of connections, commands,       *)
(* progress frames and notifications: its types, that two tasks never      *)
(* write to the same open socket, and that no progress is lost but by the  *)
(* race of send with _flush.                                               *)
(***************************************************************************)
EXTENDS SendPath, FiniteSetTheorems, TLAPS

Writing == {"writes", "fails"}
Holding == {"waits"} \union Writing

LockTables ==
  [table : [Sockets -> 0 .. 2], made : [Sockets -> 0 .. 2], queue : [Locks -> Seq(Tasks)]]
TaskRecords ==
  [pc : {"none", "starts", "done"} \union Holding, lock : Locks \union {<<>>}]
SocketRecords ==
  [st : {"open", "gone"}, handler : {"reads", "awaits", "replies", "left"}]

\* A task is in the queue of a lock as long as it waits for it or has it; the
\* one that has it is at the head.
Queues ==
  /\ locks \in LockTables /\ task \in [Tasks -> TaskRecords]
  /\ \A l \in Locks : IsInjective(locks.queue[l])
  /\ \A t \in Tasks, l \in Locks :
       t \in ToSet(locks.queue[l]) <=> task[t].pc \in Holding /\ task[t].lock = l
  /\ \A t \in Tasks : task[t].pc \in Holding => task[t].lock \in Locks
  /\ \A t \in Tasks : task[t].pc \in Writing => Head(locks.queue[task[t].lock]) = t

\* The table loses the lock of a socket when its handler leaves, and not
\* before; so the second lock, if one is made, is that of a socket that has
\* gone.
LocksOf(s) ==
  /\ sock[s].handler # "left" => locks.table[s] = locks.made[s] /\ locks.made[s] <= 1
  /\ sock[s].handler = "left" => sock[s].st = "gone"
  /\ locks.table[s] \in {0, locks.made[s]}
  /\ locks.table[s] = 0 => locks.made[s] <= 1
  /\ \A k \in {1, 2} : k > locks.made[s] => locks.queue[<<s, k>>] = <<>>

OneLockWhileOpen ==
  /\ sock \in [Sockets -> SocketRecords]
  /\ \A s \in Sockets : LocksOf(s)

\* What is none of the above: the rest of the types.
ReporterRecords ==
  [st : {"new", "submitted", "taken", "done"}, pending : 0 .. Frames,
   scheduled : BOOLEAN, queued : 0 .. 1, read : 0 .. Frames,
   step : {"idle", "read", "cleared"}, given : 0 .. Frames, taken : 0 .. Frames,
   raced : BOOLEAN]

Shape ==
  /\ main \in [cmd : Commands \union {NoCommand}, frame : 0 .. Frames,
               pc : {"idle", "runs", "pended"}]
  /\ main.pc # "idle" => main.cmd \in Commands
  /\ rep \in [Commands -> ReporterRecords]
  /\ flushing \in Commands \union {NoCommand}
  /\ fan \in [Broadcasts ->
       [asked : SUBSET Sockets, left : Seq(Sockets), got : SUBSET Sockets]]

\* A task is there from when it is started: the reply of a handler that has
\* one to send, the broadcast that main has asked for, the frame that a flush
\* has taken.
Replies ==
  \A s \in Sockets :
    /\ sock[s].handler \in {"reads", "awaits"} => task[Reply(s)].pc = "none"
    /\ sock[s].handler = "replies" => task[Reply(s)].pc \in Holding

Fans == \A b \in Broadcasts : fan[b].asked = {} => task[Fan(b)].pc = "none"

\* The frames of c that no task sends yet: those main has not given, the one
\* that is pending and the one that _flush holds.
ToCome(c, n) == n > rep[c].given \/ n = rep[c].pending \/ n = rep[c].read

\* A frame that was not given while the loop was in _flush is on its way: it
\* is pending and its flush is queued, or will be when send goes on; or _flush
\* holds it; or it has been taken.
Fresh(c) ==
  IF flushing = c
    THEN /\ rep[c].step = "cleared" => rep[c].pending = 0
         /\ IF rep[c].read = 0 THEN rep[c].taken = rep[c].given
                              ELSE rep[c].read = rep[c].given
    ELSE IF rep[c].pending = 0
      THEN rep[c].taken = rep[c].given
      ELSE /\ rep[c].pending = rep[c].given
           /\ rep[c].queued = 1 \/ (main.cmd = c /\ main.pc = "pended")

ReporterOf(c) ==
  /\ rep[c].st \in {"new", "submitted"} => rep[c].given = 0
  /\ main.pc # "idle" /\ main.cmd = c => rep[c].st = "taken" /\ rep[c].given = main.frame
  /\ rep[c].pending <= rep[c].given /\ rep[c].read <= rep[c].given
  /\ rep[c].step = "cleared" => rep[c].pending = 0 \/ rep[c].pending # rep[c].read
  /\ rep[c].queued = 1 => rep[c].scheduled /\ flushing # c
  /\ IF flushing = c THEN rep[c].scheduled
     ELSE /\ rep[c].read = 0 /\ rep[c].step = "idle"
          /\ rep[c].scheduled => rep[c].queued = 1
  /\ ~rep[c].raced => Fresh(c)

FramesToCome ==
  \A c \in Commands :
    /\ ReporterOf(c)
    /\ \A n \in 1 .. Frames : ToCome(c, n) => task[Frame(c, n)].pc = "none"

IInv == Shape /\ Queues /\ OneLockWhileOpen /\ Replies /\ Fans /\ FramesToCome

-----------------------------------------------------------------------------
\* A queue that gains its last element or loses its first.
LEMMA AppendLemma ==
  ASSUME NEW S, NEW q \in Seq(S), NEW t \in S, IsInjective(q), t \notin ToSet(q)
  PROVE  /\ Append(q, t) \in Seq(S) /\ Append(q, t) # <<>>
         /\ IsInjective(Append(q, t))
         /\ \A u : u \in ToSet(Append(q, t)) <=> u \in ToSet(q) \/ u = t
         /\ Head(Append(q, t)) = IF q = <<>> THEN t ELSE Head(q)
<1> DEFINE r == Append(q, t)
<1>1. /\ r \in Seq(S) /\ Len(r) = Len(q) + 1 /\ Len(q) \in Nat
      /\ \A i \in 1 .. Len(q) : r[i] = q[i]
      /\ r[Len(q) + 1] = t
  OBVIOUS
<1>2. DOMAIN r = 1 .. (Len(q) + 1) /\ DOMAIN q = 1 .. Len(q)
  BY <1>1
<1>3. \A i \in DOMAIN q : q[i] # t
  BY DEF ToSet
<1> HIDE DEF r
<1>4. IsInjective(r)
  BY <1>1, <1>2, <1>3 DEF IsInjective
<1>5. \A u : u \in ToSet(r) <=> u \in ToSet(q) \/ u = t
  <2> SUFFICES ASSUME NEW u PROVE u \in ToSet(r) <=> u \in ToSet(q) \/ u = t
    OBVIOUS
  <2>1. ASSUME u \in ToSet(r) PROVE u \in ToSet(q) \/ u = t
    <3>1. PICK i \in DOMAIN r : r[i] = u
      BY <2>1 DEF ToSet
    <3>2. CASE i \in 1 .. Len(q)
      BY <1>1, <1>2, <3>1, <3>2 DEF ToSet
    <3>3. CASE i = Len(q) + 1
      BY <1>1, <3>1, <3>3
    <3> QED BY <1>1, <1>2, <3>1, <3>2, <3>3
  <2>2. ASSUME u \in ToSet(q) PROVE u \in ToSet(r)
    <3>1. PICK i \in DOMAIN q : q[i] = u
      BY <2>2 DEF ToSet
    <3>2. i \in DOMAIN r /\ r[i] = u
      BY <1>1, <1>2, <3>1
    <3> QED BY <3>2 DEF ToSet
  <2>3. t \in ToSet(r)
    <3>1. Len(q) + 1 \in DOMAIN r
      BY <1>1, <1>2
    <3> QED BY <1>1, <3>1 DEF ToSet
  <2> QED BY <2>1, <2>2, <2>3
<1>6. q # <<>> => Len(q) > 0 /\ Head(q) = q[1]
  OBVIOUS
<1>7. q = <<>> => Len(q) = 0
  OBVIOUS
<1>8. r # <<>> /\ Head(r) = r[1]
  BY <1>1
<1>9. Head(r) = IF q = <<>> THEN t ELSE Head(q)
  BY <1>1, <1>6, <1>7, <1>8
<1> QED BY <1>1, <1>4, <1>5, <1>8, <1>9 DEF r

LEMMA TailLemma ==
  ASSUME NEW S, NEW q \in Seq(S), IsInjective(q), NEW t, t \in ToSet(q), Head(q) = t
  PROVE  /\ Tail(q) \in Seq(S)
         /\ IsInjective(Tail(q))
         /\ \A u : u \in ToSet(Tail(q)) <=> u \in ToSet(q) /\ u # t
<1>1. q # <<>>
  BY DEF ToSet
<1> DEFINE r == Tail(q)
<1>2. /\ r \in Seq(S) /\ Len(q) \in Nat \ {0} /\ Len(r) = Len(q) - 1
      /\ \A i \in 1 .. Len(r) : r[i] = q[i + 1]
      /\ q[1] = t
  BY <1>1
<1>3. DOMAIN r = 1 .. (Len(q) - 1) /\ DOMAIN q = 1 .. Len(q)
  BY <1>2
<1> HIDE DEF r
<1>4. IsInjective(r)
  BY <1>2, <1>3 DEF IsInjective
<1>5. ASSUME NEW u PROVE u \in ToSet(r) <=> u \in ToSet(q) /\ u # t
  <2>1. ASSUME u \in ToSet(r) PROVE u \in ToSet(q) /\ u # t
    <3>1. PICK i \in DOMAIN r : r[i] = u
      BY <2>1 DEF ToSet
    <3>2. i + 1 \in DOMAIN q /\ q[i + 1] = u /\ i + 1 # 1 /\ 1 \in DOMAIN q
      BY <1>2, <1>3, <3>1
    <3> QED BY <1>2, <3>2 DEF ToSet, IsInjective
  <2>2. ASSUME u \in ToSet(q), u # t PROVE u \in ToSet(r)
    <3>1. PICK i \in DOMAIN q : q[i] = u
      BY <2>2 DEF ToSet
    <3>2. i # 1
      BY <1>2, <2>2, <3>1
    <3>3. i - 1 \in DOMAIN r /\ r[i - 1] = u
      BY <1>2, <1>3, <3>1, <3>2
    <3> QED BY <3>3 DEF ToSet
  <2> QED BY <2>1, <2>2
<1> QED BY <1>2, <1>4, <1>5 DEF r

-----------------------------------------------------------------------------
\* No two senders are one.
LEMMA TasksLemma ==
  /\ \A s \in Sockets : Reply(s) \in Tasks
  /\ \A b \in Broadcasts : Fan(b) \in Tasks
  /\ \A c \in Commands, n \in 1 .. Frames : Frame(c, n) \in Tasks
  /\ \A s, r : Reply(s) = Reply(r) <=> s = r
  /\ \A b, d : Fan(b) = Fan(d) <=> b = d
  /\ \A c, n, d, m : Frame(c, n) = Frame(d, m) <=> c = d /\ n = m
  /\ \A s, b : Reply(s) # Fan(b)
  /\ \A s, c, n : Reply(s) # Frame(c, n)
  /\ \A b, c, n : Fan(b) # Frame(c, n)
  BY DEF Tasks, Reply, Fan, Frame

LEMMA LocksLemma ==
  /\ \A s \in Sockets, k \in {1, 2} : <<s, k>> \in Locks
  /\ \A l \in Locks : l = <<l[1], l[2]>> /\ l[1] \in Sockets /\ l[2] \in {1, 2}
  BY DEF Locks

LEMMA InitLemma ==
  ASSUME Init
  PROVE  IInv
<1> USE SendPathAssumption DEF Init
<1>1. Shape
  BY DEF Shape, ReporterRecords
<1>2. Queues
  <2>1. locks \in LockTables
    BY DEF LockTables
  <2>2. task \in [Tasks -> TaskRecords]
    BY DEF TaskRecords
  <2>3. \A l \in Locks : locks.queue[l] = <<>>
    OBVIOUS
  <2>4. IsInjective(<<>>) /\ ToSet(<<>>) = {}
    BY DEF IsInjective, ToSet
  <2> QED BY <2>1, <2>2, <2>3, <2>4 DEF Queues, Holding, Writing
<1>3. OneLockWhileOpen
  BY LocksLemma DEF OneLockWhileOpen, LocksOf, SocketRecords
<1>4. Replies /\ Fans
  BY TasksLemma DEF Replies, Fans
<1>5. FramesToCome
  BY TasksLemma DEF FramesToCome, ReporterOf, Fresh, ToCome
<1> QED BY <1>1, <1>2, <1>3, <1>4, <1>5 DEF IInv

-----------------------------------------------------------------------------
(* The queues.                                                              *)

LEMMA AsksKeeps ==
  ASSUME Queues, OneLockWhileOpen, NEW t \in Tasks, task[t].pc \notin Holding,
         NEW s \in Sockets, Asks(t, s),
         sock' \in [Sockets -> SocketRecords],
         \A u \in Sockets : /\ sock'[u].st = sock[u].st
                            /\ sock'[u].handler = "left" <=> sock[u].handler = "left"
  PROVE  /\ Queues' /\ OneLockWhileOpen'
         /\ task'[t].pc \in Holding
         /\ \A u \in Tasks \ {t} : task'[u] = task[u]
<1> DEFINE k == LockOf(s)
           l == <<s, k>>
<1>1. /\ LocksOf(s) /\ locks \in LockTables
      /\ locks.table[s] \in 0 .. 2 /\ locks.made[s] \in 0 .. 2
  BY DEF Queues, LockTables, OneLockWhileOpen
<1>2. k \in {1, 2}
  BY <1>1 DEF LockOf, LocksOf
<1>3. l \in Locks
  BY <1>2, LocksLemma
<1>4. /\ locks' = [locks EXCEPT !.table[s] = k, !.made[s] = k,
                               !.queue[l] = Append(locks.queue[l], t)]
      /\ task' = [task EXCEPT ![t] =
           [pc |-> IF locks.queue[l] = <<>> THEN SendsOn(s) ELSE "waits", lock |-> l]]
  BY DEF Asks
<1>5. /\ locks.queue[l] \in Seq(Tasks) /\ IsInjective(locks.queue[l])
      /\ t \notin ToSet(locks.queue[l])
  BY <1>1, <1>3 DEF Queues, LockTables
<1> DEFINE q == Append(locks.queue[l], t)
<1>6. /\ q \in Seq(Tasks) /\ q # <<>> /\ IsInjective(q)
      /\ \A u : u \in ToSet(q) <=> u \in ToSet(locks.queue[l]) \/ u = t
      /\ Head(q) = IF locks.queue[l] = <<>> THEN t ELSE Head(locks.queue[l])
  BY <1>5, AppendLemma
<1>7. /\ locks'.table = [locks.table EXCEPT ![s] = k]
      /\ locks'.made = [locks.made EXCEPT ![s] = k]
      /\ locks'.queue = [locks.queue EXCEPT ![l] = q]
      /\ locks' = [table |-> locks'.table, made |-> locks'.made, queue |-> locks'.queue]
  BY <1>1, <1>4 DEF LockTables
<1> HIDE DEF k, q, l
<1>8. locks' \in LockTables
  <2>1. locks'.table \in [Sockets -> 0 .. 2] /\ locks'.made \in [Sockets -> 0 .. 2]
    BY <1>1, <1>2, <1>7 DEF LockTables
  <2>2. locks'.queue \in [Locks -> Seq(Tasks)]
    BY <1>1, <1>3, <1>6, <1>7 DEF LockTables
  <2> QED BY <1>7, <2>1, <2>2 DEF LockTables
<1>9. SendsOn(s) \in Writing
  BY DEF SendsOn, Writing
<1>10. /\ task' \in [Tasks -> TaskRecords]
       /\ task'[t].pc \in Holding /\ task'[t].lock = l
       /\ task'[t].pc \in Writing => locks.queue[l] = <<>>
       /\ \A u \in Tasks \ {t} : task'[u] = task[u]
  BY <1>3, <1>4, <1>9 DEF Queues, TaskRecords, Holding, Writing
<1>11. \A j \in Locks : locks'.queue[j] = IF j = l THEN q ELSE locks.queue[j]
  BY <1>1, <1>3, <1>7 DEF LockTables
<1>12. Queues'
  <2>1. \A j \in Locks : IsInjective(locks'.queue[j])
    BY <1>6, <1>11 DEF Queues
  <2>2. \A u \in Tasks, j \in Locks :
          u \in ToSet(locks'.queue[j]) <=> task'[u].pc \in Holding /\ task'[u].lock = j
    BY <1>6, <1>10, <1>11 DEF Queues
  <2>3. \A u \in Tasks : task'[u].pc \in Holding => task'[u].lock \in Locks
    BY <1>3, <1>10 DEF Queues
  <2>4. ASSUME NEW u \in Tasks, task'[u].pc \in Writing
        PROVE  Head(locks'.queue[task'[u].lock]) = u
    <3>1. CASE u = t
      BY <1>3, <1>6, <1>10, <1>11, <2>4, <3>1
    <3>2. CASE u # t
      <4>1. /\ task[u].pc \in Writing /\ task'[u].lock = task[u].lock
            /\ task[u].lock \in Locks
            /\ Head(locks.queue[task[u].lock]) = u
            /\ u \in ToSet(locks.queue[task[u].lock])
        BY <1>10, <2>4, <3>2 DEF Queues, Holding
      <4>2. locks.queue[task[u].lock] # <<>>
        BY <4>1 DEF ToSet
      <4> QED BY <1>6, <1>11, <4>1, <4>2
    <3> QED BY <3>1, <3>2
  <2> QED BY <1>8, <1>10, <2>1, <2>2, <2>3, <2>4 DEF Queues
<1>13. OneLockWhileOpen'
  <2> SUFFICES ASSUME NEW u \in Sockets PROVE LocksOf(u)'
    BY DEF OneLockWhileOpen
  <2>1. LocksOf(u)
    BY DEF OneLockWhileOpen
  <2>2. CASE u # s
    <3>1. /\ locks'.table[u] = locks.table[u] /\ locks'.made[u] = locks.made[u]
          /\ \A j \in {1, 2} : locks'.queue[<<u, j>>] = locks.queue[<<u, j>>]
      BY <1>1, <1>7, <1>11, <2>2, LocksLemma DEF LockTables, l
    <3> QED BY <2>1, <3>1 DEF LocksOf
  <2>3. CASE u = s
    <3>1. locks'.table[s] = k /\ locks'.made[s] = k
      BY <1>1, <1>7 DEF LockTables
    <3>2. \A j \in {1, 2} : j > k => locks'.queue[<<s, j>>] = locks.queue[<<s, j>>]
      <4> SUFFICES ASSUME NEW j \in {1, 2}, j > k
                   PROVE  locks'.queue[<<s, j>>] = locks.queue[<<s, j>>]
        OBVIOUS
      <4>1. <<s, j>> \in Locks
        BY LocksLemma
      <4>2. j # k
        BY <1>2
      <4>3. <<s, j>> # l
        BY <4>2 DEF l
      <4> QED BY <1>11, <4>1, <4>3
    <3>3. k = IF locks.table[s] # 0 THEN locks.table[s] ELSE locks.made[s] + 1
      BY DEF k, LockOf
    <3>4. k >= locks.made[s] /\ k > 0
      BY <1>1, <1>2, <3>3 DEF LocksOf
    <3>5. sock[s].handler # "left" => k <= 1
      BY <1>1, <3>3 DEF LocksOf
    <3>6. \A j \in {1, 2} : j > k => locks.queue[<<s, j>>] = <<>>
      BY <1>1, <1>2, <3>4 DEF LocksOf
    <3> QED BY <1>1, <1>2, <2>3, <3>1, <3>2, <3>4, <3>5, <3>6 DEF LocksOf
  <2> QED BY <2>2, <2>3
<1> QED BY <1>10, <1>12, <1>13

\* t gives its lock back: sock and the table may change with it.
LEMMA ReleaseKeeps ==
  ASSUME Queues, NEW t \in Tasks, task[t].pc \in Writing,
         NEW table \in [Sockets -> 0 .. 2],
         locks' = [table |-> table, made |-> locks.made,
                   queue |-> [locks.queue EXCEPT
                                ![task[t].lock] = Tail(locks.queue[task[t].lock])]],
         task' \in [Tasks -> TaskRecords], task'[t].pc \notin Holding,
         \A u \in Tasks \ {t} : task'[u] = task[u]
  PROVE  /\ Queues'
         /\ \A l \in Locks : locks.queue[l] = <<>> => locks'.queue[l] = <<>>
<1> DEFINE l == task[t].lock
           q == Tail(locks.queue[l])
<1>1. /\ l \in Locks /\ locks \in LockTables /\ t \in ToSet(locks.queue[l])
      /\ Head(locks.queue[l]) = t /\ IsInjective(locks.queue[l])
      /\ locks.queue[l] \in Seq(Tasks)
  BY DEF Queues, LockTables, Holding
<1>2. /\ q \in Seq(Tasks) /\ IsInjective(q)
      /\ \A u : u \in ToSet(q) <=> u \in ToSet(locks.queue[l]) /\ u # t
  BY <1>1, TailLemma
<1>3. /\ locks'.queue = [locks.queue EXCEPT ![l] = q]
      /\ locks'.table = table /\ locks'.made = locks.made
  OBVIOUS
<1>4. locks' = [table |-> locks'.table, made |-> locks'.made, queue |-> locks'.queue]
  OBVIOUS
<1> HIDE DEF q
<1>5. locks' \in LockTables
  <2>1. locks'.queue \in [Locks -> Seq(Tasks)]
    BY <1>1, <1>2, <1>3 DEF LockTables
  <2>2. locks'.table \in [Sockets -> 0 .. 2] /\ locks'.made \in [Sockets -> 0 .. 2]
    BY <1>1, <1>3 DEF LockTables
  <2> QED BY <1>4, <2>1, <2>2 DEF LockTables
<1>6. \A j \in Locks : locks'.queue[j] = IF j = l THEN q ELSE locks.queue[j]
  BY <1>1, <1>3 DEF LockTables
<1>7. locks.queue[l] # <<>>
  BY <1>1 DEF ToSet
<1> HIDE DEF l
<1>8. task[t].lock = l
  BY DEF l
<1>9. \A j \in Locks : IsInjective(locks'.queue[j])
  BY <1>2, <1>6 DEF Queues
<1>10. \A u \in Tasks, j \in Locks :
         u \in ToSet(locks'.queue[j]) <=> task'[u].pc \in Holding /\ task'[u].lock = j
  BY <1>2, <1>6, <1>8 DEF Queues
<1>11. \A u \in Tasks : task'[u].pc \in Holding => task'[u].lock \in Locks
  BY DEF Queues
<1>12. ASSUME NEW u \in Tasks, task'[u].pc \in Writing
       PROVE  Head(locks'.queue[task'[u].lock]) = u
  <2>1. u # t
    BY <1>12 DEF Holding
  <2>2. /\ task'[u] = task[u] /\ task[u].pc \in Writing /\ task[u].lock \in Locks
        /\ Head(locks.queue[task[u].lock]) = u
    BY <1>12, <2>1 DEF Queues, Holding
  <2>3. task[u].lock # l
    BY <1>1, <2>1, <2>2
  <2> QED BY <1>6, <2>2, <2>3
<1>13. Queues'
  BY <1>5, <1>9, <1>10, <1>11, <1>12 DEF Queues
<1> QED BY <1>6, <1>7, <1>13

\* The lock of t is handed on to it.
LEMMA WokenKeeps ==
  ASSUME Queues, NEW t \in Tasks, Woken(t)
  PROVE  /\ Queues' /\ task[t].pc \in Holding /\ task'[t].pc \in Holding
         /\ \A u \in Tasks \ {t} : task'[u] = task[u]
<1>1. task[t].lock[1] \in Sockets /\ task[t].lock \in Locks /\ task[t] \in TaskRecords
  BY LocksLemma DEF Queues, Woken, Holding
<1>2. SendsOn(task[t].lock[1]) \in Writing
  BY DEF SendsOn, Writing
<1>3. /\ task' = [task EXCEPT ![t].pc = SendsOn(task[t].lock[1])]
      /\ task \in [Tasks -> TaskRecords]
  BY DEF Woken, Queues
<1>4. /\ task' \in [Tasks -> TaskRecords] /\ task'[t].pc \in Writing
      /\ task'[t].lock = task[t].lock
      /\ \A u \in Tasks \ {t} : task'[u] = task[u]
  BY <1>2, <1>3 DEF TaskRecords, Holding
<1>5. task[t].pc \in Holding /\ task'[t].pc \in Holding
  BY <1>4 DEF Woken, Holding, Writing
<1>6. locks' = locks /\ Head(locks.queue[task[t].lock]) = t
  BY DEF Woken
<1> QED BY <1>4, <1>5, <1>6 DEF Queues

\* A task that has no lock is started or ends.
LEMMA OthersKeep ==
  ASSUME Queues, NEW t \in Tasks, task[t].pc \notin Holding, locks' = locks,
         task' \in [Tasks -> TaskRecords], task'[t].pc \notin Holding,
         \A u \in Tasks \ {t} : task'[u] = task[u]
  PROVE  Queues'
<1>1. \A u \in Tasks : /\ task'[u].pc \in Holding <=> task[u].pc \in Holding
                       /\ task'[u].pc \in Holding => task'[u] = task[u]
  OBVIOUS
<1>2. \A u \in Tasks : task'[u].pc \in Writing => task'[u] = task[u]
  BY DEF Holding
<1> QED BY <1>1, <1>2 DEF Queues

\* What the table of the locks needs of a step that asks for none.
LEMMA TablesKeep ==
  ASSUME OneLockWhileOpen, sock' \in [Sockets -> SocketRecords],
         locks'.made = locks.made,
         \A l \in Locks : locks.queue[l] = <<>> => locks'.queue[l] = <<>>,
         NEW s \in Sockets,
         \A u \in Sockets \ {s} : sock'[u] = sock[u] /\ locks'.table[u] = locks.table[u],
         \/ /\ sock'[s].handler # "left" /\ sock[s].handler # "left"
            /\ locks'.table[s] = locks.table[s]
         \/ /\ sock'[s].handler = sock[s].handler /\ sock'[s].st = "gone"
            /\ locks'.table[s] = locks.table[s]
         \/ /\ sock'[s].handler = "left" /\ sock'[s].st = "gone" /\ sock[s].handler # "left"
            /\ locks'.table[s] = 0
  PROVE  OneLockWhileOpen'
<1> SUFFICES ASSUME NEW u \in Sockets PROVE LocksOf(u)'
  BY DEF OneLockWhileOpen
<1>1. LocksOf(u)
  BY DEF OneLockWhileOpen
<1>2. \A k \in {1, 2} : locks.queue[<<u, k>>] = <<>> => locks'.queue[<<u, k>>] = <<>>
  BY LocksLemma
<1>3. CASE u # s
  BY <1>1, <1>2, <1>3 DEF LocksOf
<1>4. CASE u = s
  BY <1>1, <1>2, <1>4 DEF LocksOf
<1> QED BY <1>3, <1>4

-----------------------------------------------------------------------------
(* The steps.                                                               *)

Senders == Queues /\ OneLockWhileOpen /\ Replies /\ Fans

\* Frames that have no task yet still have none.
NoneStays ==
  \A c \in Commands, n \in 1 .. Frames :
    task[Frame(c, n)].pc = "none" => task'[Frame(c, n)].pc = "none"

\* A step of one task that has started, and that is no handler's.
LEMMA OneTaskMoves ==
  ASSUME Replies, Fans, NEW t \in Tasks, task[t].pc # "none", sock' = sock,
         \A u \in Tasks \ {t} : task'[u] = task[u],
         \A b \in Broadcasts : fan'[b].asked = fan[b].asked,
         \/ \A s \in Sockets : t # Reply(s)
         \/ task[t].pc \in Holding /\ task'[t].pc \in Holding
  PROVE  Replies' /\ Fans' /\ NoneStays
<1>1. \A u \in Tasks : task[u].pc = "none" => task'[u] = task[u]
  OBVIOUS
<1>2. NoneStays
  BY <1>1, TasksLemma DEF NoneStays
<1>3. Fans'
  BY <1>1, TasksLemma DEF Fans
<1>4. Replies'
  <2> SUFFICES ASSUME NEW s \in Sockets
               PROVE  /\ sock[s].handler \in {"reads", "awaits"} => task'[Reply(s)].pc = "none"
                      /\ sock[s].handler = "replies" => task'[Reply(s)].pc \in Holding
    BY DEF Replies
  <2>1. Reply(s) \in Tasks
    BY TasksLemma
  <2> QED BY <1>1, <2>1 DEF Replies
<1> QED BY <1>2, <1>3, <1>4

LEMMA HandlerKeeps ==
  ASSUME Shape, Senders, NEW s \in Sockets, Handler(s)
  PROVE  Senders' /\ NoneStays
<1> USE TasksLemma DEF Senders
<1>1. ASSUME NEW c \in Commands, Submits(s, c) PROVE Senders' /\ NoneStays
  <2>1. /\ sock' \in [Sockets -> SocketRecords] /\ sock'[s].handler = "awaits"
        /\ \A u \in Sockets \ {s} : sock'[u] = sock[u]
        /\ sock[s].handler = "reads" /\ UNCHANGED <<locks, task, fan>>
    BY <1>1 DEF Submits, OneLockWhileOpen, SocketRecords
  <2>2. Queues' /\ Fans' /\ NoneStays
    BY <2>1 DEF Queues, Fans, NoneStays
  <2>3. OneLockWhileOpen'
    BY <2>1, TablesKeep
  <2>4. Replies'
    BY <2>1 DEF Replies
  <2> QED BY <2>2, <2>3, <2>4
<1>2. ASSUME Answers(s) PROVE Senders' /\ NoneStays
  <2>1. /\ sock' \in [Sockets -> SocketRecords] /\ sock'[s].handler = "replies"
        /\ sock'[s].st = sock[s].st
        /\ \A u \in Sockets \ {s} : sock'[u] = sock[u]
        /\ sock[s].handler \in {"reads", "awaits"} /\ fan' = fan /\ Asks(Reply(s), s)
    BY <1>2 DEF Answers, OneLockWhileOpen, SocketRecords
  <2>2. task[Reply(s)].pc \notin Holding
    BY <2>1 DEF Replies, Holding, Writing
  <2>3. /\ Queues' /\ OneLockWhileOpen' /\ task'[Reply(s)].pc \in Holding
        /\ \A u \in Tasks \ {Reply(s)} : task'[u] = task[u]
    BY <2>1, <2>2, AsksKeeps
  <2>4. Fans' /\ NoneStays
    BY <2>1, <2>3 DEF Fans, NoneStays
  <2>5. Replies'
    BY <2>1, <2>3 DEF Replies
  <2> QED BY <2>3, <2>4, <2>5
<1>3. ASSUME Replied(s) PROVE Senders' /\ NoneStays
  <2> DEFINE t == Reply(s)
  <2>1. /\ sock' \in [Sockets -> SocketRecords] /\ sock'[s].handler = "reads"
        /\ \A u \in Sockets \ {s} : sock'[u] = sock[u]
        /\ sock[s].handler = "replies" /\ fan' = fan /\ Releases(t)
        /\ task[t].pc \in Writing /\ task' = [task EXCEPT ![t] = [pc |-> "none", lock |-> <<>>]]
    BY <1>3 DEF Replied, Returns, OneLockWhileOpen, SocketRecords, Writing
  <2>2. /\ task' \in [Tasks -> TaskRecords]
        /\ task'[t].pc = "none" /\ task'[t].pc \notin Holding
        /\ \A u \in Tasks \ {t} : task'[u] = task[u]
    BY <2>1 DEF Queues, TaskRecords, Holding, Writing
  <2>3. /\ locks.table \in [Sockets -> 0 .. 2]
        /\ locks' = [table |-> locks.table, made |-> locks.made,
              queue |-> [locks.queue EXCEPT ![task[t].lock] = Tail(locks.queue[task[t].lock])]]
    BY <2>1 DEF Releases, Queues, LockTables
  <2> HIDE DEF t
  <2>4. /\ Queues' /\ \A l \in Locks : locks.queue[l] = <<>> => locks'.queue[l] = <<>>
    BY <2>1, <2>2, <2>3, ReleaseKeeps DEF t
  <2>5. locks'.table = locks.table /\ locks'.made = locks.made
    BY <2>3
  <2>6. OneLockWhileOpen'
    BY <2>1, <2>4, <2>5, TablesKeep
  <2>7. Fans' /\ NoneStays
    BY <2>1, <2>2 DEF Fans, NoneStays, t
  <2>8. Replies'
    BY <2>1, <2>2 DEF Replies, t
  <2> QED BY <2>4, <2>6, <2>7, <2>8
<1>4. ASSUME ReplyFails(s) PROVE Senders' /\ NoneStays
  <2> DEFINE t == Reply(s)
  <2>1. /\ sock' \in [Sockets -> SocketRecords]
        /\ sock'[s].handler = "left" /\ sock'[s].st = "gone"
        /\ \A u \in Sockets \ {s} : sock'[u] = sock[u]
        /\ sock[s].handler = "replies" /\ fan' = fan
        /\ locks' = [locks EXCEPT !.table[s] = 0,
                                 !.queue[task[t].lock] = Tail(locks.queue[task[t].lock])]
        /\ task[t].pc \in Writing /\ task' = [task EXCEPT ![t] = Done]
    BY <1>4 DEF ReplyFails, Raises, Left, OneLockWhileOpen, SocketRecords, Writing
  <2>2. /\ task' \in [Tasks -> TaskRecords] /\ task'[t].pc \notin Holding
        /\ \A u \in Tasks \ {t} : task'[u] = task[u]
    BY <2>1 DEF Queues, TaskRecords, Holding, Writing, Done
  <2> DEFINE table == [locks.table EXCEPT ![s] = 0]
  <2>3. /\ table \in [Sockets -> 0 .. 2]
        /\ locks' = [table |-> table, made |-> locks.made,
              queue |-> [locks.queue EXCEPT ![task[t].lock] = Tail(locks.queue[task[t].lock])]]
    <3>1. locks \in LockTables
      BY DEF Queues
    <3>2. table \in [Sockets -> 0 .. 2]
      BY <3>1 DEF LockTables
    <3>3. locks = [table |-> locks.table, made |-> locks.made, queue |-> locks.queue]
      BY <3>1 DEF LockTables
    <3> HIDE DEF t
    <3> QED BY <2>1, <3>2, <3>3
  <2>4. table[s] = 0 /\ \A u \in Sockets \ {s} : table[u] = locks.table[u]
    BY DEF Queues, LockTables
  <2> HIDE DEF t, table
  <2>5. /\ Queues' /\ \A l \in Locks : locks.queue[l] = <<>> => locks'.queue[l] = <<>>
    BY <2>1, <2>2, <2>3, ReleaseKeeps DEF t
  <2>6. /\ locks'.made = locks.made /\ locks'.table[s] = 0
        /\ \A u \in Sockets \ {s} : locks'.table[u] = locks.table[u]
    BY <2>3, <2>4
  <2>7. OneLockWhileOpen'
    BY <2>1, <2>5, <2>6, TablesKeep
  <2>8. Fans' /\ NoneStays
    BY <2>1, <2>2 DEF Fans, NoneStays, t
  <2>9. Replies'
    BY <2>1, <2>2 DEF Replies, t
  <2> QED BY <2>5, <2>7, <2>8, <2>9
<1>5. ASSUME Leaves(s) PROVE Senders' /\ NoneStays
  <2>1. /\ sock' \in [Sockets -> SocketRecords]
        /\ sock'[s].handler = "left" /\ sock'[s].st = "gone"
        /\ \A u \in Sockets \ {s} : sock'[u] = sock[u]
    <3> DEFINE closed == [sock EXCEPT ![s].handler = "left"]
    <3>1. /\ closed \in [Sockets -> SocketRecords] /\ closed[s].handler = "left"
          /\ \A u \in Sockets \ {s} : closed[u] = sock[u]
      BY DEF OneLockWhileOpen, SocketRecords
    <3>2. sock' = [closed EXCEPT ![s].st = "gone"]
      BY <1>5 DEF Leaves, Left
    <3> HIDE DEF closed
    <3> QED BY <3>1, <3>2 DEF SocketRecords
  <2>2. /\ sock[s].handler = "reads" /\ UNCHANGED <<task, fan>>
        /\ locks' = [locks EXCEPT !.table[s] = 0]
    BY <1>5 DEF Leaves
  <2>3. /\ locks' \in LockTables /\ locks'.made = locks.made /\ locks'.queue = locks.queue
        /\ locks'.table[s] = 0
        /\ \A u \in Sockets \ {s} : locks'.table[u] = locks.table[u]
    <3>1. locks \in LockTables
      BY DEF Queues
    <3> DEFINE table == [locks.table EXCEPT ![s] = 0]
    <3>2. /\ table \in [Sockets -> 0 .. 2] /\ table[s] = 0
          /\ \A u \in Sockets \ {s} : table[u] = locks.table[u]
      BY <3>1 DEF LockTables
    <3>3. locks' = [table |-> table, made |-> locks.made, queue |-> locks.queue]
      BY <2>2, <3>1 DEF LockTables
    <3> HIDE DEF table
    <3> QED BY <3>1, <3>2, <3>3 DEF LockTables
  <2>4. Queues'
    BY <2>3, <2>2 DEF Queues
  <2>5. OneLockWhileOpen'
    BY <2>1, <2>3, <2>2, TablesKeep
  <2>6. Replies' /\ Fans' /\ NoneStays
    BY <2>1, <2>2 DEF Replies, Fans, NoneStays
  <2> QED BY <2>4, <2>5, <2>6
<1> QED BY <1>1, <1>2, <1>3, <1>4, <1>5 DEF Handler

\* The lock goes back from a task that is no handler's.
LEMMA SentKeeps ==
  ASSUME Senders, NEW t \in Tasks, \A s \in Sockets : t # Reply(s),
         task[t].pc \in Writing, Releases(t), NEW r \in {Starts, Done},
         task' = [task EXCEPT ![t] = r], sock' = sock,
         \A b \in Broadcasts : fan'[b].asked = fan[b].asked
  PROVE  Senders' /\ NoneStays
<1> USE DEF Senders
<1>1. /\ task' \in [Tasks -> TaskRecords] /\ task'[t].pc \notin Holding
      /\ \A u \in Tasks \ {t} : task'[u] = task[u]
  BY DEF Queues, TaskRecords, Starts, Done, Holding, Writing
<1>2. /\ locks.table \in [Sockets -> 0 .. 2]
      /\ locks' = [table |-> locks.table, made |-> locks.made,
            queue |-> [locks.queue EXCEPT ![task[t].lock] = Tail(locks.queue[task[t].lock])]]
  BY DEF Releases, Queues, LockTables
<1>3. Queues' /\ \A l \in Locks : locks.queue[l] = <<>> => locks'.queue[l] = <<>>
  BY <1>1, <1>2, ReleaseKeeps
<1>4. locks'.table = locks.table /\ locks'.made = locks.made
  BY <1>2
<1>5. OneLockWhileOpen'
  BY <1>3, <1>4, LocksLemma DEF OneLockWhileOpen, LocksOf
<1>6. task[t].pc # "none"
  BY DEF Writing
<1>7. Replies' /\ Fans' /\ NoneStays
  BY <1>1, <1>6, OneTaskMoves
<1> QED BY <1>3, <1>5, <1>7

LEMMA WokenKeepsAll ==
  ASSUME Senders, NEW t \in Tasks, Woken(t)
  PROVE  Senders' /\ NoneStays
<1> USE DEF Senders
<1>1. /\ Queues' /\ task[t].pc \in Holding /\ task'[t].pc \in Holding
      /\ \A u \in Tasks \ {t} : task'[u] = task[u]
  BY WokenKeeps
<1>2. UNCHANGED <<sock, locks, fan>>
  BY DEF Woken
<1>3. OneLockWhileOpen'
  BY <1>2 DEF OneLockWhileOpen, LocksOf
<1>4. task[t].pc # "none"
  BY <1>1 DEF Holding, Writing
<1>5. Replies' /\ Fans' /\ NoneStays
  BY <1>1, <1>2, <1>4, OneTaskMoves
<1> QED BY <1>1, <1>3, <1>5

LEMMA ClosesKeeps ==
  ASSUME Senders, NEW s \in Sockets, SocketCloses(s)
  PROVE  Senders' /\ NoneStays
<1> USE DEF Senders
<1>1. /\ sock' \in [Sockets -> SocketRecords]
      /\ sock'[s].handler = sock[s].handler /\ sock'[s].st = "gone"
      /\ \A u \in Sockets \ {s} : sock'[u] = sock[u]
      /\ UNCHANGED <<locks, task, fan>>
  BY DEF SocketCloses, OneLockWhileOpen, SocketRecords
<1>2. OneLockWhileOpen'
  BY <1>1, TablesKeep
<1>3. Queues' /\ Replies' /\ Fans' /\ NoneStays
  BY <1>1 DEF Queues, Replies, Fans, NoneStays
<1> QED BY <1>2, <1>3

\* A task that asks for the lock of s when it is its turn.
LEMMA StartedAsks ==
  ASSUME Senders, NEW t \in Tasks, \A s \in Sockets : t # Reply(s),
         task[t].pc = "starts", NEW s \in Sockets, Asks(t, s), sock' = sock,
         \A b \in Broadcasts : fan'[b].asked = fan[b].asked
  PROVE  Senders' /\ NoneStays
<1> USE DEF Senders
<1>1. task[t].pc \notin Holding /\ sock' \in [Sockets -> SocketRecords]
  BY DEF Holding, Writing, OneLockWhileOpen
<1>2. /\ Queues' /\ OneLockWhileOpen'
      /\ \A u \in Tasks \ {t} : task'[u] = task[u]
  BY <1>1, AsksKeeps
<1>3. Replies' /\ Fans' /\ NoneStays
  BY <1>2, OneTaskMoves
<1> QED BY <1>2, <1>3

FanRecords == [asked : SUBSET Sockets, left : Seq(Sockets), got : SUBSET Sockets]

LEMMA FanLemma ==
  ASSUME NEW f \in [Broadcasts -> FanRecords], NEW b \in Broadcasts, NEW r \in FanRecords
  PROVE  /\ [f EXCEPT ![b] = r] \in [Broadcasts -> FanRecords]
         /\ [f EXCEPT ![b] = r][b] = r
         /\ \A d \in Broadcasts \ {b} : [f EXCEPT ![b] = r][d] = f[d]
  OBVIOUS

LEMMA FanRecordLemma ==
  ASSUME NEW r \in FanRecords
  PROVE  /\ \A A \in SUBSET Sockets :
              [r EXCEPT !.asked = A] \in FanRecords /\ [r EXCEPT !.asked = A].asked = A
         /\ \A q \in Seq(Sockets) :
              [r EXCEPT !.left = q] \in FanRecords /\ [r EXCEPT !.left = q].asked = r.asked
         /\ \A s \in Sockets : LET g == [r EXCEPT !.got = r.got \union {s}]
                              IN  g \in FanRecords /\ g.asked = r.asked
  BY DEF FanRecords

LEMMA BroadcastKeeps ==
  ASSUME SendPathAssumption, Shape, Senders, NEW b \in Broadcasts, Broadcast(b)
  PROVE  Senders' /\ NoneStays /\ fan' \in [Broadcasts -> FanRecords]
<1> USE TasksLemma DEF Senders
<1> DEFINE t == Fan(b)
<1>1. Clients \in SUBSET Sockets /\ Cardinality(Clients) \in Nat
  <2>1. Clients \in SUBSET Sockets
    BY DEF Clients
  <2>2. IsFiniteSet(Clients)
    BY <2>1, FS_Subset DEF SendPathAssumption
  <2> QED BY <2>1, <2>2, FS_CardinalityType
<1>2. PICK targets \in SetToSeqs(Clients) :
        fan' = [fan EXCEPT ![b].asked = Clients, ![b].left = targets]
  BY DEF Broadcast
<1>3. targets \in Seq(Sockets)
  <2>1. targets \in [1 .. Cardinality(Clients) -> Clients]
    BY <1>2 DEF SetToSeqs
  <2> QED BY <1>1, <2>1
<1>4. /\ fan' \in [Broadcasts -> FanRecords]
      /\ \A d \in Broadcasts : fan'[d].asked = {} => fan[d].asked = {} /\ d # b
  <2> DEFINE asked == [fan EXCEPT ![b].asked = Clients]
  <2>1. /\ asked \in [Broadcasts -> FanRecords] /\ asked[b].asked = Clients
        /\ \A d \in Broadcasts \ {b} : asked[d] = fan[d]
    <3> DEFINE r == [fan[b] EXCEPT !.asked = Clients]
    <3>1. fan \in [Broadcasts -> FanRecords]
      BY DEF Shape, FanRecords
    <3>2. r \in FanRecords /\ r.asked = Clients
      BY <1>1, <3>1, FanRecordLemma
    <3>3. asked = [fan EXCEPT ![b] = r]
      OBVIOUS
    <3> HIDE DEF r, asked
    <3> QED BY <3>1, <3>2, <3>3, FanLemma
  <2>2. fan' = [asked EXCEPT ![b].left = targets]
    BY <1>2
  <2>3. Clients # {}
    BY DEF Broadcast
  <2> HIDE DEF asked
  <2>4. /\ fan' \in [Broadcasts -> FanRecords]
        /\ \A d \in Broadcasts : fan'[d].asked = asked[d].asked
    <3> DEFINE r == [asked[b] EXCEPT !.left = targets]
    <3>1. r \in FanRecords /\ r.asked = asked[b].asked
      BY <1>3, <2>1, FanRecordLemma
    <3>2. fan' = [asked EXCEPT ![b] = r]
      BY <2>2
    <3> HIDE DEF r
    <3> QED BY <2>1, <3>1, <3>2, FanLemma
  <2> QED BY <2>1, <2>3, <2>4
<1>5. /\ fan[b].asked = {} /\ UNCHANGED <<sock, locks>> /\ task' = [task EXCEPT ![t] = Starts]
  BY DEF Broadcast
<1>6. task[t].pc = "none" /\ task[t].pc \notin Holding
  BY <1>5 DEF Fans, Holding, Writing
<1>7. /\ task' \in [Tasks -> TaskRecords] /\ task'[t].pc \notin Holding
      /\ \A u \in Tasks \ {t} : task'[u] = task[u]
  BY <1>5 DEF Queues, TaskRecords, Starts, Holding, Writing
<1>8. Queues'
  BY <1>5, <1>6, <1>7, OthersKeep
<1>9. OneLockWhileOpen'
  BY <1>5 DEF OneLockWhileOpen, LocksOf
<1>10. Replies' /\ NoneStays
  BY <1>5, <1>7 DEF Replies, NoneStays
<1>11. Fans'
  BY <1>4, <1>7 DEF Fans
<1> QED BY <1>4, <1>8, <1>9, <1>10, <1>11

LEMMA FanKeeps ==
  ASSUME Shape, Senders, NEW b \in Broadcasts, FanRuns(b)
  PROVE  Senders' /\ NoneStays /\ fan' \in [Broadcasts -> FanRecords]
<1> USE TasksLemma
<1> DEFINE t == Fan(b)
<1>0. fan \in [Broadcasts -> FanRecords]
  BY DEF Shape, FanRecords
<1>1. ASSUME FanNext(b), fan[b].left = <<>>
      PROVE  Senders' /\ NoneStays /\ fan' \in [Broadcasts -> FanRecords]
  <2>1. /\ task[t].pc = "starts" /\ UNCHANGED <<sock, locks, fan>>
        /\ task' = [task EXCEPT ![t] = Done]
    BY <1>1 DEF FanNext
  <2>2. /\ task' \in [Tasks -> TaskRecords] /\ task'[t].pc \notin Holding
        /\ task[t].pc \notin Holding
        /\ \A u \in Tasks \ {t} : task'[u] = task[u]
    BY <2>1 DEF Senders, Queues, TaskRecords, Done, Holding, Writing
  <2>3. Queues'
    BY <2>1, <2>2, OthersKeep DEF Senders
  <2>4. OneLockWhileOpen'
    BY <2>1 DEF Senders, OneLockWhileOpen, LocksOf
  <2>5. Replies' /\ Fans' /\ NoneStays
    BY <2>1, <2>2, OneTaskMoves DEF Senders
  <2> QED BY <1>0, <2>1, <2>3, <2>4, <2>5 DEF Senders
<1>2. ASSUME FanNext(b), fan[b].left # <<>>
      PROVE  Senders' /\ NoneStays /\ fan' \in [Broadcasts -> FanRecords]
  <2>1. /\ task[t].pc = "starts" /\ sock' = sock
        /\ Asks(t, Head(fan[b].left)) /\ fan' = [fan EXCEPT ![b].left = Tail(fan[b].left)]
    BY <1>2 DEF FanNext
  <2>2. /\ Head(fan[b].left) \in Sockets /\ Tail(fan[b].left) \in Seq(Sockets)
    BY <1>0, <1>2 DEF FanRecords
  <2>3. /\ fan' \in [Broadcasts -> FanRecords]
        /\ \A d \in Broadcasts : fan'[d].asked = fan[d].asked
    <3> DEFINE r == [fan[b] EXCEPT !.left = Tail(fan[b].left)]
    <3>1. r \in FanRecords /\ r.asked = fan[b].asked
      BY <1>0, <2>2, FanRecordLemma
    <3>2. fan' = [fan EXCEPT ![b] = r]
      BY <2>1
    <3> HIDE DEF r
    <3> QED BY <1>0, <3>1, <3>2, FanLemma
  <2>4. Senders' /\ NoneStays
    BY <2>1, <2>2, <2>3, StartedAsks
  <2> QED BY <2>3, <2>4
<1>3. ASSUME FanSent(b)
      PROVE  Senders' /\ NoneStays /\ fan' \in [Broadcasts -> FanRecords]
  <2>1. task[t].pc \in Writing /\ sock' = sock /\ Releases(t)
    BY <1>3 DEF FanSent, Returns, Raises, Writing
  <2>2. task[t].lock[1] \in Sockets
    BY <2>1, LocksLemma DEF Senders, Queues, Holding
  <2>3. task' = [task EXCEPT ![t] = Starts]
    BY <1>3 DEF FanSent, AfterFailure
  <2>4. fan' = [fan EXCEPT ![b].got = fan[b].got \union {task[t].lock[1]}] \/ fan' = fan
    BY <1>3 DEF FanSent
  <2>5. /\ fan' \in [Broadcasts -> FanRecords]
        /\ \A d \in Broadcasts : fan'[d].asked = fan[d].asked
    <3> DEFINE r == [fan[b] EXCEPT !.got = fan[b].got \union {task[t].lock[1]}]
    <3>1. r \in FanRecords /\ r.asked = fan[b].asked
      BY <1>0, <2>2, FanRecordLemma
    <3>2. fan' = [fan EXCEPT ![b] = r] \/ fan' = fan
      BY <2>4
    <3> HIDE DEF r
    <3> QED BY <1>0, <3>1, <3>2, FanLemma
  <2>6. Senders' /\ NoneStays
    BY <2>1, <2>3, <2>5, SentKeeps
  <2> QED BY <2>5, <2>6
<1>4. ASSUME Woken(t)
      PROVE  Senders' /\ NoneStays /\ fan' \in [Broadcasts -> FanRecords]
  BY <1>0, <1>4, WokenKeepsAll DEF Woken
<1> QED BY <1>1, <1>2, <1>3, <1>4 DEF FanRuns

LEMMA FrameKeeps ==
  ASSUME SendPathAssumption, Senders, NEW c \in Commands, NEW n \in 1 .. Frames,
         FrameStarts(c, n) \/ FrameSent(c, n) \/ Woken(Frame(c, n))
  PROVE  Senders' /\ NoneStays
<1> DEFINE t == Frame(c, n)
<1>1. t \in Tasks /\ \A s \in Sockets : t # Reply(s)
  BY TasksLemma
<1>2. CASE FrameStarts(c, n)
  <2>1. /\ task[t].pc = "starts" /\ CommandOf[c] \in Sockets /\ Asks(t, CommandOf[c])
        /\ UNCHANGED <<sock, fan>>
    BY <1>2 DEF FrameStarts, SendPathAssumption
  <2> QED BY <1>1, <2>1, StartedAsks
<1>3. CASE FrameSent(c, n)
  <2>1. /\ task[t].pc \in Writing /\ Releases(t) /\ task' = [task EXCEPT ![t] = Done]
        /\ UNCHANGED <<sock, fan>>
    BY <1>3 DEF FrameSent, Returns, Raises, Writing
  <2> QED BY <1>1, <2>1, SentKeeps
<1>4. CASE Woken(t)
  BY <1>1, <1>4, WokenKeepsAll
<1> QED BY <1>2, <1>3, <1>4

-----------------------------------------------------------------------------
(* The reporters.                                                           *)

\* One reporter changes, and no task is started.
LEMMA ReporterMoves ==
  ASSUME FramesToCome, NoneStays, NEW c \in Commands,
         \A d \in Commands \ {c} : ReporterOf(d)' /\ rep'[d] = rep[d],
         ReporterOf(c)',
         \A n \in 1 .. Frames : ToCome(c, n)' => ToCome(c, n)
  PROVE  FramesToCome'
<1> SUFFICES ASSUME NEW d \in Commands
             PROVE  /\ ReporterOf(d)'
                    /\ \A n \in 1 .. Frames : ToCome(d, n)' => task'[Frame(d, n)].pc = "none"
  BY DEF FramesToCome
<1>1. CASE d = c
  BY <1>1 DEF FramesToCome, NoneStays
<1>2. CASE d # c
  BY <1>2 DEF FramesToCome, NoneStays, ToCome
<1> QED BY <1>1, <1>2

\* None does.
LEMMA ReportersStay ==
  ASSUME FramesToCome, NoneStays, UNCHANGED <<rep, main, flushing>>
  PROVE  FramesToCome'
  BY DEF FramesToCome, NoneStays, ReporterOf, Fresh, ToCome

\* What the steps make of a reporter's record.
LEMMA ReporterUpdate ==
  ASSUME NEW f \in [Commands -> ReporterRecords], NEW c \in Commands, NEW r \in ReporterRecords,
         NEW g, g = [f EXCEPT ![c] = r]
  PROVE  /\ g \in [Commands -> ReporterRecords] /\ g[c] = r
         /\ \A d \in Commands \ {c} : g[d] = f[d]
  OBVIOUS

LEMMA GivenLemma ==
  ASSUME NEW r \in ReporterRecords, NEW x \in 0 .. Frames, NEW b \in BOOLEAN,
         NEW s, s = [r EXCEPT !.pending = x, !.given = x, !.raced = b]
  PROVE  /\ s \in ReporterRecords
         /\ s = [st |-> r.st, pending |-> x, scheduled |-> r.scheduled, queued |-> r.queued,
                  read |-> r.read, step |-> r.step, given |-> x, taken |-> r.taken, raced |-> b]
  BY DEF ReporterRecords

LEMMA ScheduledLemma ==
  ASSUME NEW r \in ReporterRecords, NEW k \in 0 .. 1,
         NEW s, s = [r EXCEPT !.scheduled = TRUE, !.queued = k]
  PROVE  /\ s \in ReporterRecords
         /\ s = [st |-> r.st, pending |-> r.pending, scheduled |-> TRUE, queued |-> k,
                  read |-> r.read, step |-> r.step, given |-> r.given,
                  taken |-> r.taken, raced |-> r.raced]
  BY SendPathAssumption DEF SendPathAssumption, ReporterRecords

LEMMA ReadLemma ==
  ASSUME NEW r \in ReporterRecords, NEW k \in 0 .. 1, NEW x \in 0 .. Frames,
         NEW s, s = [r EXCEPT !.queued = k, !.read = x, !.step = "read"]
  PROVE  /\ s \in ReporterRecords
         /\ s = [st |-> r.st, pending |-> r.pending, scheduled |-> r.scheduled, queued |-> k,
                  read |-> x, step |-> "read", given |-> r.given,
                  taken |-> r.taken, raced |-> r.raced]
  BY SendPathAssumption DEF SendPathAssumption, ReporterRecords

LEMMA ClearedLemma ==
  ASSUME NEW r \in ReporterRecords, NEW z \in 0 .. Frames,
         NEW s, s = [r EXCEPT !.pending = z, !.step = "cleared"]
  PROVE  /\ s \in ReporterRecords
         /\ s = [st |-> r.st, pending |-> z, scheduled |-> r.scheduled, queued |-> r.queued,
                  read |-> r.read, step |-> "cleared", given |-> r.given,
                  taken |-> r.taken, raced |-> r.raced]
  BY DEF ReporterRecords

LEMMA FlushedLemma ==
  ASSUME NEW r \in ReporterRecords, NEW x \in 0 .. Frames, NEW z \in 0 .. Frames,
         NEW s, s = [r EXCEPT !.scheduled = FALSE, !.step = "idle", !.read = z,
                       !.taken = x]
  PROVE  /\ s \in ReporterRecords
         /\ s = [st |-> r.st, pending |-> r.pending, scheduled |-> FALSE, queued |-> r.queued,
                  read |-> z, step |-> "idle", given |-> r.given,
                  taken |-> x, raced |-> r.raced]
  BY DEF ReporterRecords

LEMMA MainKeeps ==
  ASSUME SendPathAssumption, Shape, FramesToCome,
         \/ SendSets \/ SendSchedules \/ MainResolves
         \/ \E c \in Commands : MainTakes(c)
  PROVE  Shape' /\ FramesToCome'
<1> USE SendPathAssumption
<1>0. NoneStays /\ fan' = fan /\ flushing' = flushing
  BY DEF SendSets, SendSchedules, MainResolves, MainTakes, NoneStays
<1>1. ASSUME NEW c \in Commands, MainTakes(c) PROVE Shape' /\ FramesToCome'
  <2>1. /\ main' = [cmd |-> c, frame |-> 0, pc |-> "runs"]
        /\ main.pc = "idle" /\ rep[c].st = "submitted"
        /\ rep' = [rep EXCEPT ![c].st = "taken"]
    BY <1>1 DEF MainTakes
  <2>2. /\ rep' \in [Commands -> ReporterRecords]
        /\ rep'[c] = [rep[c] EXCEPT !.st = "taken"]
        /\ \A d \in Commands \ {c} : rep'[d] = rep[d]
    BY <2>1 DEF Shape, ReporterRecords
  <2>3. Shape'
    BY <1>0, <2>1, <2>2 DEF Shape
  <2>4. \A d \in Commands \ {c} : ReporterOf(d)'
    BY <1>0, <2>1, <2>2 DEF FramesToCome, ReporterOf, Fresh
  <2>5. ReporterOf(c)'
    BY <1>0, <2>1, <2>2 DEF FramesToCome, ReporterOf, Fresh, Shape, ReporterRecords
  <2>6. \A n \in 1 .. Frames : ToCome(c, n)' => ToCome(c, n)
    BY <2>2 DEF ToCome, Shape, ReporterRecords
  <2> QED BY <1>0, <2>2, <2>3, <2>4, <2>5, <2>6, ReporterMoves
<1>2. ASSUME SendSets PROVE Shape' /\ FramesToCome'
  <2>0. PICK c \in Commands : c = main.cmd
    BY <1>2 DEF SendSets, Shape
  <2>1. /\ main' = [cmd |-> main.cmd, frame |-> main.frame + 1, pc |-> "pended"]
        /\ main.pc = "runs" /\ main.frame < Frames
        /\ rep' = [rep EXCEPT ![c].pending = main.frame + 1, ![c].given = main.frame + 1,
                             ![c].raced = (flushing = c)]
    BY <1>2, <2>0 DEF SendSets
  <2>2. /\ rep' \in [Commands -> ReporterRecords]
        /\ rep'[c] = [st |-> rep[c].st, pending |-> main.frame + 1, scheduled |-> rep[c].scheduled,
                      queued |-> rep[c].queued, read |-> rep[c].read, step |-> rep[c].step,
                      given |-> main.frame + 1, taken |-> rep[c].taken,
                      raced |-> (flushing = c)]
        /\ \A d \in Commands \ {c} : rep'[d] = rep[d]
    <3> DEFINE x == main.frame + 1
               b == (flushing = c)
               r == [rep[c] EXCEPT !.pending = x, !.given = x, !.raced = b]
    <3>1. rep \in [Commands -> ReporterRecords]
      BY DEF Shape
    <3>2. x \in 0 .. Frames /\ b \in BOOLEAN
      BY <2>1 DEF Shape
    <3>3. rep' = [rep EXCEPT ![c].pending = x, ![c].given = x, ![c].raced = b]
      BY <2>1
    <3> HIDE DEF x, b
    <3>4. rep' = [rep EXCEPT ![c] = r]
      BY <3>1, <3>2, <3>3 DEF ReporterRecords
    <3>5. /\ r \in ReporterRecords
          /\ r = [st |-> rep[c].st, pending |-> x, scheduled |-> rep[c].scheduled,
                  queued |-> rep[c].queued, read |-> rep[c].read, step |-> rep[c].step,
                  given |-> x, taken |-> rep[c].taken, raced |-> b]
      BY <3>1, <3>2, GivenLemma
    <3> HIDE DEF r
    <3> QED BY <3>1, <3>4, <3>5, ReporterUpdate DEF x, b
  <2>3. Shape'
    <3>1. main' \in [cmd : Commands \union {NoCommand}, frame : 0 .. Frames,
                     pc : {"idle", "runs", "pended"}]
      BY <2>1 DEF Shape
    <3>2. main'.pc # "idle" => main'.cmd \in Commands
      BY <2>0, <2>1 DEF Shape
    <3> QED BY <1>0, <2>2, <3>1, <3>2 DEF Shape
  <2>4. \A d \in Commands \ {c} : ReporterOf(d)'
    BY <1>0, <2>0, <2>1, <2>2 DEF FramesToCome, ReporterOf, Fresh
  <2>5. ReporterOf(c)'
    BY <1>0, <2>0, <2>1, <2>2 DEF FramesToCome, ReporterOf, Fresh, Shape, ReporterRecords
  <2>6. \A n \in 1 .. Frames : ToCome(c, n)' => ToCome(c, n)
    BY <2>0, <2>1, <2>2 DEF ToCome, FramesToCome, ReporterOf, Fresh, Shape, ReporterRecords
  <2> QED BY <1>0, <2>1, <2>2, <2>3, <2>4, <2>5, <2>6, ReporterMoves
<1>3. ASSUME SendSchedules PROVE Shape' /\ FramesToCome'
  <2>0. PICK c \in Commands : c = main.cmd
    BY <1>3 DEF SendSchedules, Shape
  <2>1. /\ c = main.cmd
        /\ main' = [main EXCEPT !.pc = "runs"] /\ main.pc = "pended" /\ c \in Commands
        /\ rep' = [rep EXCEPT ![c] = Scheduled(c)]
    BY <1>3, <2>0 DEF SendSchedules
  <2>2. /\ rep' \in [Commands -> ReporterRecords]
        /\ rep[c].scheduled => rep'[c] = rep[c]
        /\ ~rep[c].scheduled =>
             rep'[c] = [st |-> rep[c].st, pending |-> rep[c].pending, scheduled |-> TRUE, queued |-> 1,
                        read |-> rep[c].read, step |-> rep[c].step, given |-> rep[c].given,
                        taken |-> rep[c].taken, raced |-> rep[c].raced]
        /\ \A d \in Commands \ {c} : rep'[d] = rep[d]
    <3>1. rep \in [Commands -> ReporterRecords] /\ rep[c] \in ReporterRecords
      BY DEF Shape
    <3>2. CASE rep[c].scheduled
      <4>1. Scheduled(c) = rep[c]
        BY <3>2 DEF Scheduled
      <4> QED BY <2>1, <3>1, <3>2, <4>1
    <3>3. CASE ~rep[c].scheduled
      <4> DEFINE k == rep[c].queued + 1
                 r == [rep[c] EXCEPT !.scheduled = TRUE, !.queued = k]
      <4>1. k = 1
        BY <3>1, <3>3 DEF FramesToCome, ReporterOf, Fresh, ReporterRecords
      <4>2. rep' = [rep EXCEPT ![c] = r]
        BY <2>1, <3>3 DEF Scheduled
      <4> HIDE DEF k
      <4>3. /\ r \in ReporterRecords
            /\ r = [st |-> rep[c].st, pending |-> rep[c].pending, scheduled |-> TRUE, queued |-> k,
                    read |-> rep[c].read, step |-> rep[c].step, given |-> rep[c].given,
                    taken |-> rep[c].taken, raced |-> rep[c].raced]
        <5>1. k \in 0 .. 1
          BY <4>1
        <5> QED BY <3>1, <5>1, ScheduledLemma, Zenon
      <4> HIDE DEF r
      <4> QED BY <3>1, <3>3, <4>1, <4>2, <4>3, ReporterUpdate
    <3> QED BY <3>2, <3>3
  <2>3. Shape'
    <3>1. main' \in [cmd : Commands \union {NoCommand}, frame : 0 .. Frames,
                     pc : {"idle", "runs", "pended"}]
      BY <2>1 DEF Shape
    <3>2. main'.pc # "idle" => main'.cmd \in Commands
      BY <2>0, <2>1 DEF Shape
    <3> QED BY <1>0, <2>2, <3>1, <3>2 DEF Shape
  <2>4. \A d \in Commands \ {c} : ReporterOf(d)'
    BY <1>0, <2>0, <2>1, <2>2 DEF FramesToCome, ReporterOf, Fresh
  <2>5. ReporterOf(c)'
    <3>1. /\ ReporterOf(c) /\ main'.cmd = main.cmd /\ main'.frame = main.frame
          /\ main.pc # "idle" /\ main'.pc # "idle"
      BY <2>0, <2>1 DEF FramesToCome, Shape
    <3>2. CASE rep[c].scheduled
      BY <1>0, <2>2, <3>1, <3>2 DEF ReporterOf, Fresh
    <3>3. CASE ~rep[c].scheduled
      <4>1. /\ rep'[c].st = rep[c].st /\ rep'[c].pending = rep[c].pending
            /\ rep'[c].scheduled /\ rep'[c].read = rep[c].read
            /\ rep'[c].step = rep[c].step /\ rep'[c].given = rep[c].given
            /\ rep'[c].queued = 1 /\ rep'[c].taken = rep[c].taken
            /\ rep'[c].raced = rep[c].raced
        BY <2>2, <3>3
      <4> QED BY <1>0, <3>1, <3>3, <4>1 DEF ReporterOf, Fresh
    <3> QED BY <3>2, <3>3
  <2>6. \A n \in 1 .. Frames : ToCome(c, n)' => ToCome(c, n)
    BY <2>0, <2>1, <2>2 DEF ToCome, FramesToCome, ReporterOf, Fresh, Shape, ReporterRecords
  <2> QED BY <1>0, <2>1, <2>2, <2>3, <2>4, <2>5, <2>6, ReporterMoves
<1>4. ASSUME MainResolves PROVE Shape' /\ FramesToCome'
  <2>0. PICK c \in Commands : c = main.cmd
    BY <1>4 DEF MainResolves, Shape
  <2>1. /\ c = main.cmd
        /\ main' = [cmd |-> NoCommand, frame |-> 0, pc |-> "idle"]
        /\ main.pc = "runs" /\ c \in Commands
        /\ rep' = [rep EXCEPT ![c].st = "done"]
    BY <1>4, <2>0 DEF MainResolves
  <2>2. /\ rep' \in [Commands -> ReporterRecords]
        /\ rep'[c] = [rep[c] EXCEPT !.st = "done"]
        /\ \A d \in Commands \ {c} : rep'[d] = rep[d]
    <3> DEFINE r == [rep[c] EXCEPT !.st = "done"]
    <3>1. rep \in [Commands -> ReporterRecords]
      BY DEF Shape
    <3>2. r \in ReporterRecords
      BY <2>1, <3>1 DEF ReporterRecords
    <3>3. rep' = [rep EXCEPT ![c] = r]
      BY <2>1
    <3> HIDE DEF r
    <3>4. rep' \in [Commands -> ReporterRecords] /\ rep'[c] = r
          /\ \A d \in Commands \ {c} : rep'[d] = rep[d]
      BY <3>1, <3>2, <3>3
    <3> QED BY <3>4 DEF r
  <2>3. Shape'
    <3>1. main' \in [cmd : Commands \union {NoCommand}, frame : 0 .. Frames,
                     pc : {"idle", "runs", "pended"}]
      BY <2>1 DEF Shape
    <3>2. main'.pc # "idle" => main'.cmd \in Commands
      BY <2>0, <2>1 DEF Shape
    <3> QED BY <1>0, <2>2, <3>1, <3>2 DEF Shape
  <2>4. \A d \in Commands \ {c} : ReporterOf(d)'
    BY <1>0, <2>0, <2>1, <2>2 DEF FramesToCome, ReporterOf, Fresh
  <2>5. ReporterOf(c)'
    BY <1>0, <2>0, <2>1, <2>2 DEF FramesToCome, ReporterOf, Fresh, Shape, ReporterRecords
  <2>6. \A n \in 1 .. Frames : ToCome(c, n)' => ToCome(c, n)
    BY <2>0, <2>1, <2>2 DEF ToCome, FramesToCome, ReporterOf, Fresh, Shape, ReporterRecords
  <2> QED BY <1>0, <2>1, <2>2, <2>3, <2>4, <2>5, <2>6, ReporterMoves
<1> QED BY <1>1, <1>2, <1>3, <1>4

LEMMA FlushKeeps ==
  ASSUME SendPathAssumption, Shape, FramesToCome, NEW c \in Commands,
         FlushReads(c) \/ FlushClears(c) \/ FlushEnds(c)
  PROVE  Shape' /\ FramesToCome'
<1> USE SendPathAssumption DEF SendPathAssumption
<1>1. ASSUME FlushReads(c) PROVE Shape' /\ FramesToCome'
  <2>0. rep \in [Commands -> ReporterRecords] /\ rep[c] \in ReporterRecords /\ ReporterOf(c)
    BY DEF Shape, FramesToCome
  <2>1. /\ UNCHANGED <<task, main, fan>> /\ flushing = NoCommand /\ flushing' = c
        /\ rep[c].queued > 0
        /\ rep' = [rep EXCEPT ![c].queued = rep[c].queued - 1, ![c].read = rep[c].pending,
                             ![c].step = "read"]
    BY <1>1 DEF FlushReads, LoopFree
  <2>2. rep[c].queued = 1
    BY <2>0, <2>1 DEF ReporterRecords
  <2>3. /\ rep' \in [Commands -> ReporterRecords]
        /\ rep'[c] = [st |-> rep[c].st, pending |-> rep[c].pending, scheduled |-> rep[c].scheduled,
                      queued |-> 0, read |-> rep[c].pending, step |-> "read",
                      given |-> rep[c].given, taken |-> rep[c].taken, raced |-> rep[c].raced]
        /\ \A d \in Commands \ {c} : rep'[d] = rep[d]
    <3> DEFINE k == rep[c].queued - 1
               x == rep[c].pending
               r == [rep[c] EXCEPT !.queued = k, !.read = x, !.step = "read"]
    <3>1. k = 0 /\ k \in 0 .. 1 /\ x \in 0 .. Frames
      BY <2>0, <2>2 DEF ReporterRecords
    <3>2. rep' = [rep EXCEPT ![c].queued = k, ![c].read = x, ![c].step = "read"]
      BY <2>1
    <3> HIDE DEF k, x
    <3>3. rep' = [rep EXCEPT ![c] = r]
      BY <2>0, <3>1, <3>2 DEF ReporterRecords
    <3>4. /\ r \in ReporterRecords
          /\ r = [st |-> rep[c].st, pending |-> rep[c].pending, scheduled |-> rep[c].scheduled,
                  queued |-> k, read |-> x, step |-> "read",
                  given |-> rep[c].given, taken |-> rep[c].taken, raced |-> rep[c].raced]
      BY <2>0, <3>1, ReadLemma, Zenon
    <3> HIDE DEF r
    <3> QED BY <2>0, <3>1, <3>3, <3>4, ReporterUpdate DEF x
  <2>4. Shape'
    BY <2>1, <2>3 DEF Shape
  <2>5. \A d \in Commands \ {c} : ReporterOf(d)'
    BY <2>1, <2>3 DEF FramesToCome, ReporterOf, Fresh
  <2>6. ReporterOf(c)'
    BY <2>0, <2>1, <2>3 DEF FramesToCome, ReporterOf, Fresh, ReporterRecords
  <2>7. \A n \in 1 .. Frames : ToCome(c, n)' => ToCome(c, n)
    BY <2>3 DEF ToCome
  <2>8. NoneStays
    BY <2>1 DEF NoneStays
  <2> QED BY <2>3, <2>4, <2>5, <2>6, <2>7, <2>8, ReporterMoves
<1>2. ASSUME FlushClears(c) PROVE Shape' /\ FramesToCome'
  <2>0. rep \in [Commands -> ReporterRecords] /\ rep[c] \in ReporterRecords /\ ReporterOf(c)
    BY DEF Shape, FramesToCome
  <2>1. /\ UNCHANGED <<task, main, fan>> /\ flushing = c /\ flushing' = c
        /\ rep' = [rep EXCEPT ![c].pending = 0, ![c].step = "cleared"]
    BY <1>2 DEF FlushClears
  <2>3. /\ rep' \in [Commands -> ReporterRecords]
        /\ rep'[c] = [st |-> rep[c].st, pending |-> 0, scheduled |-> rep[c].scheduled,
                      queued |-> rep[c].queued, read |-> rep[c].read, step |-> "cleared",
                      given |-> rep[c].given, taken |-> rep[c].taken, raced |-> rep[c].raced]
        /\ \A d \in Commands \ {c} : rep'[d] = rep[d]
    <3> DEFINE z == 0
               r == [rep[c] EXCEPT !.pending = z, !.step = "cleared"]
    <3>1. z = 0 /\ z \in 0 .. Frames
      OBVIOUS
    <3>2. rep' = [rep EXCEPT ![c].pending = z, ![c].step = "cleared"]
      BY <2>1
    <3> HIDE DEF z
    <3>3. rep' = [rep EXCEPT ![c] = r]
      BY <2>0, <3>1, <3>2 DEF ReporterRecords
    <3>4. /\ r \in ReporterRecords
          /\ r = [st |-> rep[c].st, pending |-> z, scheduled |-> rep[c].scheduled,
                  queued |-> rep[c].queued, read |-> rep[c].read, step |-> "cleared",
                  given |-> rep[c].given, taken |-> rep[c].taken, raced |-> rep[c].raced]
      BY <2>0, <3>1, ClearedLemma, Zenon
    <3> HIDE DEF r
    <3> QED BY <2>0, <3>1, <3>3, <3>4, ReporterUpdate
  <2>4. Shape'
    BY <2>1, <2>3 DEF Shape
  <2>5. \A d \in Commands \ {c} : ReporterOf(d)'
    BY <2>1, <2>3 DEF FramesToCome, ReporterOf, Fresh
  <2>6. ReporterOf(c)'
    BY <2>0, <2>1, <2>3 DEF FramesToCome, ReporterOf, Fresh, ReporterRecords
  <2>7. \A n \in 1 .. Frames : ToCome(c, n)' => ToCome(c, n)
    BY <2>3 DEF ToCome
  <2>8. NoneStays
    BY <2>1 DEF NoneStays
  <2> QED BY <2>3, <2>4, <2>5, <2>6, <2>7, <2>8, ReporterMoves
<1>3. ASSUME FlushEnds(c) PROVE Shape' /\ FramesToCome'
  <2>0. rep \in [Commands -> ReporterRecords] /\ rep[c] \in ReporterRecords /\ ReporterOf(c)
    BY DEF Shape, FramesToCome
  <2>1. /\ UNCHANGED <<main, fan>> /\ flushing = c /\ flushing' = NoCommand
        /\ rep[c].step = "cleared" /\ rep' = [rep EXCEPT ![c] = Flushed(c)]
        /\ task' = IF rep[c].read = 0 THEN task
                   ELSE [task EXCEPT ![Frame(c, rep[c].read)].pc = "starts"]
    BY <1>3 DEF FlushEnds
  <2> DEFINE x == IF rep[c].read = 0 THEN rep[c].taken ELSE rep[c].read
  <2>3. /\ rep' \in [Commands -> ReporterRecords]
        /\ rep'[c] = [st |-> rep[c].st, pending |-> rep[c].pending, scheduled |-> FALSE,
                      queued |-> rep[c].queued, read |-> 0, step |-> "idle",
                      given |-> rep[c].given, taken |-> x, raced |-> rep[c].raced]
        /\ \A d \in Commands \ {c} : rep'[d] = rep[d]
    <3> DEFINE z == 0
               r == [rep[c] EXCEPT !.scheduled = FALSE, !.step = "idle", !.read = z, !.taken = x]
    <3>1. z = 0 /\ z \in 0 .. Frames /\ x \in 0 .. Frames
      BY <2>0 DEF ReporterRecords
    <3>2. rep' = [rep EXCEPT ![c] = r]
      BY <2>1 DEF Flushed
    <3> HIDE DEF z, x
    <3>3. /\ r \in ReporterRecords
          /\ r = [st |-> rep[c].st, pending |-> rep[c].pending, scheduled |-> FALSE,
                  queued |-> rep[c].queued, read |-> z, step |-> "idle",
                  given |-> rep[c].given, taken |-> x, raced |-> rep[c].raced]
      BY <2>0, <3>1, FlushedLemma, Zenon
    <3> HIDE DEF r
    <3> QED BY <2>0, <3>1, <3>2, <3>3, ReporterUpdate
  <2> HIDE DEF x
  <2>4. Shape'
    BY <2>1, <2>3 DEF Shape
  <2>5. \A d \in Commands \ {c} : ReporterOf(d)'
    BY <2>1, <2>3 DEF FramesToCome, ReporterOf, Fresh
  <2>6. ReporterOf(c)'
    <3>1. rep[c].queued = 0
      BY <2>0, <2>1 DEF ReporterOf, ReporterRecords
    <3>2. /\ rep'[c].st = rep[c].st /\ rep'[c].pending = rep[c].pending
          /\ ~rep'[c].scheduled /\ rep'[c].queued = 0
          /\ rep'[c].read = 0 /\ rep'[c].step = "idle"
          /\ rep'[c].given = rep[c].given /\ rep'[c].raced = rep[c].raced
          /\ rep'[c].taken = IF rep[c].read = 0 THEN rep[c].taken ELSE rep[c].read
      BY <2>3, <3>1 DEF x
    <3>3. /\ rep[c].given \in 0 .. Frames /\ flushing' # c
          /\ ~rep[c].raced =>
               rep[c].pending = 0 /\ rep'[c].taken = rep[c].given
      BY <2>0, <2>1, <3>2 DEF ReporterOf, Fresh, ReporterRecords
    <3> QED BY <2>0, <2>1, <3>2, <3>3 DEF ReporterOf, Fresh
  <2>7. ASSUME NEW d \in Commands, NEW n \in 1 .. Frames, ToCome(d, n)'
        PROVE  task'[Frame(d, n)].pc = "none"
    <3>1. ToCome(d, n)
      BY <2>3, <2>7 DEF ToCome
    <3>2. task[Frame(d, n)].pc = "none"
      BY <3>1 DEF FramesToCome
    <3>3. d # c \/ n # rep[c].read
      BY <2>0, <2>1, <2>3, <2>7 DEF ToCome, ReporterOf, ReporterRecords
    <3>4. Frame(d, n) # Frame(c, rep[c].read)
      BY <3>3, TasksLemma
    <3> QED BY <2>1, <3>2, <3>4
  <2> QED BY <2>4, <2>5, <2>6, <2>7 DEF FramesToCome
<1> QED BY <1>1, <1>2, <1>3

LEMMA FlushStarts ==
  ASSUME SendPathAssumption, Shape, Senders, FramesToCome, NEW c \in Commands, FlushEnds(c)
  PROVE  Senders'
<1> USE SendPathAssumption DEF SendPathAssumption, Senders
<1>1. UNCHANGED <<sock, locks, fan>> /\ rep[c].read \in 0 .. Frames
  BY DEF FlushEnds, Shape, ReporterRecords
<1>2. CASE rep[c].read = 0
  BY <1>1, <1>2 DEF FlushEnds, Queues, OneLockWhileOpen, LocksOf, Replies, Fans
<1>3. CASE rep[c].read # 0
  <2> DEFINE n == rep[c].read
             t == Frame(c, n)
  <2>1. n \in 1 .. Frames
    BY <1>1, <1>3
  <2>2. t \in Tasks /\ task[t].pc = "none" /\ task[t].pc \notin Holding
    BY <2>1, TasksLemma DEF FramesToCome, ToCome, Holding, Writing
  <2>3. task' = [task EXCEPT ![t].pc = "starts"]
    BY <1>3 DEF FlushEnds
  <2> HIDE DEF t
  <2>4. /\ task' \in [Tasks -> TaskRecords] /\ task'[t].pc \notin Holding
        /\ \A u \in Tasks \ {t} : task'[u] = task[u]
    BY <2>2, <2>3 DEF Queues, TaskRecords, Holding, Writing
  <2>5. Queues'
    BY <1>1, <2>2, <2>4, OthersKeep
  <2>6. OneLockWhileOpen'
    BY <1>1 DEF OneLockWhileOpen, LocksOf
  <2>7. Replies' /\ Fans'
    BY <1>1, <2>4, TasksLemma DEF Replies, Fans, t
  <2> QED BY <2>5, <2>6, <2>7
<1> QED BY <1>2, <1>3

LEMMA SubmitKeeps ==
  ASSUME Shape, FramesToCome, NEW s \in Sockets, NEW c \in Commands, Submits(s, c)
  PROVE  Shape' /\ FramesToCome'
<1>1. /\ UNCHANGED <<task, main, flushing, fan>> /\ rep[c].st = "new"
      /\ rep' = [rep EXCEPT ![c].st = "submitted"]
  BY DEF Submits
<1>2. /\ rep' \in [Commands -> ReporterRecords]
      /\ rep'[c] = [rep[c] EXCEPT !.st = "submitted"]
      /\ \A d \in Commands \ {c} : rep'[d] = rep[d]
  BY <1>1 DEF Shape, ReporterRecords
<1>3. Shape'
  BY <1>1, <1>2 DEF Shape
<1>4. \A d \in Commands \ {c} : ReporterOf(d)'
  BY <1>1, <1>2 DEF FramesToCome, ReporterOf, Fresh
<1>5. ReporterOf(c)'
  BY <1>1, <1>2 DEF FramesToCome, ReporterOf, Fresh, Shape, ReporterRecords
<1>6. \A n \in 1 .. Frames : ToCome(c, n)' => ToCome(c, n)
  BY <1>2 DEF ToCome, Shape, ReporterRecords
<1>7. NoneStays
  BY <1>1 DEF NoneStays
<1> QED BY <1>2, <1>3, <1>4, <1>5, <1>6, <1>7, ReporterMoves

\* What the steps of the senders leave alone of the reporters.
LEMMA RestKeeps ==
  ASSUME Shape, FramesToCome, NoneStays, UNCHANGED <<main, rep, flushing>>,
         fan' \in [Broadcasts -> FanRecords]
  PROVE  Shape' /\ FramesToCome'
  BY ReportersStay DEF Shape, FanRecords

\* Any step keeps the invariant.
LEMMA NextLemma ==
  ASSUME SendPathAssumption, IInv, Next
  PROVE  IInv'
<1> USE SendPathAssumption
<1>1. Shape /\ Senders /\ FramesToCome /\ fan \in [Broadcasts -> FanRecords]
  BY DEF IInv, Senders, Shape, FanRecords
<1>2. SUFFICES Shape' /\ Senders' /\ FramesToCome'
  BY DEF IInv, Senders
<1>3. ASSUME UNCHANGED <<sock, locks, task, fan>>
      PROVE  Senders'
  BY <1>1, <1>3 DEF Senders, Queues, OneLockWhileOpen, LocksOf, Replies, Fans
<1>4. CASE SendSets \/ SendSchedules \/ MainResolves \/ \E c \in Commands : MainTakes(c)
  <2>1. UNCHANGED <<sock, locks, task, fan>>
    BY <1>4 DEF SendSets, SendSchedules, MainResolves, MainTakes
  <2> QED BY <1>1, <1>3, <1>4, <2>1, MainKeeps
<1>5. ASSUME NEW b \in Broadcasts, Broadcast(b) \/ FanRuns(b)
      PROVE  Shape' /\ Senders' /\ FramesToCome'
  <2>1. UNCHANGED <<main, rep, flushing>>
    BY <1>5 DEF Broadcast, FanRuns, FanNext, FanSent, Woken
  <2>2. Senders' /\ NoneStays /\ fan' \in [Broadcasts -> FanRecords]
    BY <1>1, <1>5, BroadcastKeeps, FanKeeps
  <2> QED BY <1>1, <2>1, <2>2, RestKeeps
<1>6. ASSUME NEW s \in Sockets, Handler(s) \/ Woken(Reply(s)) \/ SocketCloses(s)
      PROVE  Shape' /\ Senders' /\ FramesToCome'
  <2>1. Reply(s) \in Tasks
    BY TasksLemma
  <2>2. Senders' /\ NoneStays
    BY <1>1, <1>6, <2>1, HandlerKeeps, WokenKeepsAll, ClosesKeeps
  <2>3. CASE \E c \in Commands : Submits(s, c)
    BY <1>1, <2>2, <2>3, SubmitKeeps
  <2>4. CASE ~ \E c \in Commands : Submits(s, c)
    <3>1. UNCHANGED <<main, rep, flushing, fan>>
      BY <1>6, <2>4 DEF Handler, Answers, Replied, ReplyFails, Leaves, Woken, SocketCloses
    <3> QED BY <1>1, <2>2, <3>1, RestKeeps
  <2> QED BY <2>3, <2>4
<1>7. ASSUME NEW c \in Commands, FrameRuns(c)
      PROVE  Shape' /\ Senders' /\ FramesToCome'
  <2>1. CASE FlushReads(c) \/ FlushClears(c)
    <3>1. UNCHANGED <<sock, locks, task, fan>>
      BY <2>1 DEF FlushReads, FlushClears
    <3> QED BY <1>1, <1>3, <2>1, <3>1, FlushKeeps
  <2>2. CASE FlushEnds(c)
    <3>1. Shape' /\ FramesToCome'
      BY <1>1, <2>2, FlushKeeps
    <3>2. Senders'
      BY <1>1, <2>2, FlushStarts
    <3> QED BY <3>1, <3>2
  <2>3. ASSUME NEW n \in 1 .. Frames,
               FrameStarts(c, n) \/ FrameSent(c, n) \/ Woken(Frame(c, n))
        PROVE  Shape' /\ Senders' /\ FramesToCome'
    <3>1. Senders' /\ NoneStays
      BY <1>1, <2>3, FrameKeeps
    <3>2. UNCHANGED <<main, rep, flushing, fan>>
      BY <2>3 DEF FrameStarts, FrameSent, Woken
    <3> QED BY <1>1, <3>1, <3>2, RestKeeps
  <2> QED BY <1>7, <2>1, <2>2, <2>3 DEF FrameRuns
<1> QED BY <1>4, <1>5, <1>6, <1>7 DEF Next, OnMain

-----------------------------------------------------------------------------
LEMMA Inductive == Spec => []IInv
<1>1. Init => IInv
  BY InitLemma
<1>2. IInv /\ [Next]_vars => IInv'
  <2>1. ASSUME IInv, UNCHANGED vars PROVE IInv'
    BY <2>1 DEF vars, IInv, Shape, Queues, OneLockWhileOpen, LocksOf, Replies, Fans,
                FramesToCome, ReporterOf, Fresh, ToCome
  <2> QED BY <2>1, NextLemma, SendPathAssumption
<1> QED BY <1>1, <1>2, PTL DEF Spec

\* The types of the sockets, locks, tasks, reporters and of main, and no
\* sender waits twice for a lock.
THEOREM TypeCorrect == Spec => []TypeOK
<1>1. IInv => TypeOK
  <2> SUFFICES ASSUME IInv PROVE TypeOK
    OBVIOUS
  <2>1. \A s \in Sockets :
          /\ sock[s].st \in {"open", "gone"}
          /\ sock[s].handler \in {"reads", "awaits", "replies", "left"}
          /\ sock[s].handler = "left" => sock[s].st # "open"
    BY DEF IInv, OneLockWhileOpen, LocksOf, SocketRecords
  <2>2. /\ locks.table \in [Sockets -> 0 .. 2] /\ locks.made \in [Sockets -> 0 .. 2]
        /\ \A l \in Locks : IsInjective(locks.queue[l])
    BY DEF IInv, Queues, LockTables
  <2>3. \A t \in Tasks : task[t].pc \in {"none", "starts", "waits", "writes", "fails", "done"}
    BY DEF IInv, Queues, TaskRecords, Holding, Writing
  <2>4. main.pc \in {"idle", "runs", "pended"} /\ main.frame \in 0 .. Frames
    BY DEF IInv, Shape
  <2>5. \A c \in Commands :
          /\ rep[c].pending \in 0 .. Frames /\ rep[c].scheduled \in BOOLEAN
          /\ rep[c].queued \in 0 .. 1 /\ rep[c].read \in 0 .. Frames
    BY DEF IInv, Shape, ReporterRecords
  <2>6. flushing \in Commands \union {NoCommand}
    BY DEF IInv, Shape
  <2> QED BY <2>1, <2>2, <2>3, <2>4, <2>5, <2>6 DEF TypeOK
<1> QED BY <1>1, Inductive, PTL

\* At most one task writes to a socket that is open: while it is open there is
\* one lock for it, and who writes is at the head of that lock's queue.
THEOREM WritersExclude == Spec => []OneWriterPerSocket
<1>1. IInv => OneWriterPerSocket
  <2> SUFFICES ASSUME IInv, NEW s \in Sockets, sock[s].st = "open"
               PROVE  Cardinality({t \in Tasks : task[t].pc = "writes" /\ task[t].lock[1] = s}) <= 1
    BY DEF OneWriterPerSocket
  <2> DEFINE W == {t \in Tasks : task[t].pc = "writes" /\ task[t].lock[1] = s}
  <2>1. LocksOf(s) /\ locks.made[s] \in 0 .. 2
    BY DEF IInv, OneLockWhileOpen, Queues, LockTables
  <2>2. sock[s].handler # "left"
    BY <2>1 DEF LocksOf
  <2>3. locks.queue[<<s, 2>>] = <<>>
    BY <2>1, <2>2 DEF LocksOf
  <2>4. ASSUME NEW t \in W PROVE t = Head(locks.queue[<<s, 1>>])
    <3>1. /\ t \in Tasks /\ task[t].lock \in Locks /\ task[t].lock[1] = s
          /\ t \in ToSet(locks.queue[task[t].lock])
          /\ Head(locks.queue[task[t].lock]) = t
      BY <2>4 DEF IInv, Queues, Holding, Writing
    <3>2. task[t].lock # <<s, 2>>
      BY <2>3, <3>1 DEF ToSet
    <3>3. task[t].lock = <<s, 1>>
      BY <3>1, <3>2, LocksLemma
    <3> QED BY <3>1, <3>3
  <2> HIDE DEF W
  <2>5. W \subseteq {Head(locks.queue[<<s, 1>>])}
    BY <2>4
  <2>6. Cardinality(W) <= 1
    <3> DEFINE H == {Head(locks.queue[<<s, 1>>])}
    <3>1. IsFiniteSet(H) /\ Cardinality(H) = 1
      BY FS_Singleton, Zenon
    <3>2. W \in SUBSET H
      BY <2>5
    <3> HIDE DEF H
    <3>3. IsFiniteSet(W) /\ Cardinality(W) <= Cardinality(H)
      BY <3>1, <3>2, FS_Subset
    <3> QED BY <3>1, <3>3
  <2> QED BY <2>6 DEF W
<1> QED BY <1>1, Inductive, PTL

\* When nothing is queued and no send is under way the last frame that was
\* given has been taken, unless it was given while the loop was in _flush.
THEOREM FreshestTaken == Spec => []FreshestFrameIsTaken
<1>1. IInv => FreshestFrameIsTaken
  <2> SUFFICES ASSUME IInv, NEW c \in Commands, rep[c].queued = 0, flushing # c,
                      ~(main.cmd = c /\ main.pc = "pended"), ~rep[c].raced
               PROVE  rep[c].taken = rep[c].given
    BY DEF FreshestFrameIsTaken, IInv, Shape, ReporterRecords
  <2>1. ReporterOf(c)
    BY DEF IInv, FramesToCome
  <2> QED BY <2>1 DEF ReporterOf, Fresh
<1> QED BY <1>1, Inductive, PTL
=============================================================================
