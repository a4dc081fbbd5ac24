------------------------------ MODULE SendPath ------------------------------
(***************************************************************************)
(* What the add-on writes to its WebSockets: replies, scene notifications  *)
(* (ws_server.broadcast) and progress frames (progress.py), three kinds of *)
(* senders that meet at one lock per socket (ws_server._send_locks).       *)
(*                                                                         *)
(*  - Two threads.  Blender's main thread calls ProgressReporter.send and  *)
(*    broadcast; everything else runs on the event loop.  They interleave  *)
(*    between any two lines that touch what they share; on the loop, tasks *)
(*    interleave only at an await.                                         *)
(*  - The loop runs throughout (CommandBridge starts and stops it).        *)
(*  - Callbacks of the loop run in any order (some are delayed by          *)
(*    call_later), and main takes any command (CommandBridge has the       *)
(*    order of the inbox).                                                 *)
(*  - websockets: send() writes while the connection is open and waits for *)
(*    the peer to read; otherwise it waits for the end of the close and    *)
(*    raises.  When _handler returns, close() leaves the open state before *)
(*    it awaits anything.                                                  *)
(***************************************************************************)
EXTENDS Naturals, Sequences, FiniteSets, SequencesExt

CONSTANTS
  Sockets,      \* connections
  Commands,     \* commands that report progress
  CommandOf,    \* the connection each of them comes over
  Frames,       \* calls of progress_callback by a command: 20 % and 80 %
  Broadcasts,   \* scene.changed notifications
  NoCommand

ASSUME SendPathAssumption ==
  /\ IsFiniteSet(Sockets) /\ Frames \in Nat /\ NoCommand \notin Commands
  /\ CommandOf \in [Commands -> Sockets]

VARIABLES
  sock,     \* connections and their handlers
  locks,    \* _send_locks: which lock of a socket is in the table, their queues
  task,     \* the senders
  main,     \* the main thread: its command and where it is in it
  rep,      \* the reporter of each command
  flushing, \* the reporter whose _flush the loop is in
  fan       \* the broadcasts: targets left, and who got it

vars == <<sock, locks, task, main, rep, flushing, fan>>

Reply(s)    == <<"reply", s>>
Frame(c, n) == <<"frame", c, n>>
Fan(b)      == <<"fan", b>>

Tasks == {Reply(s) : s \in Sockets} \union {Fan(b) : b \in Broadcasts}
           \union {Frame(c, n) : c \in Commands, n \in 1 .. Frames}

Starts == [pc |-> "starts", lock |-> <<>>]
Done   == [pc |-> "done", lock |-> <<>>]

\* A socket has a lock until its handler leaves, and at most one more.
Locks == Sockets \X {1, 2}

TypeOK ==
  /\ \A s \in Sockets :
       /\ sock[s].st \in {"open", "gone"}
       /\ sock[s].handler \in {"reads", "awaits", "replies", "left"}
       /\ sock[s].handler = "left" => sock[s].st # "open"
  /\ locks.table \in [Sockets -> 0 .. 2] /\ locks.made \in [Sockets -> 0 .. 2]
  /\ \A l \in Locks : IsInjective(locks.queue[l])
  /\ \A t \in Tasks : task[t].pc \in {"none", "starts", "waits", "writes", "fails", "done"}
  /\ main.pc \in {"idle", "runs", "pended"} /\ main.frame \in 0 .. Frames
  /\ \A c \in Commands :
       /\ rep[c].pending \in 0 .. Frames /\ rep[c].scheduled \in BOOLEAN
       /\ rep[c].queued \in 0 .. 1 /\ rep[c].read \in 0 .. Frames
  /\ flushing \in Commands \union {NoCommand}

Init ==
  /\ sock = [s \in Sockets |-> [st |-> "open", handler |-> "reads"]]
  /\ locks = [table |-> [s \in Sockets |-> 0], made |-> [s \in Sockets |-> 0],
              queue |-> [l \in Locks |-> <<>>]]
  /\ task = [t \in Tasks |-> [pc |-> "none", lock |-> <<>>]]
  /\ main = [cmd |-> NoCommand, frame |-> 0, pc |-> "idle"]
  /\ rep = [c \in Commands |->
       [st |-> "new", pending |-> 0, scheduled |-> FALSE, queued |-> 0, read |-> 0,
        step |-> "idle", given |-> 0, taken |-> 0, raced |-> FALSE]]
  /\ flushing = NoCommand
  /\ fan = [b \in Broadcasts |-> [asked |-> {}, left |-> <<>>, got |-> {}]]

\* The loop takes its next callback or task.
LoopFree == flushing = NoCommand

-----------------------------------------------------------------------------
(* _get_send_lock and _safe_ws_send.                                        *)

\* Fault: a lock of its own for every send.
LockOf_New(s) == 1 + (locks.made[s] % 2)
LockOf(s) == IF locks.table[s] # 0 THEN locks.table[s] ELSE locks.made[s] + 1

\* ws.send up to its first await.
SendsOn(s) == IF sock[s].st = "open" THEN "writes" ELSE "fails"

\* t asks for the lock of s; if it is free, it goes on at once.
Asks(t, s) ==
  LET l == <<s, LockOf(s)>>
  IN
  /\ locks' = [locks EXCEPT !.table[s] = l[2], !.made[s] = l[2], !.queue[l] = Append(@, t)]
  /\ task' = [task EXCEPT ![t] =
       [pc |-> IF locks.queue[l] = <<>> THEN SendsOn(s) ELSE "waits", lock |-> l]]

\* The lock is t's: asyncio.Lock is first come, first served.
Woken(t) ==
  /\ LoopFree /\ task[t].pc = "waits" /\ Head(locks.queue[task[t].lock]) = t
  /\ task' = [task EXCEPT ![t].pc = SendsOn(task[t].lock[1])]
  /\ UNCHANGED <<sock, locks, main, rep, flushing, fan>>

\* The lock is released whether send returned or raised.
Releases(t) == locks' = [locks EXCEPT !.queue[task[t].lock] = Tail(@)]

\* send returns when the peer reads on, and raises when the connection is gone.
Returns(t) == LoopFree /\ task[t].pc = "writes"
Raises(t) ==
  /\ LoopFree /\ task[t].pc \in {"writes", "fails"}
  /\ sock[task[t].lock[1]].st = "gone"

-----------------------------------------------------------------------------
(* _handler: reads a frame, answers it, reads the next.                     *)

\* A command goes to main; a frame that is refused is answered at once.
Submits(s, c) ==
  /\ LoopFree /\ sock[s].st = "open" /\ sock[s].handler = "reads"
  /\ CommandOf[c] = s /\ rep[c].st = "new"
  /\ sock' = [sock EXCEPT ![s].handler = "awaits"]
  /\ rep' = [rep EXCEPT ![c].st = "submitted"]
  /\ UNCHANGED <<locks, task, main, flushing, fan>>

\* The result has come, or the timeout; or the frame is refused.
Answers(s) ==
  /\ LoopFree
  /\ \/ sock[s].handler = "awaits"
     \/ sock[s].handler = "reads" /\ sock[s].st = "open"
  /\ sock' = [sock EXCEPT ![s].handler = "replies"]
  /\ Asks(Reply(s), s)
  /\ UNCHANGED <<main, rep, flushing, fan>>

\* The finally of _handler; the library closes what is still open.
Left(s) == [sock EXCEPT ![s].handler = "left",
                        ![s].st = "gone"]

Replied(s) ==
  /\ sock[s].handler = "replies" /\ Returns(Reply(s))
  /\ Releases(Reply(s))
  /\ sock' = [sock EXCEPT ![s].handler = "reads"]
  /\ task' = [task EXCEPT ![Reply(s)] = [pc |-> "none", lock |-> <<>>]]
  /\ UNCHANGED <<main, rep, flushing, fan>>

\* The peer is gone, or what it sent makes the handler raise.
Leaves(s) ==
  /\ LoopFree /\ sock[s].handler = "reads"
  /\ sock' = Left(s)
  /\ locks' = [locks EXCEPT !.table[s] = 0]
  /\ UNCHANGED <<task, main, rep, flushing, fan>>

ReplyFails(s) ==
  /\ sock[s].handler = "replies" /\ Raises(Reply(s))
  /\ sock' = Left(s)
  /\ locks' = [locks EXCEPT !.table[s] = 0, !.queue[task[Reply(s)].lock] = Tail(@)]
  /\ task' = [task EXCEPT ![Reply(s)] = Done]
  /\ UNCHANGED <<main, rep, flushing, fan>>

\* The peer closes, the connection breaks, or the keepalive fails it.
SocketCloses(s) ==
  /\ sock[s].st = "open"
  /\ sock' = [sock EXCEPT ![s].st = "gone"]
  /\ UNCHANGED <<locks, task, main, rep, flushing, fan>>

-----------------------------------------------------------------------------
(* broadcast, from a timer on the main thread.                              *)

Clients == {s \in Sockets : sock[s].handler # "left"}

Broadcast(b) ==
  /\ main.pc = "idle" /\ fan[b].asked = {} /\ Clients # {}
  /\ \E targets \in SetToSeqs(Clients) :
       fan' = [fan EXCEPT ![b].asked = Clients, ![b].left = targets]
  /\ task' = [task EXCEPT ![Fan(b)] = Starts]
  /\ UNCHANGED <<sock, locks, main, rep, flushing>>

\* _fan_out: the next target, when the send to the last one is over.
FanNext(b) ==
  /\ LoopFree /\ task[Fan(b)].pc = "starts"
  /\ \/ /\ fan[b].left = <<>>
        /\ task' = [task EXCEPT ![Fan(b)] = Done]
        /\ UNCHANGED <<fan, locks>>
     \/ /\ fan[b].left # <<>>
        /\ Asks(Fan(b), Head(fan[b].left))
        /\ fan' = [fan EXCEPT ![b].left = Tail(@)]
  /\ UNCHANGED <<sock, main, rep, flushing>>

\* Fault: the first client that fails ends the loop over the targets.
AfterFailure_Stop(b) == Done
AfterFailure(b) == Starts

FanSent(b) ==
  LET s == task[Fan(b)].lock[1]
  IN
  /\ \/ /\ Returns(Fan(b))
        /\ fan' = [fan EXCEPT ![b].got = @ \union {s}]
        /\ task' = [task EXCEPT ![Fan(b)] = Starts]
     \/ /\ Raises(Fan(b))
        /\ task' = [task EXCEPT ![Fan(b)] = AfterFailure(b)]
        /\ UNCHANGED fan
  /\ Releases(Fan(b))
  /\ UNCHANGED <<sock, main, rep, flushing>>

-----------------------------------------------------------------------------
(* ProgressReporter.                                                        *)

MainTakes(c) ==
  /\ main.pc = "idle" /\ rep[c].st = "submitted"
  /\ main' = [cmd |-> c, frame |-> 0, pc |-> "runs"]
  /\ rep' = [rep EXCEPT ![c].st = "taken"]
  /\ UNCHANGED <<sock, locks, task, flushing, fan>>

\* send, first half: the frame replaces the one that is pending.
SendSets ==
  /\ main.pc = "runs" /\ main.frame < Frames
  /\ main' = [cmd |-> main.cmd, frame |-> main.frame + 1, pc |-> "pended"]
  /\ rep' = [rep EXCEPT ![main.cmd].pending = main.frame + 1, ![main.cmd].given = main.frame + 1,
                        ![main.cmd].raced = (flushing = main.cmd)]
  /\ UNCHANGED <<sock, locks, task, flushing, fan>>

\* Second half: a flush is queued, unless one is queued already.
\* Fault: in any case.
Scheduled_Always(c) == [rep[c] EXCEPT !.scheduled = TRUE, !.queued = @ + 1]
Scheduled(c) ==
  IF rep[c].scheduled THEN rep[c] ELSE [rep[c] EXCEPT !.scheduled = TRUE, !.queued = @ + 1]

SendSchedules ==
  /\ main.pc = "pended"
  /\ main' = [main EXCEPT !.pc = "runs"]
  /\ rep' = [rep EXCEPT ![main.cmd] = Scheduled(main.cmd)]
  /\ UNCHANGED <<sock, locks, task, flushing, fan>>

MainResolves ==
  /\ main.pc = "runs"
  /\ main' = [cmd |-> NoCommand, frame |-> 0, pc |-> "idle"]
  /\ rep' = [rep EXCEPT ![main.cmd].st = "done"]
  /\ UNCHANGED <<sock, locks, task, flushing, fan>>

\* _flush, line by line: main may be in send at the same time.
FlushReads(c) ==
  /\ LoopFree /\ rep[c].queued > 0
  /\ flushing' = c
  /\ rep' = [rep EXCEPT ![c].queued = @ - 1, ![c].read = rep[c].pending, ![c].step = "read"]
  /\ UNCHANGED <<sock, locks, task, main, fan>>

FlushClears(c) ==
  /\ flushing = c /\ rep[c].step = "read"
  /\ rep' = [rep EXCEPT ![c].pending = 0, ![c].step = "cleared"]
  /\ UNCHANGED <<sock, locks, task, main, flushing, fan>>

\* Fault: the flag is not taken back.
Flushed_Stuck(c) ==
  [rep[c] EXCEPT !.step = "idle", !.read = 0,
                 !.taken = IF rep[c].read = 0 THEN @ ELSE rep[c].read]
Flushed(c) ==
  [rep[c] EXCEPT !.scheduled = FALSE, !.step = "idle", !.read = 0,
                 !.taken = IF rep[c].read = 0 THEN @ ELSE rep[c].read]

FlushEnds(c) ==
  /\ flushing = c /\ rep[c].step = "cleared"
  /\ flushing' = NoCommand
  /\ rep' = [rep EXCEPT ![c] = Flushed(c)]
  /\ task' = IF rep[c].read = 0 THEN task
             ELSE [task EXCEPT ![Frame(c, rep[c].read)].pc = "starts"]
  /\ UNCHANGED <<sock, locks, main, fan>>

\* _safe_send, to the socket the command came from, whatever that does now.
FrameStarts(c, n) ==
  /\ LoopFree /\ task[Frame(c, n)].pc = "starts"
  /\ Asks(Frame(c, n), CommandOf[c])
  /\ UNCHANGED <<sock, main, rep, flushing, fan>>

FrameSent(c, n) ==
  /\ Returns(Frame(c, n)) \/ Raises(Frame(c, n))
  /\ Releases(Frame(c, n))
  /\ task' = [task EXCEPT ![Frame(c, n)] = Done]
  /\ UNCHANGED <<sock, main, rep, flushing, fan>>

-----------------------------------------------------------------------------
OnMain ==
  \/ SendSets \/ SendSchedules \/ MainResolves
  \/ \E c \in Commands : MainTakes(c)
  \/ \E b \in Broadcasts : Broadcast(b)

Handler(s) ==
  \/ \E c \in Commands : Submits(s, c)
  \/ Answers(s) \/ Replied(s) \/ ReplyFails(s) \/ Leaves(s)

FrameRuns(c) ==
  \/ FlushReads(c) \/ FlushClears(c) \/ FlushEnds(c)
  \/ \E n \in 1 .. Frames : FrameStarts(c, n) \/ FrameSent(c, n) \/ Woken(Frame(c, n))

FanRuns(b) == FanNext(b) \/ FanSent(b) \/ Woken(Fan(b))

Next ==
  \/ OnMain
  \/ \E s \in Sockets : Handler(s) \/ Woken(Reply(s)) \/ SocketCloses(s)
  \/ \E c \in Commands : FrameRuns(c)
  \/ \E b \in Broadcasts : FanRuns(b)

\* The loop runs what is ready.  That a write ends is the peer's doing: it
\* reads on, or its connection is closed.
Fairness ==
  /\ \A s \in Sockets : WF_vars(Replied(s) \/ ReplyFails(s)) /\ WF_vars(Woken(Reply(s)))
  /\ \A c \in Commands : WF_vars(FrameRuns(c))
  /\ \A b \in Broadcasts : WF_vars(FanRuns(b))

Spec == Init /\ [][Next]_vars /\ Fairness

-----------------------------------------------------------------------------
\* At most one task writes to an open socket: the locks that are made,
\* dropped when a handler leaves and made again never let two in.
OneWriterPerSocket ==
  \A s \in Sockets : sock[s].st = "open" =>
    Cardinality({t \in Tasks : task[t].pc = "writes" /\ task[t].lock[1] = s}) <= 1

\* A notification reaches every client it was meant for that stays open,
\* whichever of the others have gone, fail, or are written to meanwhile.
BroadcastArrives ==
  \A b \in Broadcasts, s \in Sockets :
    s \in fan[b].asked ~> s \in fan[b].got \/ sock[s].st # "open"

\* "It will pick up the freshest frame": when nothing is queued and no send
\* is under way, the last frame that was given has been taken, unless it was
\* given while the loop was inside _flush, which may then erase it or leave
\* it without a flush.
FreshestFrameIsTaken ==
  \A c \in Commands :
    /\ rep[c].queued = 0 /\ flushing # c
    /\ ~(main.cmd = c /\ main.pc = "pended")
    => rep[c].taken = rep[c].given \/ rep[c].raced
=============================================================================
