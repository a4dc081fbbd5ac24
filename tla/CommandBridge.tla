--------------------------- MODULE CommandBridge ---------------------------
(***************************************************************************)
(* The add-on's command path: the WebSocket handler of every connection on *)
(* the asyncio thread (server/ws_server.py), the bounded inbox, the timer  *)
(* pump on Blender's main thread (server/main_thread.py), and the Start,   *)
(* Stop and Restart operators that tear the two down and bring them up     *)
(* again (ui/panel.py, preferences.py, __init__.py).                       *)
(*                                                                         *)
(* Interleaving.  The asyncio thread runs one callback, or one stretch of  *)
(* a coroutine between two awaits, per step; the main thread one timer     *)
(* callback or operator stretch per step.  The two threads interleave      *)
(* freely; what they share is the inbox, the futures (through              *)
(* call_soon_threadsafe) and the module global _loop.                      *)
(*                                                                         *)
(* Abstractions.                                                           *)
(*  - A frame is a model value; which checks it fails is chosen by the     *)
(*    environment (BAD_FRAME, AUTH) when the handler reads it.             *)
(*  - A capability is an outcome, ok or BLENDER_ERROR, chosen freely.      *)
(*  - Time is absent: a timeout may fire whenever its timer is armed.      *)
(*  - A connection beyond the limit, or with an Origin header, is closed   *)
(*    before it touches any state, so it is no step of this module.        *)
(*  - The `Progress` frames and broadcasts that share the socket are not   *)
(*    here.  Stop is not pressed while the server thread is still starting.*)
(***************************************************************************)
EXTENDS Naturals, Sequences, FiniteSets

CONSTANTS
  Conns,             \* websocket objects
  Requests,          \* command frames, each delivered at most once
  NoReq,             \* "no request"
  MaxConnections,    \* ws_server._MAX_CONNECTIONS
  InboxMax,          \* main_thread._INBOX_MAXSIZE
  MaxStarts          \* bound on how often the user starts the server

ASSUME BridgeAssumption ==
  /\ IsFiniteSet(Conns)
  /\ NoReq \notin Requests
  /\ MaxConnections \in Nat \ {0}
  /\ InboxMax \in Nat \ {0}
  /\ MaxStarts \in Nat

VARIABLES
  \* the asyncio thread
  thread,      \* the daemon thread and its event loop
  loopSet,     \* is the module global _loop set?
  handler,     \* handler[c]: where the coroutine _handler(c) stands
  cur,         \* cur[c]: the frame that handler c is working on
  hand,        \* hand[c]: the response it is about to send
  open,        \* websockets whose socket is open
  count,       \* _connection_count
  clients,     \* _clients
  future,      \* future[r]: the asyncio future that handler awaits for r
  posted,      \* posted[r]: result given to call_soon_threadsafe, not yet run
  \* the main thread
  main,        \* where the main thread stands
  running,     \* main_thread._running
  armed,       \* is _pump registered with bpy.app.timers?
  inbox,       \* main_thread._inbox
  exec,        \* the command the pump has dequeued
  starts,      \* how often the server has been started
  \* what became of each command
  session,     \* session[r]: value of starts when r was submitted
  verdict,     \* verdict[r]: refused with a code, submitted, or not seen
  outcome,     \* outcome[r]: what dispatch did
  audited,     \* commands with an audit-log line
  answer       \* answer[r]: the response frame sent for r

loopVars  == <<handler, cur, hand, open, count, clients>>
lifeVars  == <<thread, loopSet, starts>>
pumpVars  == <<main, running, armed, exec>>
cmdVars   == <<session, verdict>>
workVars  == <<outcome, audited>>
vars == <<thread, loopSet, handler, cur, hand, open, count, clients, future,
          posted, main, running, armed, inbox, exec, starts, session, verdict,
          outcome, audited, answer>>

Refusals == {"BAD_FRAME", "AUTH", "BACKPRESSURE"}
Outcomes == {"ok", "BLENDER_ERROR"}
Answers  == {"none", "MAIN_THREAD_TIMEOUT"} \union Refusals \union Outcomes

TypeOK ==
  /\ thread \in {"none", "starting", "listening", "closing", "failed"}
  /\ loopSet \in BOOLEAN
  /\ handler \in [Conns -> {"absent", "reading", "waiting", "replying", "leaked"}]
  /\ cur \in [Conns -> Requests \union {NoReq}]
  /\ hand \in [Conns -> Answers]
  /\ open \in SUBSET Conns
  /\ count \in Nat
  /\ clients \in SUBSET Conns
  /\ future \in [Requests -> {"none", "pending", "cancelled"} \union Outcomes]
  /\ posted \in [Requests -> {"none"} \union Outcomes]
  /\ main \in {"idle", "pumping", "dispatching", "resolving", "stopping", "draining"}
  /\ running \in BOOLEAN
  /\ armed \in BOOLEAN
  /\ inbox \in Seq(Requests)
  /\ exec \in Requests \union {NoReq}
  /\ starts \in Nat
  /\ session \in [Requests -> Nat]
  /\ verdict \in [Requests -> {"unseen", "submitted"} \union Refusals]
  /\ outcome \in [Requests -> {"none"} \union Outcomes]
  /\ audited \in SUBSET Requests
  /\ answer \in [Requests -> Answers]

Init ==
  /\ thread = "none"
  /\ loopSet = FALSE
  /\ handler = [c \in Conns |-> "absent"]
  /\ cur = [c \in Conns |-> NoReq]
  /\ hand = [c \in Conns |-> "none"]
  /\ open = {}
  /\ count = 0
  /\ clients = {}
  /\ future = [r \in Requests |-> "none"]
  /\ posted = [r \in Requests |-> "none"]
  /\ main = "idle"
  /\ running = FALSE
  /\ armed = FALSE
  /\ inbox = <<>>
  /\ exec = NoReq
  /\ starts = 0
  /\ session = [r \in Requests |-> 0]
  /\ verdict = [r \in Requests |-> "unseen"]
  /\ outcome = [r \in Requests |-> "none"]
  /\ audited = {}
  /\ answer = [r \in Requests |-> "none"]

\* Callbacks and coroutines of the asyncio thread make progress.
LoopRuns == thread \in {"listening", "closing"}

-----------------------------------------------------------------------------
(* Lifecycle: main_thread.start/stop and ws_server.start/stop, as called by *)
(* the panel operators, autostart, unregister and reset_to_loopback.        *)

\* main_thread.start() arms the pump, then ws_server.start() spawns the
\* thread; the latter does nothing while a server thread is alive.
Start ==
  /\ main = "idle"
  /\ thread \in {"none", "failed"}
  /\ starts < MaxStarts
  /\ running' = TRUE
  /\ armed' = TRUE
  /\ thread' = "starting"
  /\ starts' = starts + 1
  /\ UNCHANGED <<loopVars, loopSet, future, posted, main, inbox, exec, cmdVars, workVars, answer>>

\* _run() publishes _loop and _serve() binds the port, or fails to bind it
\* (address in use): the thread then dies and leaves _loop behind.  What was
\* posted to the loop of an earlier, failed thread is lost with it.
LoopStarts ==
  /\ thread = "starting"
  /\ thread' \in {"listening", "failed"}
  /\ loopSet' = TRUE
  /\ posted' = [r \in Requests |-> "none"]
  /\ UNCHANGED <<loopVars, starts, future, pumpVars, inbox, cmdVars, workVars, answer>>

\* ws_server.stop(), first half: server.close() is queued on the loop and the
\* main thread starts waiting, for at most 5 s.
StopBegins ==
  /\ main = "idle"
  /\ thread # "starting"
  /\ main' = "stopping"
  /\ thread' = IF thread = "listening" THEN "closing" ELSE thread
  /\ UNCHANGED <<loopVars, loopSet, starts, future, posted, running, armed, exec, inbox,
                 cmdVars, workVars, answer>>

\* Fault: stop() only asks the loop to close and returns, as before P0-1.
StopJoins_FireAndForget ==
  /\ main = "stopping"
  /\ main' = "draining"
  /\ thread' = "none"
  /\ loopSet' = FALSE
  /\ running' = FALSE
  /\ UNCHANGED <<loopVars, starts, future, posted, armed, exec, inbox, cmdVars, workVars,
                 answer>>

\* ws_server.stop(), second half: the wait is over or has timed out,
\* loop.stop() ends the thread, the globals are cleared; main_thread.stop()
\* clears _running.  A handler that has not finished never resumes, and
\* neither its slot nor its place in _clients is given back.  Callbacks still
\* queued on the loop are lost.
StopJoins ==
  /\ main = "stopping"
  /\ main' = "draining"
  /\ thread' = "none"
  /\ loopSet' = FALSE
  /\ running' = FALSE
  /\ handler' = [c \in Conns |-> IF handler[c] = "absent" THEN "absent" ELSE "leaked"]
  /\ open' = {}
  /\ posted' = [r \in Requests |-> "none"]
  /\ UNCHANGED <<cur, hand, count, clients, starts, future, armed, exec, inbox,
                 cmdVars, workVars, answer>>

\* main_thread.stop() empties the inbox.  Every caller has run
\* ws_server.stop() before, so _loop is None and the first _resolve raises
\* AttributeError, which the `except queue.Empty` does not catch: one command
\* is dropped and the rest stay queued.
StopDrains ==
  /\ main = "draining"
  /\ main' = "idle"
  /\ inbox' = IF inbox = <<>> THEN inbox ELSE Tail(inbox)
  /\ UNCHANGED <<loopVars, lifeVars, future, posted, running, armed, exec, cmdVars, workVars,
                 answer>>

-----------------------------------------------------------------------------
(* The handler of one connection, on the asyncio thread.                    *)

\* A client connects and a slot is free.
Connect(c) ==
  /\ thread = "listening"
  /\ handler[c] = "absent"
  /\ count < MaxConnections
  /\ handler' = [handler EXCEPT ![c] = "reading"]
  /\ open' = open \union {c}
  /\ count' = count + 1
  /\ clients' = clients \union {c}
  /\ UNCHANGED <<lifeVars, cur, hand, future, posted, pumpVars, inbox, cmdVars, workVars, answer>>

\* The client goes away, or server.close() closes the socket.
SocketCloses(c) ==
  /\ c \in open
  /\ open' = open \ {c}
  /\ UNCHANGED <<lifeVars, handler, cur, hand, count, clients, future, posted, pumpVars, inbox,
                 cmdVars, workVars, answer>>

\* Handler c takes the next frame off its socket.
Reads(c, r) ==
  /\ LoopRuns
  /\ handler[c] = "reading"
  /\ c \in open
  /\ verdict[r] = "unseen"
  /\ cur' = [cur EXCEPT ![c] = r]
  /\ UNCHANGED <<lifeVars, open, count, clients, posted, pumpVars, workVars, answer>>

\* The frame is malformed, or its token is wrong, or the inbox is full.
RefuseFrame(c, r) ==
  /\ Reads(c, r)
  /\ \E code \in Refusals :
       /\ code = "BACKPRESSURE" => Len(inbox) >= InboxMax
       /\ verdict' = [verdict EXCEPT ![r] = code]
       /\ hand' = [hand EXCEPT ![c] = code]
  /\ handler' = [handler EXCEPT ![c] = "replying"]
  /\ UNCHANGED <<future, inbox, session>>

\* The handler does nothing else until its future is resolved or given up.
\* Fault: it goes on reading, and answers when the future is done.
Awaits_Pipelined(c) == UNCHANGED handler
Awaits(c) == handler' = [handler EXCEPT ![c] = "waiting"]

\* The command goes to the main thread and the handler awaits its future.
Submit(c, r) ==
  /\ Reads(c, r)
  /\ Len(inbox) < InboxMax
  /\ inbox' = Append(inbox, r)
  /\ future' = [future EXCEPT ![r] = "pending"]
  /\ verdict' = [verdict EXCEPT ![r] = "submitted"]
  /\ session' = [session EXCEPT ![r] = starts]
  /\ Awaits(c)
  /\ UNCHANGED hand

\* The future a result is delivered to: _resolve binds it as a default
\* argument, so it is the one created for this very command.
\* Fault: it is looked up late, and is one that is awaited just now.
FutureOf_Late(r) ==
  IF \E s \in Requests : future[s] = "pending"
  THEN CHOOSE s \in Requests : future[s] = "pending" ELSE r
FutureOf(r) == r

\* The f.set_result callback runs.  On a future that wait_for has cancelled it
\* raises InvalidStateError, which the loop only logs.
RunCallback(r) ==
  /\ LoopRuns
  /\ posted[r] # "none"
  /\ future' = [future EXCEPT ![FutureOf(r)] = IF @ = "pending" THEN posted[r] ELSE @]
  /\ posted' = [posted EXCEPT ![r] = "none"]
  /\ UNCHANGED <<loopVars, lifeVars, pumpVars, inbox, cmdVars, workVars, answer>>

\* wait_for returns the result.
Wake(c) ==
  /\ LoopRuns
  /\ handler[c] = "waiting"
  /\ future[cur[c]] \in Outcomes
  /\ hand' = [hand EXCEPT ![c] = future[cur[c]]]
  /\ handler' = [handler EXCEPT ![c] = "replying"]
  /\ UNCHANGED <<lifeVars, cur, open, count, clients, future, posted, pumpVars, inbox,
                 cmdVars, workVars, answer>>

\* Fault: the future is awaited without a timeout.
TimeOut_Never(c) == FALSE

\* wait_for gives up: the future is cancelled, the command stays where it is.
TimeOut(c) ==
  /\ LoopRuns
  /\ handler[c] = "waiting"
  /\ future[cur[c]] = "pending"
  /\ future' = [future EXCEPT ![cur[c]] = "cancelled"]
  /\ hand' = [hand EXCEPT ![c] = "MAIN_THREAD_TIMEOUT"]
  /\ handler' = [handler EXCEPT ![c] = "replying"]
  /\ UNCHANGED <<lifeVars, cur, open, count, clients, posted, pumpVars, inbox,
                 cmdVars, workVars, answer>>

\* The response goes out and the handler turns to its next frame.
SendReply(c) ==
  /\ LoopRuns
  /\ handler[c] = "replying"
  /\ c \in open
  /\ answer' = [answer EXCEPT ![cur[c]] = hand[c]]
  /\ handler' = [handler EXCEPT ![c] = "reading"]
  /\ cur' = [cur EXCEPT ![c] = NoReq]
  /\ hand' = [hand EXCEPT ![c] = "none"]
  /\ UNCHANGED <<lifeVars, open, count, clients, future, posted, pumpVars, inbox,
                 cmdVars, workVars>>

\* The slot and the place in _clients are given back.
\* Faults: both `except` and `finally` do it; the client is not discarded.
ReturnsSlot_Twice(c) == count' = count - 2 /\ clients' = clients \ {c}
ReturnsSlot_KeepsClient(c) == count' = count - 1 /\ UNCHANGED clients
ReturnsSlot(c) == count' = count - 1 /\ clients' = clients \ {c}

\* The end of _handler; the library closes the socket.
GivesBack(c) ==
  /\ LoopRuns
  /\ handler[c] \in {"reading", "replying"}
  /\ handler' = [handler EXCEPT ![c] = "absent"]
  /\ cur' = [cur EXCEPT ![c] = NoReq]
  /\ hand' = [hand EXCEPT ![c] = "none"]
  /\ open' = open \ {c}
  /\ ReturnsSlot(c)
  /\ UNCHANGED <<lifeVars, future, posted, pumpVars, inbox, cmdVars, workVars, answer>>

\* Reading from or writing to a closed socket ends the handler.  One that
\* awaits a future is not interrupted.
HandlerExits(c) == c \notin open /\ GivesBack(c)

\* So does an exception: a frame that is JSON but no object, or a result that
\* json.dumps cannot encode.
HandlerRaises(c) ==
  /\ c \in open
  /\ handler[c] = "replying" => hand[c] = "ok"
  /\ GivesBack(c)

-----------------------------------------------------------------------------
(* The timer pump, on the main thread.                                      *)

\* The timer fires: drain the inbox, or unregister once stopped.
Tick ==
  /\ main = "idle"
  /\ armed
  /\ IF running
     THEN main' = "pumping" /\ UNCHANGED armed
     ELSE armed' = FALSE /\ UNCHANGED main
  /\ UNCHANGED <<loopVars, lifeVars, future, posted, running, exec, inbox, cmdVars, workVars,
                 answer>>

PumpTakes ==
  /\ main = "pumping"
  /\ inbox # <<>>
  /\ exec' = Head(inbox)
  /\ inbox' = Tail(inbox)
  /\ main' = "dispatching"
  /\ UNCHANGED <<loopVars, lifeVars, future, posted, running, armed, cmdVars, workVars, answer>>

\* The inbox is empty or the 8 ms are over; the timer is re-armed.
PumpYields ==
  /\ main = "pumping"
  /\ main' = "idle"
  /\ UNCHANGED <<loopVars, lifeVars, future, posted, running, armed, exec, inbox, cmdVars,
                 workVars, answer>>

\* dispatch() runs the capability, which returns or raises.
Dispatch ==
  /\ main = "dispatching"
  /\ \E o \in Outcomes : outcome' = [outcome EXCEPT ![exec] = o]
  /\ main' = "resolving"
  /\ UNCHANGED <<loopVars, lifeVars, future, posted, running, armed, exec, inbox, cmdVars,
                 audited, answer>>

\* An exception ends the tick, not the timer.
\* Fault: it reaches Blender, which unregisters the timer.
TickFails_Uncaught == main' = "idle" /\ armed' = FALSE
TickFails == main' = "idle" /\ UNCHANGED armed

\* Both branches of the pump log the command.
\* Fault: only the successful one does.
Logs_OnSuccess == audited' = IF outcome[exec] = "ok" THEN audited \union {exec} ELSE audited
Logs == audited' = audited \union {exec}

\* The result is posted to the loop and the command is logged.  With no _loop
\* both attempts to resolve raise: the tick ends, nothing is logged.
Resolve ==
  /\ main = "resolving"
  /\ exec' = NoReq
  /\ \/ /\ loopSet
        /\ posted' = [posted EXCEPT ![exec] = outcome[exec]]
        /\ Logs
        /\ main' = "pumping"
        /\ UNCHANGED armed
     \/ /\ ~loopSet
        /\ TickFails
        /\ UNCHANGED <<posted, audited>>
  /\ UNCHANGED <<loopVars, lifeVars, future, running, inbox, cmdVars, outcome, answer>>

-----------------------------------------------------------------------------
Lifecycle == Start \/ LoopStarts \/ StopBegins \/ StopJoins \/ StopDrains

HandlerStep(c) ==
  \/ \E r \in Requests : RefuseFrame(c, r) \/ Submit(c, r)
  \/ Wake(c) \/ TimeOut(c) \/ SendReply(c) \/ HandlerExits(c) \/ HandlerRaises(c)

Pump == Tick \/ PumpTakes \/ PumpYields \/ Dispatch \/ Resolve

Next ==
  \/ Lifecycle
  \/ Pump
  \/ \E c \in Conns : Connect(c) \/ SocketCloses(c) \/ HandlerStep(c)
  \/ \E r \in Requests : RunCallback(r)

Spec == Init /\ [][Next]_vars

\* The event loop keeps running its callbacks and its timers; nothing is
\* assumed of clients, of the user, or of the main thread.
LoopFairness ==
  /\ \A c \in Conns : /\ WF_vars(Wake(c))
                      /\ WF_vars(TimeOut(c))
                      /\ WF_vars(SendReply(c))
                      /\ WF_vars(HandlerExits(c))
  /\ \A r \in Requests : WF_vars(RunCallback(r))

\* Blender fires its timers, and a capability returns or raises.  Each tick
\* has a fresh 8 ms, so PumpTakes is not passed over for ever.
PumpFairness ==
  /\ WF_vars(Tick) /\ SF_vars(PumpTakes) /\ WF_vars(PumpYields)
  /\ WF_vars(Dispatch) /\ WF_vars(Resolve)

FairSpec == Spec /\ LoopFairness

-----------------------------------------------------------------------------
(* Safety.                                                                  *)

\* Slot bookkeeping of _handler: _connection_count and _clients agree, both
\* count exactly the handlers that have not run their `finally`, and never
\* more than _MAX_CONNECTIONS of them exist, whatever stops and restarts
\* happened in between.
SlotAccounting ==
  /\ clients = {c \in Conns : handler[c] # "absent"}
  /\ count = Cardinality(clients)
  /\ count <= MaxConnections

\* An unresolved future is awaited by the handler of its command.
PendingIsAwaited ==
  \A r \in Requests : future[r] = "pending" =>
    \E c \in Conns : handler[c] \in {"waiting", "leaked"} /\ cur[c] = r

\* No handler survives the event loop it runs on.
NoHandlerWithoutLoop ==
  ~LoopRuns => \A c \in Conns : handler[c] \in {"absent", "leaked"}

\* Queued commands are accepted, distinct, and have not run; nor has the one
\* that the pump is about to dispatch.
QueueIsFresh ==
  /\ \A i \in DOMAIN inbox : verdict[inbox[i]] = "submitted" /\ outcome[inbox[i]] = "none"
  /\ \A i, j \in DOMAIN inbox : inbox[i] = inbox[j] => i = j
  /\ main \in {"dispatching", "resolving"} => exec \in Requests /\ verdict[exec] = "submitted"
  /\ main = "dispatching" => /\ outcome[exec] = "none"
                             /\ \A i \in DOMAIN inbox : inbox[i] # exec
  /\ main = "resolving" => outcome[exec] \in Outcomes

\* What is on its way to a future, or in it, is what dispatch did.
ResultsAreTrue ==
  \A r \in Requests :
    /\ verdict[r] = "unseen" => answer[r] = "none"
    /\ outcome[r] # "none" => verdict[r] = "submitted"
    /\ future[r] \in Outcomes => outcome[r] = future[r]
    /\ posted[r] # "none" => outcome[r] = posted[r]

\* The response that handler c holds is true of the command it is for.
ReplyIsTrue(c) ==
  \/ hand[c] \in Refusals /\ verdict[cur[c]] = hand[c]
  \/ hand[c] = "MAIN_THREAD_TIMEOUT" /\ verdict[cur[c]] = "submitted"
  \/ /\ hand[c] \in Outcomes /\ outcome[cur[c]] = hand[c]
     /\ session[cur[c]] = starts

\* A handler is at work on a command of its own, which it has not answered.
HandlersAreHonest ==
  \A c \in Conns :
    /\ handler[c] \in {"absent", "reading"} => cur[c] = NoReq
    /\ handler[c] \in {"waiting", "replying"} => cur[c] \in Requests /\ answer[cur[c]] = "none"
    /\ handler[c] = "waiting" => verdict[cur[c]] = "submitted" /\ session[cur[c]] = starts
    /\ handler[c] = "replying" => ReplyIsTrue(c)
    /\ cur[c] \in Requests => verdict[cur[c]] # "unseen"
    /\ \A d \in Conns \ {c} : cur[c] = cur[d] => cur[c] = NoReq

\* Where a command stands is the same for the handler, the future, the inbox
\* and the pump, although two threads move it and neither takes a lock.
CommandLedger ==
  PendingIsAwaited /\ NoHandlerWithoutLoop /\ QueueIsFresh /\ ResultsAreTrue /\ HandlersAreHonest

\* The queued commands that somebody still waits for.
LiveBacklog == {i \in DOMAIN inbox : future[inbox[i]] = "pending"}

\* A handler reads nothing else while it waits, so no more entries of
\* main_thread._inbox are wanted than there are slots taken.  With the real
\* limits (4 and 256) BACKPRESSURE therefore means that at least 252 of the
\* queued commands were given up with MAIN_THREAD_TIMEOUT, and will still run.
LiveBacklogBounded == Cardinality(LiveBacklog) <= count

\* A client is only told an outcome by the server session that accepted its
\* command: a result that arrives after stop() and start() (the command
\* survived in _inbox) is delivered to nobody.
NoAnswerAcrossRestart ==
  [][\A r \in Requests :
       answer[r] = "none" /\ answer'[r] \in Outcomes => session[r] = starts]_vars

\* Every command that ran has its line in the audit log once the pump is done
\* with it (main_thread._pump; docs/ARCHITECTURE.md, layer 5).  The exception
\* is a command left over from an earlier session: it may run while there is
\* no loop to resolve it on.
AuditComplete ==
  \A r \in Requests :
    outcome[r] # "none" /\ exec # r => r \in audited \/ session[r] < starts

\* What the add-on has done with a command, in the terms of CommandService.
Fate ==
  [r \in Requests |-> IF outcome[r] # "none" THEN outcome[r]
                      ELSE IF verdict[r] = "submitted" THEN "accepted"
                      ELSE verdict[r]]

\* _handler and _pump together keep the promise of CommandService.
Service == INSTANCE CommandService WITH fate <- Fate
ImplementsService == Service!SvcSpec

-----------------------------------------------------------------------------
(* Liveness.                                                                *)

\* Whoever waits for the main thread is answered and read from again, or its
\* connection ends, or the server stops: even a main thread that hangs for ever
\* (a modal dialog, a long render) cannot hold a handler, because wait_for
\* gives up.
WaitersAreReleased ==
  \A c \in Conns :
    handler[c] \in {"waiting", "replying"} ~> handler[c] \in {"reading", "absent", "leaked"}

\* As long as Blender fires its timers, a queued command leaves _inbox, or the
\* server is stopped: one that raises, or whose result cannot be delivered,
\* does not end the pump.
InboxDrains ==
  PumpFairness =>
    \A r \in Requests :
      (\E i \in DOMAIN inbox : inbox[i] = r) ~>
        (\A i \in DOMAIN inbox : inbox[i] # r) \/ main = "stopping" \/ ~running

-----------------------------------------------------------------------------
(* What comments and messages of the code say, and the code does not do.    *)

\* Stop is the kill switch: nothing submitted before it runs after it
\* (ui/panel.py, "kill switch"; main_thread.stop, "Drain remaining items").
KillSwitch ==
  [][\A r \in Requests :
       outcome[r] = "none" /\ outcome'[r] # "none" => session[r] = starts]_vars

\* _connection_count is the number of active clients (the log lines of
\* ws_server._handler), so free slots exist whenever few clients are there.
\* A handler that waits when the server stops keeps its slot all the same.
SlotsAreActive ==
  count = Cardinality({c \in Conns : handler[c] \notin {"absent", "leaked"}})
=============================================================================
