--------------------------- MODULE BlenderClient ---------------------------
(***************************************************************************)
(* One BlenderWS object of the MCP server (mcp_server/blender_mcp/         *)
(* blender_client.py): concurrent call()s share a socket that is dialled   *)
(* on demand under _connect_lock, and one reader task that routes response *)
(* frames to the futures in _inflight.                                     *)
(*                                                                         *)
(* A step is what the event loop runs between two awaits.  Sockets die,    *)
(* Blender may refuse connections or never answer, and the notification    *)
(* handler, which the reader awaits, may block on a slow MCP client.       *)
(*                                                                         *)
(* Abstractions.                                                           *)
(*  - Sockets are numbered in the order they are dialled; the reader task  *)
(*    started for socket n is reader n.                                    *)
(*  - Time is absent: a timeout may fire whenever its timer runs.          *)
(*  - A send on a socket that has just closed fails within a few           *)
(*    iterations of the loop, sooner than a new handshake completes.       *)
(*  - close() is called by re-authentication only (Reauthentication).      *)
(***************************************************************************)
EXTENDS Naturals, FiniteSets

CONSTANTS
  Calls,        \* invocations of call()
  NoCall,       \* nobody holds the lock
  MaxSocks      \* bound on how often a socket is dialled

ASSUME ClientAssumption ==
  /\ NoCall \notin Calls
  /\ MaxSocks \in Nat

Socks == 1 .. MaxSocks

VARIABLES
  ws,          \* self._ws, 0 for None
  state,       \* state[n]: the websocket of dial n
  reader,      \* reader[n]: its reader task
  lock,        \* who holds _connect_lock
  pc,          \* where each call stands
  on,          \* on[k]: the local `ws` of call k
  inflight,    \* the keys of _inflight
  future,      \* the future of each call
  sent,        \* calls whose frame reached Blender and is not answered yet
  arrived      \* calls whose response is in the receive queue of its socket

vars == <<ws, state, reader, lock, pc, on, inflight, future, sent, arrived>>

TypeOK ==
  /\ ws \in 0 .. MaxSocks
  /\ state \in [Socks -> {"none", "open", "closing", "closed"}]
  /\ reader \in [Socks -> {"none", "reading", "notifying", "done"}]
  /\ lock \in Calls \union {NoCall}
  /\ pc \in [Calls -> {"idle", "connect", "drain", "dial", "send", "await",
                       "ok", "CONNECTION_LOST", "TIMEOUT"}]
  /\ on \in [Calls -> 0 .. MaxSocks]
  /\ inflight \in SUBSET Calls
  /\ future \in [Calls -> {"none", "pending", "response", "lost"}]
  /\ sent \in SUBSET Calls
  /\ arrived \in SUBSET Calls

Init ==
  /\ ws = 0
  /\ state = [n \in Socks |-> "none"]
  /\ reader = [n \in Socks |-> "none"]
  /\ lock = NoCall
  /\ pc = [k \in Calls |-> "idle"]
  /\ on = [k \in Calls |-> 0]
  /\ inflight = {}
  /\ future = [k \in Calls |-> "none"]
  /\ sent = {} /\ arrived = {}

-----------------------------------------------------------------------------
\* `self._ws is not None and not self._ws.closed`; CLOSING is not closed.
Connected == ws # 0 /\ state[ws] # "closed"

Live(n) == reader[n] \in {"reading", "notifying"}
SomeReaderLives == \E n \in Socks : Live(n)

\* call() after _connect() has returned: the future is in _inflight and the
\* frame is about to be sent on socket n.
Registers(k, n) ==
  /\ pc' = [pc EXCEPT ![k] = "send"]
  /\ on' = [on EXCEPT ![k] = n]
  /\ inflight' = inflight \union {k}
  /\ future' = [future EXCEPT ![k] = "pending"]

Begin(k) ==
  /\ pc[k] = "idle"
  /\ \/ Connected /\ Registers(k, ws)
     \/ /\ ~Connected
        /\ pc' = [pc EXCEPT ![k] = "connect"]
        /\ UNCHANGED <<on, inflight, future>>
  /\ UNCHANGED <<ws, state, reader, lock, sent, arrived>>

\* The lock is free: somebody else may have connected in the meantime.  If
\* not, the old reader must be gone before a new socket is dialled.
\* Fault: the old reader is not waited for.
AfterLock_NoDrain == "dial"
AfterLock == IF SomeReaderLives THEN "drain" ELSE "dial"

Locks(k) ==
  /\ pc[k] = "connect"
  /\ lock = NoCall
  /\ \/ Connected /\ Registers(k, ws) /\ UNCHANGED lock
     \/ /\ ~Connected
        /\ lock' = k
        /\ pc' = [pc EXCEPT ![k] = AfterLock]
        /\ UNCHANGED <<on, inflight, future>>
  /\ UNCHANGED <<ws, state, reader, sent, arrived>>

\* The `finally` of _read_loop: whoever still waits is told CONNECTION_LOST.
\* Fault: it is only reached when the loop ends by itself.
FailsInflight_Never == UNCHANGED <<inflight, future>>
FailsInflight ==
  /\ future' = [k \in Calls |-> IF k \in inflight THEN "lost" ELSE future[k]]
  /\ inflight' = {}

ReaderFinishes(n) ==
  /\ reader' = [reader EXCEPT ![n] = "done"]
  /\ FailsInflight
  /\ ws' = IF ws = n THEN 0 ELSE ws

\* The old reader ended by itself within 0.5 s ...
Drained(k) ==
  /\ pc[k] = "drain"
  /\ ~SomeReaderLives
  /\ pc' = [pc EXCEPT ![k] = "dial"]
  /\ UNCHANGED <<ws, state, reader, lock, on, inflight, future, sent, arrived>>

\* ... or is cancelled, wherever it stands, and awaited.
\* Fault: it is awaited without being cancelled.
DrainTimesOut_Never(k) == FALSE
DrainTimesOut(k) ==
  /\ pc[k] = "drain"
  /\ \E n \in Socks : Live(n) /\ ReaderFinishes(n)
  /\ pc' = [pc EXCEPT ![k] = "dial"]
  /\ UNCHANGED <<state, lock, on, sent, arrived>>

\* Blender accepts the connection.  A refusal is retried for ever, with a
\* back-off that no timeout of the call covers.
Dial(k) ==
  /\ pc[k] = "dial"
  /\ \A j \in Calls : pc[j] = "send" => state[on[j]] # "closed"
  /\ \E n \in Socks :
       /\ state[n] = "none"
       /\ \A m \in 1 .. (n - 1) : state[m] # "none"
       /\ state' = [state EXCEPT ![n] = "open"]
       /\ reader' = [reader EXCEPT ![n] = "reading"]
       /\ ws' = n
       /\ Registers(k, n)
  /\ lock' = NoCall
  /\ UNCHANGED <<sent, arrived>>

SendSucceeds(k) ==
  /\ pc[k] = "send"
  /\ state[on[k]] = "open"
  /\ pc' = [pc EXCEPT ![k] = "await"]
  /\ sent' = sent \union {k}
  /\ UNCHANGED <<ws, state, reader, lock, on, inflight, future, arrived>>

\* ws.send raises ConnectionClosed; while the socket is closing it waits.
SendFails(k) ==
  /\ pc[k] = "send"
  /\ state[on[k]] = "closed"
  /\ pc' = [pc EXCEPT ![k] = "CONNECTION_LOST"]
  /\ inflight' = inflight \ {k}
  /\ ws' = 0
  /\ UNCHANGED <<state, reader, lock, on, future, sent, arrived>>

\* What call() makes of its future.
\* Fault: what the reader left there is passed on as it is.
Outcome_Raw(f) == f
Outcome(f) == IF f = "response" THEN "ok" ELSE "CONNECTION_LOST"

\* wait_for returns, or gives up.
Resume(k) ==
  /\ pc[k] = "await"
  /\ future[k] \in {"response", "lost"}
  /\ pc' = [pc EXCEPT ![k] = Outcome(future[k])]
  /\ UNCHANGED <<ws, state, reader, lock, on, inflight, future, sent, arrived>>

\* Fault: the future is awaited without a timeout.
TimeOut_Never(k) == FALSE
TimeOut(k) ==
  /\ pc[k] = "await"
  /\ future[k] = "pending"
  /\ pc' = [pc EXCEPT ![k] = "TIMEOUT"]
  /\ inflight' = inflight \ {k}
  /\ UNCHANGED <<ws, state, reader, lock, on, future, sent, arrived>>

-----------------------------------------------------------------------------
(* The reader task.                                                         *)

\* A response resolves the call that is in flight under its id, if any.
ReaderTakes(k) ==
  /\ k \in arrived
  /\ reader[on[k]] = "reading"
  /\ arrived' = arrived \ {k}
  /\ inflight' = inflight \ {k}
  /\ future' = IF k \in inflight THEN [future EXCEPT ![k] = "response"] ELSE future
  /\ UNCHANGED <<ws, state, reader, lock, pc, on, sent>>

\* A notification: the reader awaits the handler, which awaits the MCP client.
ReaderNotifies(n) ==
  /\ reader[n] = "reading" /\ state[n] = "open"
  /\ reader' = [reader EXCEPT ![n] = "notifying"]
  /\ UNCHANGED <<ws, state, lock, pc, on, inflight, future, sent, arrived>>

ReaderReturns(n) ==
  /\ reader[n] = "notifying"
  /\ reader' = [reader EXCEPT ![n] = "reading"]
  /\ UNCHANGED <<ws, state, lock, pc, on, inflight, future, sent, arrived>>

\* The socket is closed and what had been received is consumed.
ReaderEnds(n) ==
  /\ reader[n] = "reading"
  /\ state[n] = "closed"
  /\ \A k \in arrived : on[k] # n
  /\ ReaderFinishes(n)
  /\ UNCHANGED <<state, lock, pc, on, sent, arrived>>

-----------------------------------------------------------------------------
(* The other end, and the network.                                          *)

Respond(k) ==
  /\ k \in sent
  /\ state[on[k]] = "open"
  /\ sent' = sent \ {k}
  /\ arrived' = arrived \union {k}
  /\ UNCHANGED <<ws, state, reader, lock, pc, on, inflight, future>>

SocketDies(n) ==
  /\ state[n] = "open"
  /\ state' = [state EXCEPT ![n] = "closing"]
  /\ UNCHANGED <<ws, reader, lock, pc, on, inflight, future, sent, arrived>>

CloseCompletes(n) ==
  /\ state[n] = "closing"
  /\ state' = [state EXCEPT ![n] = "closed"]
  /\ UNCHANGED <<ws, reader, lock, pc, on, inflight, future, sent, arrived>>

-----------------------------------------------------------------------------
CallStep(k) ==
  \/ Begin(k) \/ Locks(k) \/ Drained(k) \/ DrainTimesOut(k) \/ Dial(k)
  \/ SendSucceeds(k) \/ SendFails(k) \/ Resume(k) \/ TimeOut(k)

ReaderStep(n) == ReaderNotifies(n) \/ ReaderReturns(n) \/ ReaderEnds(n)

Next ==
  \/ \E k \in Calls : CallStep(k) \/ ReaderTakes(k) \/ Respond(k)
  \/ \E n \in Socks : ReaderStep(n) \/ SocketDies(n) \/ CloseCompletes(n)

Spec == Init /\ [][Next]_vars

\* The MCP server's loop runs, its timers fire, closing a socket takes bounded
\* time, and a frame is buffered unless the keep-alive closes the socket.
\* Nothing else is assumed of Blender, and nothing of the MCP client.
LoopFairness ==
  /\ \A k \in Calls :
       /\ WF_vars(Locks(k)) /\ WF_vars(Drained(k)) /\ WF_vars(DrainTimesOut(k))
       /\ WF_vars(SendSucceeds(k)) /\ WF_vars(SendFails(k))
       /\ WF_vars(Resume(k)) /\ WF_vars(TimeOut(k)) /\ WF_vars(ReaderTakes(k))
  /\ \A n \in Socks : WF_vars(ReaderEnds(n)) /\ WF_vars(CloseCompletes(n))

FairSpec == Spec /\ LoopFairness

-----------------------------------------------------------------------------
\* _connect's comment: never two readers, and never a socket without one.
OneReaderPerSocket ==
  /\ Cardinality({n \in Socks : Live(n)}) <= 1
  /\ \A n \in Socks : state[n] \in {"open", "closing"} => Live(n)

\* Somebody who waits for a response is known to a reader of the very socket
\* the command went out on: no call is left to its timeout by a reader that
\* has already gone.
AwaitedHasReader ==
  \A k \in Calls :
    pc[k] = "await" /\ future[k] = "pending" => k \in inflight /\ Live(on[k])

\* Once its frame is handed to a socket, a call returns, whatever happens to
\* the socket, to Blender, or to the MCP client's end of the reader.
SendersReturn ==
  \A k \in Calls : pc[k] = "send" ~> pc[k] \in {"ok", "CONNECTION_LOST", "TIMEOUT"}

\* A call that holds _connect_lock comes to dial: an old reader that hangs in
\* its notification handler cannot block reconnection.
DrainEnds == \A k \in Calls : pc[k] = "drain" ~> pc[k] = "dial"
=============================================================================
