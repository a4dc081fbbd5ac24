-------------------------- MODULE Reauthentication --------------------------
(***************************************************************************)
(* Recovery of the MCP server from a rotated token (mcp_server/blender_mcp/ *)
(* server.py: _resolve_credentials, _get_client, _reset_client_for_reauth  *)
(* and the retry of _call) against the add-on that owns the token          *)
(* (preferences.py, the authentication of ws_server._handler, and the      *)
(* connection file that start() writes and stop() removes).                *)
(*                                                                         *)
(* Concurrent _call()s share the global client _bl.  One that is answered  *)
(* AUTH drops whatever client is global by then, closes it, builds another *)
(* from fresh credentials and sends its command once more.                 *)
(*                                                                         *)
(* Abstractions.                                                           *)
(*  - A client object is its token, and whether its socket is up; how it   *)
(*    dials and demultiplexes is BlenderClient.                            *)
(*  - Tokens are numbered by age; token 1 is also the one injected in the  *)
(*    environment of the MCP server.  The keyring is not consulted.        *)
(*  - close() cancels the reader, which fails the calls in flight, within  *)
(*    the step that resets; the closing handshake is still to come.        *)
(*  - What the pump does with an accepted command is CommandBridge; here   *)
(*    it is executed, or dropped by a stop of the server.                  *)
(***************************************************************************)
EXTENDS Naturals, Sequences, FiniteSets

CONSTANTS
  Calls,       \* invocations of _call()
  MaxClients,  \* bound on the client objects built
  MaxToken,    \* bound on the tokens generated
  MaxDeaths,   \* bound on sockets dying by themselves
  MaxStops     \* bound on stops of the server

ASSUME ReauthAssumption ==
  /\ MaxClients \in Nat /\ MaxDeaths \in Nat /\ MaxStops \in Nat
  /\ MaxToken \in Nat \ {0}

Clients == 1 .. MaxClients
Tokens == 1 .. MaxToken
EnvToken == 1

VARIABLES
  running,   \* the add-on's server is up
  live,      \* prefs.token
  file,      \* the token in connection.json, 0 if there is no file
  bl,        \* server._bl, 0 for None
  token,     \* the token of each client object, 0 before it is built
  up,        \* clients whose socket is open
  wire,      \* wire[c]: commands of c the server has not read yet, in order
  accepted,  \* commands that passed authentication and have not run
  executed,  \* how often each command was executed
  pc, client, retried, future,   \* each call: where it stands, its `bl`, ...
  steady,    \* calls during which the file has always held the live token
  stops, deaths                  \* bounds

addon == <<running, live, file, stops>>
calls == <<pc, client, retried, future>>
vars == <<addon, bl, token, up, wire, accepted, executed, calls, steady, deaths>>

TypeOK ==
  /\ running \in BOOLEAN
  /\ live \in Tokens /\ file \in {0} \union Tokens
  /\ bl \in {0} \union Clients
  /\ token \in [Clients -> {0} \union Tokens]
  /\ up \in SUBSET Clients
  /\ wire \in [Clients -> Seq(Calls)]
  /\ accepted \in SUBSET Calls
  /\ executed \in [Calls -> 0 .. 2]
  /\ pc \in [Calls -> {"idle", "connect", "flight", "closing",
                       "ok", "AUTH", "CONNECTION_LOST", "TIMEOUT"}]
  /\ client \in [Calls -> {0} \union Clients]
  /\ retried \in SUBSET Calls
  /\ future \in [Calls -> {"none", "pending", "ok", "AUTH", "CONNECTION_LOST"}]
  /\ steady \in SUBSET Calls
  /\ stops \in 0 .. MaxStops /\ deaths \in 0 .. MaxDeaths

Init ==
  /\ running = TRUE /\ live = 1 /\ file = 1
  /\ bl = 0 /\ token = [c \in Clients |-> 0] /\ up = {}
  /\ wire = [c \in Clients |-> <<>>] /\ accepted = {}
  /\ executed = [k \in Calls |-> 0]
  /\ pc = [k \in Calls |-> "idle"] /\ client = [k \in Calls |-> 0]
  /\ retried = {} /\ future = [k \in Calls |-> "none"]
  /\ steady = {} /\ stops = 0 /\ deaths = 0

-----------------------------------------------------------------------------
(* The MCP server.                                                          *)

\* The connection file is the live truth; the environment is the fallback.
\* Fault: the environment wins.
Credentials_Env == EnvToken
Credentials == IF file # 0 THEN file ELSE EnvToken

\* _get_client: the global client, or a new one.
Gets(c, b) ==
  \/ b # 0 /\ c = b /\ UNCHANGED token
  \/ /\ b = 0 /\ token[c] = 0
     /\ \A d \in 1 .. (c - 1) : token[d] # 0
     /\ token' = [token EXCEPT ![c] = Credentials]

\* bl.call up to its first wait: on an open socket the command is sent at
\* once, otherwise the client has to dial first.
Issues(k, c) ==
  /\ client' = [client EXCEPT ![k] = c]
  /\ IF c \in up
       THEN /\ pc' = [pc EXCEPT ![k] = "flight"]
            /\ future' = [future EXCEPT ![k] = "pending"]
            /\ wire' = [wire EXCEPT ![c] = Append(@, k)]
       ELSE /\ pc' = [pc EXCEPT ![k] = "connect"]
            /\ UNCHANGED <<future, wire>>

Begin(k) ==
  /\ pc[k] = "idle"
  /\ \E c \in Clients : Gets(c, bl) /\ Issues(k, c) /\ bl' = c
  /\ steady' = IF running /\ file = live THEN steady \union {k} ELSE steady
  /\ UNCHANGED <<addon, up, accepted, executed, retried, deaths>>

\* The dial succeeds, if need be.
Dials(k) ==
  /\ pc[k] = "connect"
  /\ running
  /\ up' = up \union {client[k]}
  /\ pc' = [pc EXCEPT ![k] = "flight"]
  /\ future' = [future EXCEPT ![k] = "pending"]
  /\ wire' = [wire EXCEPT ![client[k]] = Append(@, k)]
  /\ UNCHANGED <<addon, bl, token, accepted, executed, client, retried, steady, deaths>>

\* Calls of the clients in C that wait for an answer are told that the reader
\* has exited.
LosesCalls(C) ==
  future' = [k \in Calls |->
    IF pc[k] = "flight" /\ client[k] \in C /\ future[k] = "pending"
      THEN "CONNECTION_LOST" ELSE future[k]]

\* Which answers make _call reset and retry.
\* Fault: a lost connection does as well.
Retryable_Lost(code) == code \in {"AUTH", "CONNECTION_LOST"}
Retryable(code) == code = "AUTH"

\* Fault: the call does not wait for its future.
Answered_Always(f) == TRUE
Answered(f) == f # "pending"

\* An answer that is final.
Finishes(k) ==
  /\ pc[k] = "flight" /\ Answered(future[k])
  /\ Retryable(future[k]) => k \in retried
  /\ pc' = [pc EXCEPT ![k] = future[k]]
  /\ UNCHANGED <<addon, bl, token, up, wire, accepted, executed, client, retried,
                 future, steady, deaths>>

\* _reset_client_for_reauth: the client that is global now is dropped and
\* closed, be it the one that was refused or not.
Resets(k) ==
  /\ pc[k] = "flight"
  /\ Retryable(future[k]) /\ k \notin retried
  /\ bl' = 0
  /\ up' = up \ {bl}
  /\ LosesCalls({bl})
  /\ pc' = [pc EXCEPT ![k] = "closing"]
  /\ UNCHANGED <<addon, token, wire, accepted, executed, client, retried, steady, deaths>>

\* The old client is closed; the command goes out again.
Retries(k) ==
  /\ pc[k] = "closing"
  /\ retried' = retried \union {k}
  /\ \E c \in Clients : Gets(c, bl) /\ Issues(k, c) /\ bl' = c
  /\ UNCHANGED <<addon, up, accepted, executed, steady, deaths>>

TimesOut(k) ==
  /\ pc[k] = "flight" /\ future[k] = "pending"
  /\ pc' = [pc EXCEPT ![k] = "TIMEOUT"]
  /\ UNCHANGED <<addon, bl, token, up, wire, accepted, executed, client, retried,
                 future, steady, deaths>>

-----------------------------------------------------------------------------
(* The add-on.                                                              *)

Waits(k, c) == pc[k] = "flight" /\ future[k] = "pending" /\ client[k] = c

Answers(k, c, code) ==
  future' = IF Waits(k, c) /\ c \in up THEN [future EXCEPT ![k] = code] ELSE future

\* _handler compares the token of a frame with the preferences of the moment.
\* It reads the next frame of a connection when it has answered the last one.
Authenticates(c) ==
  /\ running /\ wire[c] # <<>>
  /\ ~ \E j \in accepted : Waits(j, c)
  /\ LET k == Head(wire[c]) IN
       /\ wire' = [wire EXCEPT ![c] = Tail(@)]
       /\ IF token[c] = live
            THEN accepted' = accepted \union {k} /\ UNCHANGED future
            ELSE Answers(k, c, "AUTH") /\ UNCHANGED accepted
  /\ UNCHANGED <<addon, bl, token, up, executed, pc, client, retried, steady, deaths>>

Executes(k) ==
  /\ k \in accepted
  /\ accepted' = accepted \ {k}
  /\ executed' = [executed EXCEPT ![k] = @ + 1]
  /\ Answers(k, client[k], "ok")
  /\ UNCHANGED <<addon, bl, token, up, wire, pc, client, retried, steady, deaths>>

\* "Regenerate Token": the preferences change, the connection file does not.
Regenerates ==
  /\ live < MaxToken
  /\ live' = live + 1
  /\ steady' = {}
  /\ UNCHANGED <<running, file, stops, bl, token, up, wire, accepted, executed,
                 calls, deaths>>

\* stop(): the sockets close, the file goes, and what was queued is dropped
\* or survives (CommandBridge).
Stops ==
  /\ running /\ stops < MaxStops
  /\ running' = FALSE /\ file' = 0 /\ stops' = stops + 1
  /\ up' = {}
  /\ wire' = [c \in Clients |-> <<>>]
  /\ \E kept \in SUBSET accepted : accepted' = kept
  /\ LosesCalls(Clients)
  /\ steady' = {}
  /\ UNCHANGED <<live, bl, token, executed, pc, client, retried, deaths>>

Starts ==
  /\ ~running
  /\ running' = TRUE /\ file' = live
  /\ UNCHANGED <<live, stops, bl, token, up, wire, accepted, executed, calls, steady, deaths>>

\* A socket dies; what the server has received of it may still be read.
SocketDies(c) ==
  /\ c \in up /\ deaths < MaxDeaths
  /\ deaths' = deaths + 1
  /\ up' = up \ {c}
  /\ LosesCalls({c})
  /\ \E n \in 0 .. Len(wire[c]) : wire' = [wire EXCEPT ![c] = SubSeq(@, 1, n)]
  /\ UNCHANGED <<addon, bl, token, accepted, executed, pc, client, retried, steady>>

-----------------------------------------------------------------------------
Next ==
  \/ \E k \in Calls :
       Begin(k) \/ Dials(k) \/ Finishes(k) \/ Resets(k) \/ Retries(k) \/ TimesOut(k) \/ Executes(k)
  \/ \E c \in Clients : Authenticates(c) \/ SocketDies(c)
  \/ Regenerates \/ Stops \/ Starts

Spec == Init /\ [][Next]_vars

-----------------------------------------------------------------------------
\* The retry is safe: a command never runs twice, one that is answered ran,
\* and one that is refused did not, whatever the interleaving of resets,
\* rotations, restarts, lost connections and late answers.
RetryIsSafe ==
  \A k \in Calls :
    /\ executed[k] <= 1
    /\ pc[k] = "ok" => executed[k] = 1
    /\ pc[k] = "AUTH" => executed[k] = 0

\* AUTH reaches the caller only if the connection file did not hold the live
\* token at some moment of the call: a stale cached client never shows.
AuthMeansStaleFile == \A k \in Calls : pc[k] = "AUTH" => k \notin steady

\* What the caller of _call has been told.
Told == [k \in Calls |-> IF pc[k] \in {"ok", "AUTH", "CONNECTION_LOST", "TIMEOUT"} THEN pc[k] ELSE "none"]

\* To its caller, a call with its retry, on clients that come and go, is one
\* that runs its command at most once and tells the truth about it.
Caller == INSTANCE CallService WITH ran <- executed, told <- Told
ImplementsCaller == Caller!CallSpec

\* "a stale cached token (Blender restarted) must trigger a one-shot retry
\* with refreshed credentials": with the file up to date throughout the call,
\* and no socket dying by itself, the call does not fail.
\* Another call's reset may close the client under it all the same.
StaleTokenIsRetried ==
  \A k \in Calls : k \in steady /\ deaths = 0 => pc[k] # "CONNECTION_LOST"
=============================================================================
