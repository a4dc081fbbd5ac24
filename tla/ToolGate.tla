------------------------------ MODULE ToolGate ------------------------------
(***************************************************************************)
(* What a tool call passes in the MCP server before its command goes to    *)
(* Blender: the policy and its rate limit (policy.py, rate_limit.py), the  *)
(* checks of its arguments, and the approval of the user, asked for over   *)
(* HTTP (approval.py) in a VS Code window (vscode_extension/approval.ts).  *)
(*                                                                         *)
(*  - One MCP server, whose calls interleave at the awaits of the approval *)
(*    request; windows of VS Code that come and go.                        *)
(*  - Time is counted in ticks, for the two rate limits only; a read       *)
(*    timeout may come whenever a request waits.                           *)
(*  - The tokens of rate_limit.py are floats; here a token is Window units *)
(*    and a tick brings Capacity units, so nothing is rounded.             *)
(***************************************************************************)
EXTENDS Integers, FiniteSets

CONSTANTS
  Calls,            \* tool calls, numbered in the order they are made
  Tools,            \* tools that are called
  Keys,             \* arguments of a tool: requests with the same session key
  Windows,          \* extension hosts: one per VS Code window and reload
  Ports,            \* loopback ports they listen on
  AllowedTools,     \* policy.allowed_tools
  DeniedTools,      \* policy.denied_tools
  ConfirmRequired,  \* policy.confirm_required
  Capacity, Window, \* rate_limit: so many mutating calls in so many ticks
  Burst, Refill,    \* RATE_BURST, RATE_REFILL_MS
  MaxTime,          \* bound on the clock
  NoEndpoint

ASSUME ToolGateAssumption ==
  /\ \A n \in {Capacity, Window, Burst, Refill, MaxTime} : n \in Nat \ {0}
  /\ NoEndpoint \notin Windows
  /\ Calls \subseteq Nat

VARIABLES
  now,      \* the clock
  bucket,   \* TokenBucket of the policy
  call,     \* the tool calls
  win,      \* the windows and their approval servers
  file,     \* approval.json: the window that wrote it
  env       \* BLENDER_MCP_APPROVAL_URL and _CSRF: the window they came from

vars == <<now, bucket, call, win, file, env>>

\* tool_meta.READ_ONLY_TOOLS, the tools whose arguments are checked against
\* the policy, and those that can be asked for a dry run.
ReadOnlyTools == {"query", "viewport_screenshot"}
CheckedTools  == {"viewport_screenshot", "create_objects", "restore_checkpoint"}
DryRunTools   == {"create_objects", "delete_object"}

AllTools == ReadOnlyTools \union CheckedTools \union DryRunTools
              \union {"set_transform", "execute_python"}

ASSUME ToolsAssumption ==
  Tools \union DeniedTools \union ConfirmRequired \subseteq AllTools

Waiting  == {"asks", "posted", "prompted"}
Returned == {"refused", "unavailable", "rejected", "sent"}

TypeOK ==
  /\ now \in 0 .. MaxTime
  /\ bucket.units \in 0 .. Capacity * Window /\ bucket.last \in 0 .. now
  /\ \A c \in Calls :
       /\ call[c].pc \in {"idle", "cleared"} \union Waiting \union Returned
       /\ call[c].tool \in Tools \union {"none"}
       /\ call[c].to \in Windows \union {NoEndpoint}
       /\ call[c].panel \in {"none", "open", "closed"}
       /\ call[c].answer \in {"none", "approve", "approve_session", "reject"}
  /\ \A v \in Windows :
       /\ win[v].st \in {"off", "on", "closing", "dead"}
       /\ win[v].tokens \in 0 .. Burst /\ win[v].ts \in 0 .. now
  /\ {file, env} \subseteq Windows \union {NoEndpoint}

Init ==
  /\ now = 0
  /\ bucket = [units |-> Capacity * Window, last |-> 0, takes |-> 0]
  /\ call = [c \in Calls |->
       [pc |-> "idle", tool |-> "none", key |-> "none", dry |-> FALSE, to |-> NoEndpoint,
        port |-> 0, panel |-> "none", answer |-> "none", granted |-> -1, retry |-> -1, seen |-> 0]]
  /\ win = [v \in Windows |->
       [st |-> "off", port |-> 0, wrote |-> FALSE, session |-> {}, tokens |-> Burst, ts |-> 0]]
  /\ file = NoEndpoint /\ env = NoEndpoint

Tick == now < MaxTime /\ now' = now + 1 /\ UNCHANGED <<bucket, call, win, file, env>>

Min2(a, b) == IF a < b THEN a ELSE b

-----------------------------------------------------------------------------
(* policy.require and the checks of a tool wrapper: no await in between.    *)

\* The bucket as take() finds it.
\* Fault: the refill is not capped.
Refilled_Uncapped ==
  [bucket EXCEPT !.units = @ + (now - bucket.last) * Capacity, !.last = now]
Refilled ==
  [bucket EXCEPT !.units = Min2(Capacity * Window, @ + (now - bucket.last) * Capacity),
                 !.last = now]

\* Fault: a call that is refused is charged too.
Take_Always(b) == [b EXCEPT !.units = @ - Window, !.takes = @ + 1]
Take(b) ==
  IF b.units >= Window THEN [b EXCEPT !.units = @ - Window, !.takes = @ + 1]
  ELSE [b EXCEPT !.takes = @ + 1]

\* shortfall / refill_rate, in whole ticks.
RetryAfter(b) == (Window - b.units + Capacity - 1) \div Capacity

NeedsApproval(t, dry) ==
  \/ t = "restore_checkpoint"
  \/ t \in ConfirmRequired \intersect {"delete_object", "execute_python"} /\ ~dry

Enters(c, r) ==
  /\ call' = [call EXCEPT ![c] = r]
  /\ UNCHANGED <<now, win, file, env>>

\* A tool call: require, the checks of the arguments, and then the approval
\* or the command.  A token that was taken is not given back.
Begin(c, t, k, dry, valid) ==
  LET r    == [call[c] EXCEPT !.tool = t, !.key = k, !.dry = dry]
      next == IF ~valid THEN "refused"
              ELSE IF NeedsApproval(t, dry) THEN "asks" ELSE "cleared"
      b    == Refilled
  IN
  /\ call[c].pc = "idle" /\ \A d \in Calls : d < c => call[d].pc # "idle"
  /\ dry => t \in DryRunTools
  /\ valid \/ t \in CheckedTools
  /\ \/ /\ t \in DeniedTools \/ t \notin AllowedTools
        /\ Enters(c, [r EXCEPT !.pc = "refused"])
        /\ UNCHANGED bucket
     \/ /\ t \in AllowedTools \ DeniedTools
        /\ t \in ReadOnlyTools
        /\ Enters(c, [r EXCEPT !.pc = next])
        /\ UNCHANGED bucket
     \/ /\ t \in AllowedTools \ (DeniedTools \union ReadOnlyTools)
        /\ bucket' = Take(b)
        /\ IF b.units >= Window
           THEN Enters(c, [r EXCEPT !.pc = next, !.granted = now])
           ELSE Enters(c, [r EXCEPT !.pc = "refused", !.seen = bucket'.takes,
                                    !.retry = now + RetryAfter(b)])

Moves(c, r) ==
  /\ call' = [call EXCEPT ![c] = r]
  /\ UNCHANGED <<now, bucket, file, env>>

Sends(c) ==
  /\ call[c].pc = "cleared"
  /\ Moves(c, [call[c] EXCEPT !.pc = "sent"])
  /\ UNCHANGED win

-----------------------------------------------------------------------------
(* request_approval.                                                        *)

Alive(v) == win[v].st \in {"on", "closing"}

\* discover_endpoint: the environment is believed, the file only while the
\* process that wrote it is alive.
Endpoint ==
  IF env # NoEndpoint THEN env
  ELSE IF file # NoEndpoint /\ Alive(file) THEN file
  ELSE NoEndpoint

Discover(c) ==
  /\ call[c].pc = "asks"
  /\ Moves(c, IF Endpoint = NoEndpoint THEN [call[c] EXCEPT !.pc = "unavailable"]
              ELSE [call[c] EXCEPT !.pc = "posted", !.to = Endpoint,
                                   !.port = win[Endpoint].port])
  /\ UNCHANGED win

\* _checkRate: whole tokens for whole intervals; the rest of one is lost.
Rated(v) ==
  LET n == (now - win[v].ts) \div Refill
  IN  IF n > 0 THEN [win[v] EXCEPT !.tokens = Min2(Burst, @ + n), !.ts = now] ELSE win[v]

\* sessionKey: the tool and a digest of the arguments.
\* Fault: the tool alone.
SessionKey_Tool(c) == <<call[c].tool>>
SessionKey(c) == <<call[c].tool, call[c].key>>

\* _handleRequest, _processBody: some window listens on the port.  Anything
\* but a 200 is "not available" to the caller.
Arrives(c) ==
  /\ call[c].pc = "posted"
  /\ LET on == {v \in Windows : win[v].st = "on" /\ win[v].port = call[c].port}
     IN
     \/ /\ on = {}
        /\ Moves(c, [call[c] EXCEPT !.pc = "unavailable"])
        /\ UNCHANGED win
     \/ \E v \in on :
          IF Rated(v).tokens = 0
          THEN /\ win' = [win EXCEPT ![v] = Rated(v)]
               /\ Moves(c, [call[c] EXCEPT !.pc = "unavailable"])
          ELSE /\ win' = [win EXCEPT ![v] = [Rated(v) EXCEPT !.tokens = @ - 1]]
               /\ Moves(c, IF v # call[c].to   \* the csrf is another window's
                           THEN [call[c] EXCEPT !.pc = "unavailable"]
                           ELSE IF SessionKey(c) \in win[v].session
                           THEN [call[c] EXCEPT !.pc = "cleared"]
                           ELSE [call[c] EXCEPT !.pc = "prompted", !.panel = "open"])

\* No answer in 120 s.  The window is not told, and the panel stays.
ReadTimeout_Never(c) == FALSE /\ UNCHANGED vars
ReadTimeout(c) ==
  /\ call[c].pc = "prompted"
  /\ Moves(c, [call[c] EXCEPT !.pc = "unavailable"])
  /\ UNCHANGED win

-----------------------------------------------------------------------------
(* ApprovalPanel, ApprovalServer.                                           *)

\* What the three buttons and the closing of the panel say.
\* Fault: closing the panel is no answer, and the default is to approve.
Approved_Default(a) == a # "reject"
Approved(a) == a \in {"approve", "approve_session"}

\* The user answers; the caller may have gone.
Answers(c, a) ==
  /\ call[c].panel = "open"
  /\ Moves(c, [call[c] EXCEPT
       !.panel = "closed", !.answer = IF a = "close" THEN "reject" ELSE a,
       !.pc = IF @ # "prompted" THEN @ ELSE IF Approved(a) THEN "cleared" ELSE "rejected"])
  /\ win' = IF a = "approve_session"
            THEN [win EXCEPT ![call[c].to].session = @ \union {SessionKey(c)}]
            ELSE win

\* start(): it listens, clears a stale file away and writes its own; that
\* may fail and is then left.
WindowStarts(v, p) ==
  /\ win[v].st = "off"
  /\ \A u \in Windows : win[u].st = "on" => win[u].port # p
  /\ \/ file' = v /\ win' = [win EXCEPT ![v].st = "on", ![v].port = p, ![v].wrote = TRUE]
     \/ /\ file' = IF file # NoEndpoint /\ ~Alive(file) THEN NoEndpoint ELSE file
        /\ win' = [win EXCEPT ![v].st = "on", ![v].port = p]
  /\ UNCHANGED <<now, bucket, call, env>>

\* _removeDiscovery: the path that was written, whoever has written it since.
WithoutFile(v) == IF win[v].wrote THEN NoEndpoint ELSE file

\* stop(): no new connections; those that wait for an answer go on.
WindowStops(v) ==
  /\ win[v].st = "on"
  /\ file' = WithoutFile(v)
  /\ win' = [win EXCEPT ![v].st = "closing", ![v].wrote = FALSE]
  /\ UNCHANGED <<now, bucket, call, env>>

\* The extension host ends, with its panels and its connections.
WindowDies(v) ==
  /\ Alive(v)
  /\ win' = [win EXCEPT ![v].st = "dead", ![v].session = {}]
  /\ call' = [c \in Calls |->
       IF call[c].to = v /\ call[c].panel = "open"
       THEN [call[c] EXCEPT !.panel = "closed",
                            !.pc = IF @ = "prompted" THEN "unavailable" ELSE @]
       ELSE call[c]]
  /\ UNCHANGED <<now, bucket, file, env>>

\* VS Code starts the MCP server with the endpoint of its own window.
Inherits(v) ==
  /\ env = NoEndpoint /\ win[v].st = "on"
  /\ \A c \in Calls : call[c].pc = "idle"
  /\ env' = v
  /\ UNCHANGED <<now, bucket, call, win, file>>

Next ==
  \/ Tick
  \/ \E c \in Calls :
       \/ \E t \in Tools, k \in Keys, dry, valid \in BOOLEAN : Begin(c, t, k, dry, valid)
       \/ Discover(c) \/ Arrives(c) \/ ReadTimeout(c) \/ Sends(c)
       \/ \E a \in {"approve", "approve_session", "reject", "close"} : Answers(c, a)
  \/ \E v \in Windows :
       \/ \E p \in Ports : WindowStarts(v, p)
       \/ WindowStops(v) \/ WindowDies(v) \/ Inherits(v)

\* The event loop runs a call on, and its HTTP client gives up in the end.
Fairness ==
  \A c \in Calls : WF_vars(Discover(c) \/ Arrives(c) \/ ReadTimeout(c) \/ Sends(c))

Spec == Init /\ [][Next]_vars /\ Fairness

-----------------------------------------------------------------------------
\* What has been sent to Blender was allowed, counted by the rate limit if
\* it may change the scene, and, where that is required, approved by the
\* user: at a prompt of its own, or for the session at an earlier prompt for
\* the same tool and arguments.  An answer that comes after the caller has
\* given up approves nothing but what is asked later.
OnlyClearedIsSent ==
  \A c \in Calls : call[c].pc = "sent" =>
    /\ call[c].tool \in AllowedTools \ DeniedTools
    /\ call[c].tool \notin ReadOnlyTools => call[c].granted >= 0
    /\ NeedsApproval(call[c].tool, call[c].dry) =>
         \/ call[c].answer \in {"approve", "approve_session"}
         \/ \E d \in Calls \ {c} :
              /\ call[d].answer = "approve_session" /\ call[d].to = call[c].to
              /\ call[d].tool = call[c].tool /\ call[d].key = call[c].key

\* The rate limit keeps its word: between the first and the last of n calls
\* it let through, there was time for all but Capacity of them; and a caller
\* that it sent away may come after the time it named, if nobody else has.
RateLimitHolds ==
  /\ \A c, d \in Calls :
       LET between == {e \in Calls : call[e].granted >= call[c].granted
                                       /\ call[e].granted <= call[d].granted}
       IN  call[c].granted >= 0 /\ call[d].granted >= call[c].granted =>
             Cardinality(between) * Window
               <= Capacity * (Window + call[d].granted - call[c].granted)
  /\ \A c \in Calls :
       call[c].retry >= 0 /\ call[c].seen = bucket.takes /\ now >= call[c].retry
         => Refilled.units >= Window

\* A tool call that asks for approval comes to an end, whatever the user and
\* the windows do.
CallsReturn ==
  \A c \in Calls : call[c].pc \in Waiting ~> call[c].pc \in Returned
=============================================================================
