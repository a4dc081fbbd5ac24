--------------------------- MODULE ToolGateProofs ---------------------------
(***************************************************************************)
(* Theorems about ToolGate, for any calls, windows, ports, policy and      *)
(* limits: its types, that nothing is sent that the policy, the rate       *)
(* limit or the user has not cleared, and that the rate limit is kept.     *)
(***************************************************************************)
EXTENDS ToolGate, FiniteSetTheorems, TLAPS

ToolsOrNone == Tools \union {"none"}
KeysOrNone  == Keys \union {"none"}
WindowOrNone == Windows \union {NoEndpoint}
Answer == {"none", "approve", "approve_session", "reject"}

CallRecords ==
  [pc : {"idle", "cleared"} \union Waiting \union Returned,
   tool : ToolsOrNone, key : KeysOrNone, dry : BOOLEAN, to : WindowOrNone,
   port : Ports \union {0}, panel : {"none", "open", "closed"}, answer : Answer,
   granted : Int, retry : Int, seen : Int]

WindowRecords ==
  [st : {"off", "on", "closing", "dead"}, port : Ports \union {0}, wrote : BOOLEAN,
   session : SUBSET (ToolsOrNone \X KeysOrNone), tokens : 0 .. Burst, ts : Nat]

Buckets == [units : 0 .. Capacity * Window, last : Nat, takes : Int]

\* TypeOK with the whole records.
Shape ==
  /\ now \in 0 .. MaxTime
  /\ bucket \in Buckets /\ bucket.last <= now
  /\ call \in [Calls -> CallRecords]
  /\ win \in [Windows -> WindowRecords] /\ \A v \in Windows : win[v].ts <= now
  /\ file \in WindowOrNone /\ env \in WindowOrNone

\* Where the prompt of a call stands: a call that is waiting for one has it
\* open, and an answer closes it for good.
PanelFollows(r) ==
  /\ r.pc \in {"idle", "asks", "posted"} => r.panel = "none"
  /\ r.pc = "prompted" => r.panel = "open"
  /\ r.panel \in {"none", "open"} => r.answer = "none"
  /\ r.panel = "open" => r.to \in Windows

PanelsFollowCalls == \A c \in Calls : PanelFollows(call[c])

\* What is on its way has passed the policy and the rate limit.
Admitted(r) ==
  /\ r.tool \in AllowedTools \ DeniedTools
  /\ r.tool \notin ReadOnlyTools => r.granted >= 0

GoesOn(r) == r.pc \in Waiting \union {"cleared", "sent"}

OnlyAdmittedGoOn == \A c \in Calls : GoesOn(call[c]) => Admitted(call[c])

\* d is the prompt at which the user allowed such calls for the session.
AllowsSession(d, v, t, k) ==
  /\ call[d].answer = "approve_session" /\ call[d].to = v
  /\ call[d].tool = t /\ call[d].key = k

SessionsWereApproved ==
  \A v \in Windows, t \in ToolsOrNone, k \in KeysOrNone :
    <<t, k>> \in win[v].session => \E d \in Calls : AllowsSession(d, v, t, k)

ApprovedOrFree(c, r) ==
  r.pc \in {"cleared", "sent"} /\ NeedsApproval(r.tool, r.dry) =>
    \/ r.answer \in {"approve", "approve_session"}
    \/ \E d \in Calls \ {c} : AllowsSession(d, r.to, r.tool, r.key)

ClearedWereApproved == \A c \in Calls : ApprovedOrFree(c, call[c])

IInv ==
  /\ Shape /\ PanelsFollowCalls /\ OnlyAdmittedGoOn
  /\ SessionsWereApproved /\ ClearedWereApproved

-----------------------------------------------------------------------------
\* Arithmetic of the two buckets.
LEMMA MinLemma ==
  ASSUME NEW a \in Int, NEW b \in Int
  PROVE  Min2(a, b) \in {a, b} /\ Min2(a, b) <= a /\ Min2(a, b) <= b
  BY DEF Min2

LEMMA ProductLemma ==
  ASSUME NEW a \in Nat, NEW b \in Nat
  PROVE  a * b \in Nat
  OBVIOUS

LEMMA RefilledType ==
  ASSUME Shape PROVE Refilled \in Buckets /\ Refilled.last = now
<1>1. Capacity \in Nat /\ Window \in Nat /\ now \in Nat /\ bucket \in Buckets /\ bucket.last <= now
  BY ToolGateAssumption DEF Shape
<1>2. now - bucket.last \in Nat
  BY <1>1 DEF Buckets
<1> DEFINE brought == (now - bucket.last) * Capacity
           full == Capacity * Window
<1>3. brought \in Nat /\ full \in Nat
  BY <1>1, <1>2, ProductLemma
<1>4. bucket.units \in 0 .. full
  BY <1>1 DEF Buckets
<1> HIDE DEF brought, full
<1>5. Min2(full, bucket.units + brought) \in 0 .. full
  BY <1>3, <1>4, MinLemma
<1>6. Refilled = [bucket EXCEPT !.units = Min2(full, bucket.units + brought), !.last = now]
  BY DEF Refilled, full, brought
<1>7. Buckets = [units : 0 .. full, last : Nat, takes : Int]
  BY DEF Buckets, full
<1> QED BY <1>1, <1>5, <1>6, <1>7

LEMMA TakeType ==
  ASSUME NEW b \in Buckets
  PROVE  Take(b) \in Buckets /\ Take(b).last = b.last /\ RetryAfter(b) \in Int
<1> DEFINE full == Capacity * Window
<1>1. Capacity \in Nat \ {0} /\ Window \in Nat \ {0}
  BY ToolGateAssumption
<1>2. full \in Nat
  BY <1>1, ProductLemma
<1>3. Buckets = [units : 0 .. full, last : Nat, takes : Int]
  BY DEF Buckets
<1> HIDE DEF full
<1>4. b.units \in 0 .. full /\ b.takes \in Int /\ b.last \in Nat
  BY <1>3
<1>5. b.units >= Window => b.units - Window \in 0 .. full
  BY <1>1, <1>2, <1>4
<1>6. Take(b) \in Buckets /\ Take(b).last = b.last
  <2>1. CASE b.units >= Window
    <3>1. Take(b) = [b EXCEPT !.units = b.units - Window, !.takes = b.takes + 1]
      BY <2>1 DEF Take
    <3> DEFINE rest == b.units - Window
    <3>2. rest \in 0 .. full /\ b.takes + 1 \in Int
      BY <1>4, <1>5, <2>1
    <3> HIDE DEF rest
    <3>3. Take(b) = [b EXCEPT !.units = rest, !.takes = b.takes + 1]
      BY <3>1 DEF rest
    <3> QED BY <1>3, <3>2, <3>3
  <2>2. CASE ~(b.units >= Window)
    <3>1. Take(b) = [b EXCEPT !.takes = b.takes + 1]
      BY <2>2 DEF Take
    <3> QED BY <1>3, <1>4, <3>1
  <2> QED BY <2>1, <2>2
<1>7. Window - b.units + Capacity - 1 \in Int
  BY <1>1, <1>2, <1>4
<1>8. RetryAfter(b) \in Int
  BY <1>1, <1>7 DEF RetryAfter
<1> QED BY <1>6, <1>8

LEMMA RatedType ==
  ASSUME Shape, NEW v \in Windows
  PROVE  Rated(v) \in WindowRecords /\ Rated(v).ts <= now
<1>1. win[v] \in WindowRecords /\ win[v].ts <= now /\ now \in Nat
  BY DEF Shape
<1>2. Burst \in Nat \ {0} /\ Refill \in Nat \ {0}
  BY ToolGateAssumption
<1> DEFINE n == (now - win[v].ts) \div Refill
<1>3. n \in Int
  BY <1>1, <1>2 DEF WindowRecords
<1> HIDE DEF n
<1>4. n > 0 => Min2(Burst, win[v].tokens + n) \in 0 .. Burst
  BY <1>1, <1>2, <1>3, MinLemma DEF WindowRecords
<1>5. Rated(v) = IF n > 0 THEN [win[v] EXCEPT !.tokens = Min2(Burst, win[v].tokens + n), !.ts = now]
                          ELSE win[v]
  BY DEF Rated, n
<1>6. CASE n > 0
  <2> DEFINE m == Min2(Burst, win[v].tokens + n)
  <2>1. m \in 0 .. Burst /\ Rated(v) = [win[v] EXCEPT !.tokens = m, !.ts = now]
    BY <1>4, <1>5, <1>6
  <2> HIDE DEF m
  <2>2. [win[v] EXCEPT !.tokens = m, !.ts = now] \in WindowRecords
    BY <1>1, <2>1 DEF WindowRecords
  <2>3. [win[v] EXCEPT !.tokens = m, !.ts = now].ts = now
    BY <1>1 DEF WindowRecords
  <2> QED BY <1>1, <2>1, <2>2, <2>3
<1>7. CASE ~(n > 0)
  BY <1>1, <1>5, <1>7
<1> QED BY <1>6, <1>7
-----------------------------------------------------------------------------
\* One call moves on and becomes r, and its window has at most it among its
\* new session approvals.
LEMMA OneCallMoves ==
  ASSUME IInv, NEW c \in Calls, NEW r \in CallRecords,
         call' = [call EXCEPT ![c] = r],
         PanelFollows(r), GoesOn(r) => Admitted(r), ApprovedOrFree(c, r),
         call[c].answer = "approve_session" =>
           r.answer = "approve_session" /\ r.to = call[c].to
             /\ r.tool = call[c].tool /\ r.key = call[c].key,
         \A v \in Windows, k \in ToolsOrNone \X KeysOrNone : k \in win'[v].session =>
           \/ k \in win[v].session
           \/ r.answer = "approve_session" /\ r.to = v /\ k = <<r.tool, r.key>>
  PROVE  /\ call' \in [Calls -> CallRecords]
         /\ PanelsFollowCalls' /\ OnlyAdmittedGoOn'
         /\ SessionsWereApproved' /\ ClearedWereApproved'
<1>1. call \in [Calls -> CallRecords]
  BY DEF IInv, Shape
<1>2. call'[c] = r /\ \A d \in Calls \ {c} : call'[d] = call[d]
  BY <1>1
<1>3. \A d \in Calls : \A v, t, k : AllowsSession(d, v, t, k) => AllowsSession(d, v, t, k)'
  BY <1>2 DEF AllowsSession
<1>4. call' \in [Calls -> CallRecords]
  BY <1>1
<1>5. PanelsFollowCalls'
  BY <1>2 DEF IInv, PanelsFollowCalls, PanelFollows
<1>6. OnlyAdmittedGoOn'
  BY <1>2 DEF IInv, OnlyAdmittedGoOn, GoesOn, Admitted
<1>7. SessionsWereApproved'
  <2> SUFFICES ASSUME NEW v \in Windows, NEW t \in ToolsOrNone, NEW k \in KeysOrNone,
                      <<t, k>> \in win'[v].session
               PROVE  \E d \in Calls : AllowsSession(d, v, t, k)'
    BY DEF SessionsWereApproved
  <2>1. CASE <<t, k>> \in win[v].session
    BY <1>3, <2>1 DEF IInv, SessionsWereApproved
  <2>2. CASE r.answer = "approve_session" /\ r.to = v /\ <<t, k>> = <<r.tool, r.key>>
    <3>1. t = r.tool /\ k = r.key
      BY <2>2
    <3>2. AllowsSession(c, v, t, k)'
      BY <1>2, <2>2, <3>1 DEF AllowsSession
    <3> QED BY <3>2
  <2> QED BY <2>1, <2>2
<1>8. ClearedWereApproved'
  <2> SUFFICES ASSUME NEW d \in Calls PROVE ApprovedOrFree(d, call[d])'
    BY DEF ClearedWereApproved
  <2>1. ApprovedOrFree(d, call'[d])
    BY <1>2 DEF IInv, ClearedWereApproved
  <2> QED BY <1>3, <2>1 DEF ApprovedOrFree, NeedsApproval
<1> QED BY <1>4, <1>5, <1>6, <1>7, <1>8
-----------------------------------------------------------------------------
LEMMA InitIInv == Init => IInv
<1> SUFFICES ASSUME Init PROVE IInv
  OBVIOUS
<1>1. Capacity \in Nat /\ Window \in Nat /\ Burst \in Nat /\ MaxTime \in Nat
  BY ToolGateAssumption
<1> DEFINE full == Capacity * Window
<1>2. full \in Nat
  BY <1>1, ProductLemma
<1>3. bucket = [units |-> full, last |-> 0, takes |-> 0]
  BY DEF Init
<1>4. Buckets = [units : 0 .. full, last : Nat, takes : Int]
  BY DEF Buckets
<1> HIDE DEF full
<1>5. bucket \in Buckets /\ bucket.last = 0
  BY <1>2, <1>3, <1>4
<1>6. call \in [Calls -> CallRecords]
  BY DEF Init, CallRecords, ToolsOrNone, KeysOrNone, WindowOrNone, Answer
<1>7. win \in [Windows -> WindowRecords]
  BY <1>1 DEF Init, WindowRecords
<1>8. now = 0 /\ file = NoEndpoint /\ env = NoEndpoint /\ \A v \in Windows : win[v].ts = 0
  BY DEF Init
<1>11. Shape
  BY <1>1, <1>5, <1>6, <1>7, <1>8 DEF Shape, WindowOrNone
<1>9. PanelsFollowCalls /\ OnlyAdmittedGoOn /\ ClearedWereApproved
  BY DEF Init, PanelsFollowCalls, PanelFollows, OnlyAdmittedGoOn, GoesOn, Waiting,
         ClearedWereApproved, ApprovedOrFree
<1>10. SessionsWereApproved
  BY DEF Init, SessionsWereApproved
<1> QED BY <1>9, <1>10, <1>11 DEF IInv

LEMMA BeginStep ==
  ASSUME IInv, NEW c \in Calls, NEW t \in Tools, NEW k \in Keys,
         NEW dry \in BOOLEAN, NEW valid \in BOOLEAN, Begin(c, t, k, dry, valid)
  PROVE  IInv'
<1> DEFINE r == [call[c] EXCEPT !.tool = t, !.key = k, !.dry = dry]
           next == IF ~valid THEN "refused"
                   ELSE IF NeedsApproval(t, dry) THEN "asks" ELSE "cleared"
<1>1. call[c] \in CallRecords /\ call[c].pc = "idle"
      /\ call[c].panel = "none" /\ call[c].answer = "none"
  BY DEF IInv, Shape, PanelsFollowCalls, PanelFollows, Begin
<1>2. UNCHANGED <<now, win, file, env>>
  BY DEF Begin, Enters
<1>3. Refilled \in Buckets /\ Refilled.last = now /\ now \in 0 .. MaxTime
  BY RefilledType DEF IInv, Shape
<1>4. Take(Refilled) \in Buckets /\ Take(Refilled).last = now /\ RetryAfter(Refilled) \in Int
  BY <1>3, TakeType
<1>5. bucket' \in Buckets /\ bucket'.last <= now
  BY <1>3, <1>4 DEF Begin, IInv, Shape
<1>6. r \in CallRecords /\ r.panel = "none" /\ r.answer = "none" /\ r.tool = t /\ r.dry = dry
  BY <1>1 DEF CallRecords, ToolsOrNone, KeysOrNone
<1>7. PICK q \in CallRecords :
        /\ call' = [call EXCEPT ![c] = q]
        /\ q.panel = "none" /\ q.answer = "none" /\ q.tool = t /\ q.dry = dry
        /\ \/ q.pc = "refused"
           \/ q.pc = next /\ Admitted(q)
  <2>1. CASE t \in DeniedTools \/ t \notin AllowedTools
    <3>1. [r EXCEPT !.pc = "refused"] \in CallRecords
      BY <1>6 DEF CallRecords, Returned
    <3>2. call' = [call EXCEPT ![c] = [r EXCEPT !.pc = "refused"]]
      BY <2>1 DEF Begin, Enters
    <3> QED BY <1>6, <3>1, <3>2 DEF CallRecords
  <2>2. CASE t \in AllowedTools \ DeniedTools /\ t \in ReadOnlyTools
    <3>1. [r EXCEPT !.pc = next] \in CallRecords
      BY <1>6 DEF CallRecords, Returned, Waiting
    <3>2. call' = [call EXCEPT ![c] = [r EXCEPT !.pc = next]]
      BY <2>2 DEF Begin, Enters
    <3>3. Admitted([r EXCEPT !.pc = next])
      BY <1>6, <2>2 DEF Admitted, CallRecords
    <3> QED BY <1>6, <3>1, <3>2, <3>3 DEF CallRecords
  <2>3. CASE t \in AllowedTools \ (DeniedTools \union ReadOnlyTools)
    <3>1. CASE Refilled.units >= Window
      <4>0. now \in Int /\ next \in {"idle", "cleared"} \union Waiting \union Returned
        BY <1>3, ToolGateAssumption DEF Returned, Waiting
      <4>1. [r EXCEPT !.pc = next, !.granted = now] \in CallRecords
        BY <1>6, <4>0 DEF CallRecords
      <4>2. call' = [call EXCEPT ![c] = [r EXCEPT !.pc = next, !.granted = now]]
        BY <2>3, <3>1 DEF Begin, Enters
      <4>3. Admitted([r EXCEPT !.pc = next, !.granted = now])
        BY <1>3, <1>6, <2>3 DEF Admitted, CallRecords
      <4> QED BY <1>6, <4>1, <4>2, <4>3 DEF CallRecords
    <3>2. CASE ~(Refilled.units >= Window)
      <4> DEFINE q == [r EXCEPT !.pc = "refused", !.seen = bucket'.takes,
                                !.retry = now + RetryAfter(Refilled)]
      <4>1. now + RetryAfter(Refilled) \in Int /\ bucket'.takes \in Int
        BY <1>3, <1>4, <1>5 DEF Buckets
      <4>2. q \in CallRecords
        BY <1>6, <4>1 DEF CallRecords, Returned
      <4>3. call' = [call EXCEPT ![c] = q]
        BY <2>3, <3>2 DEF Begin, Enters
      <4> QED BY <1>6, <4>2, <4>3 DEF CallRecords
    <3> QED BY <3>1, <3>2
  <2> QED BY <2>1, <2>2, <2>3
<1>8. PanelFollows(q) /\ (GoesOn(q) => Admitted(q)) /\ ApprovedOrFree(c, q)
  BY <1>7 DEF PanelFollows, GoesOn, Waiting, ApprovedOrFree
<1>9. call' \in [Calls -> CallRecords] /\ PanelsFollowCalls' /\ OnlyAdmittedGoOn'
      /\ SessionsWereApproved' /\ ClearedWereApproved'
  BY <1>1, <1>2, <1>7, <1>8, OneCallMoves
<1>10. Shape'
  BY <1>2, <1>5, <1>9 DEF IInv, Shape
<1> QED BY <1>9, <1>10 DEF IInv

\* The request and its answer.
LEMMA RequestStep ==
  ASSUME IInv, NEW c \in Calls, Discover(c) \/ ReadTimeout(c) \/ Sends(c)
  PROVE  IInv'
<1>1. call[c] \in CallRecords /\ PanelFollows(call[c])
      /\ (GoesOn(call[c]) => Admitted(call[c])) /\ ApprovedOrFree(c, call[c])
  BY DEF IInv, Shape, PanelsFollowCalls, OnlyAdmittedGoOn, ClearedWereApproved
<1>2. UNCHANGED <<now, bucket, file, env, win>>
  BY DEF Discover, ReadTimeout, Sends, Moves
<1>3. PICK r \in CallRecords :
        /\ call' = [call EXCEPT ![c] = r]
        /\ PanelFollows(r) /\ (GoesOn(r) => Admitted(r)) /\ ApprovedOrFree(c, r)
        /\ call[c].answer = "approve_session" =>
             r.answer = "approve_session" /\ r.to = call[c].to
               /\ r.tool = call[c].tool /\ r.key = call[c].key
  <2>1. CASE Discover(c)
    <3>0. call[c].pc = "asks" /\ call[c].panel = "none" /\ call[c].answer = "none"
      BY <1>1, <2>1 DEF Discover, PanelFollows
    <3>1. CASE Endpoint = NoEndpoint
      <4> DEFINE r == [call[c] EXCEPT !.pc = "unavailable"]
      <4>1. r \in CallRecords
        BY <1>1 DEF CallRecords, Returned
      <4>2. call' = [call EXCEPT ![c] = r]
        BY <2>1, <3>1 DEF Discover, Moves
      <4>3. r.pc = "unavailable" /\ r.panel = "none" /\ r.answer = "none"
        BY <1>1, <3>0 DEF CallRecords
      <4> HIDE DEF r
      <4> QED BY <3>0, <4>1, <4>2, <4>3 DEF PanelFollows, GoesOn, Waiting, ApprovedOrFree
    <3>2. CASE Endpoint # NoEndpoint
      <4> DEFINE r == [call[c] EXCEPT !.pc = "posted", !.to = Endpoint, !.port = win[Endpoint].port]
      <4>1. Endpoint \in Windows
        BY <3>2 DEF Endpoint, IInv, Shape, WindowOrNone
      <4>2. win[Endpoint].port \in Ports \union {0}
        BY <4>1 DEF IInv, Shape, WindowRecords
      <4>3. r \in CallRecords
        BY <1>1, <4>1, <4>2 DEF CallRecords, Waiting, WindowOrNone
      <4>4. call' = [call EXCEPT ![c] = r]
        BY <2>1, <3>2 DEF Discover, Moves
      <4>5. r.pc = "posted" /\ r.panel = "none" /\ r.answer = "none"
            /\ r.tool = call[c].tool /\ r.granted = call[c].granted
        BY <1>1, <3>0 DEF CallRecords
      <4> HIDE DEF r
      <4>6. Admitted(r)
        BY <1>1, <3>0, <4>5 DEF Admitted, GoesOn, Waiting
      <4> QED BY <3>0, <4>3, <4>4, <4>5, <4>6 DEF PanelFollows, ApprovedOrFree
    <3> QED BY <3>1, <3>2
  <2>2. CASE ReadTimeout(c)
    <3> DEFINE r == [call[c] EXCEPT !.pc = "unavailable"]
    <3>1. r \in CallRecords
      BY <1>1 DEF CallRecords, Returned
    <3>2. call' = [call EXCEPT ![c] = r]
      BY <2>2 DEF ReadTimeout, Moves
    <3>3. r.pc = "unavailable" /\ r.panel = call[c].panel /\ r.answer = call[c].answer
          /\ r.to = call[c].to /\ r.tool = call[c].tool /\ r.key = call[c].key
      BY <1>1 DEF CallRecords
    <3> HIDE DEF r
    <3> QED BY <1>1, <3>1, <3>2, <3>3 DEF PanelFollows, GoesOn, Waiting, ApprovedOrFree
  <2>3. CASE Sends(c)
    <3> DEFINE r == [call[c] EXCEPT !.pc = "sent"]
    <3>1. r \in CallRecords
      BY <1>1 DEF CallRecords, Returned
    <3>2. call' = [call EXCEPT ![c] = r] /\ call[c].pc = "cleared"
      BY <2>3 DEF Sends, Moves
    <3>3. r.pc = "sent" /\ r.panel = call[c].panel /\ r.answer = call[c].answer
          /\ r.to = call[c].to /\ r.tool = call[c].tool /\ r.key = call[c].key
          /\ r.dry = call[c].dry /\ r.granted = call[c].granted
      BY <1>1 DEF CallRecords
    <3> HIDE DEF r
    <3>4. GoesOn(r) => Admitted(r)
      BY <1>1, <3>2, <3>3 DEF Admitted, GoesOn
    <3>5. ApprovedOrFree(c, r)
      BY <1>1, <3>2, <3>3 DEF ApprovedOrFree
    <3> QED BY <1>1, <3>1, <3>2, <3>3, <3>4, <3>5 DEF PanelFollows
  <2> QED BY <2>1, <2>2, <2>3
<1>4. call' \in [Calls -> CallRecords] /\ PanelsFollowCalls' /\ OnlyAdmittedGoOn'
      /\ SessionsWereApproved' /\ ClearedWereApproved'
  BY <1>2, <1>3, OneCallMoves
<1>5. Shape'
  BY <1>2, <1>4 DEF IInv, Shape
<1> QED BY <1>4, <1>5 DEF IInv

\* A window takes the request: it may be one the user has allowed.
LEMMA ArrivesStep ==
  ASSUME IInv, NEW c \in Calls, Arrives(c)
  PROVE  IInv'
<1>1. call[c] \in CallRecords /\ call[c].pc = "posted"
      /\ call[c].panel = "none" /\ call[c].answer = "none" /\ Admitted(call[c])
  BY DEF Arrives, IInv, Shape, PanelsFollowCalls, PanelFollows, OnlyAdmittedGoOn, GoesOn, Waiting
<1>2. UNCHANGED <<now, bucket, file, env>>
  BY DEF Arrives, Moves
<1> DEFINE Kept == /\ win' \in [Windows -> WindowRecords]
                   /\ \A v \in Windows : win'[v].ts <= now /\ win'[v].session = win[v].session
<1>3. Kept
  <2>1. CASE win' = win
    BY <2>1 DEF IInv, Shape
  <2>2. ASSUME NEW v \in Windows, win' = [win EXCEPT ![v] = Rated(v)]
        PROVE  Kept
    <3>1. Rated(v) \in WindowRecords /\ Rated(v).ts <= now
      BY RatedType DEF IInv
    <3>2. Rated(v).session = win[v].session
      BY DEF Rated, IInv, Shape, WindowRecords
    <3> QED BY <2>2, <3>1, <3>2 DEF IInv, Shape
  <2>3. ASSUME NEW v \in Windows, Rated(v).tokens # 0,
               win' = [win EXCEPT ![v] = [Rated(v) EXCEPT !.tokens = @ - 1]]
        PROVE  Kept
    <3>1. Rated(v) \in WindowRecords /\ Rated(v).ts <= now
      BY RatedType DEF IInv
    <3>2. Rated(v).session = win[v].session
      BY DEF Rated, IInv, Shape, WindowRecords
    <3>3. Burst \in Nat /\ Rated(v).tokens \in 0 .. Burst
      BY <3>1, ToolGateAssumption DEF WindowRecords
    <3> DEFINE u == [Rated(v) EXCEPT !.tokens = @ - 1]
    <3>4. u \in WindowRecords /\ u.ts <= now /\ u.session = win[v].session
      BY <2>3, <3>1, <3>2, <3>3 DEF WindowRecords
    <3> HIDE DEF u
    <3>5. win' = [win EXCEPT ![v] = u]
      BY <2>3 DEF u
    <3> QED BY <3>4, <3>5 DEF IInv, Shape
  <2> QED BY <2>1, <2>2, <2>3 DEF Arrives
<1>4. PICK r \in CallRecords :
        /\ call' = [call EXCEPT ![c] = r]
        /\ PanelFollows(r) /\ (GoesOn(r) => Admitted(r)) /\ ApprovedOrFree(c, r)
  <2> DEFINE gone == [call[c] EXCEPT !.pc = "unavailable"]
             free == [call[c] EXCEPT !.pc = "cleared"]
             asked == [call[c] EXCEPT !.pc = "prompted", !.panel = "open"]
  <2>1. gone \in CallRecords /\ PanelFollows(gone) /\ ~GoesOn(gone) /\ ApprovedOrFree(c, gone)
    BY <1>1 DEF CallRecords, PanelFollows, GoesOn, Waiting, Returned, ApprovedOrFree
  <2>2. ASSUME NEW v \in Windows, v = call[c].to, SessionKey(c) \in win[v].session
        PROVE  free \in CallRecords /\ PanelFollows(free) /\ Admitted(free) /\ ApprovedOrFree(c, free)
    <3>1. free \in CallRecords /\ PanelFollows(free) /\ Admitted(free)
      BY <1>1 DEF CallRecords, PanelFollows, Admitted
    <3>2. PICK d \in Calls : AllowsSession(d, v, call[c].tool, call[c].key)
      BY <1>1, <2>2 DEF CallRecords, SessionKey, IInv, SessionsWereApproved
    <3>3. d # c
      BY <1>1, <3>2 DEF AllowsSession
    <3>4. free.to = v /\ free.tool = call[c].tool /\ free.key = call[c].key
      BY <1>1, <2>2 DEF CallRecords
    <3> QED BY <3>1, <3>2, <3>3, <3>4 DEF ApprovedOrFree
  <2>3. ASSUME NEW v \in Windows, v = call[c].to
        PROVE  asked \in CallRecords /\ PanelFollows(asked) /\ Admitted(asked)
               /\ ApprovedOrFree(c, asked)
    BY <1>1, <2>3 DEF CallRecords, Waiting, PanelFollows, Admitted, ApprovedOrFree
  <2>4. \/ call' = [call EXCEPT ![c] = gone]
        \/ \E v \in Windows :
             /\ v = call[c].to
             /\ \/ SessionKey(c) \in win[v].session /\ call' = [call EXCEPT ![c] = free]
                \/ call' = [call EXCEPT ![c] = asked]
    BY DEF Arrives, Moves
  <2> HIDE DEF gone, free, asked
  <2> QED BY <2>1, <2>2, <2>3, <2>4
<1>5. call' \in [Calls -> CallRecords] /\ PanelsFollowCalls' /\ OnlyAdmittedGoOn'
      /\ SessionsWereApproved' /\ ClearedWereApproved'
  BY <1>1, <1>3, <1>4, OneCallMoves
<1>6. Shape'
  BY <1>2, <1>3, <1>5 DEF IInv, Shape
<1> QED BY <1>5, <1>6 DEF IInv

\* The user answers, for this call or for the session.
LEMMA AnswersStep ==
  ASSUME IInv, NEW c \in Calls,
         NEW a \in {"approve", "approve_session", "reject", "close"}, Answers(c, a)
  PROVE  IInv'
<1> DEFINE said == IF a = "close" THEN "reject" ELSE a
           pc == IF call[c].pc # "prompted" THEN call[c].pc
                 ELSE IF Approved(a) THEN "cleared" ELSE "rejected"
           r == [call[c] EXCEPT !.panel = "closed", !.answer = said, !.pc = pc]
<1>1. call[c] \in CallRecords /\ call[c].panel = "open" /\ call[c].answer = "none"
      /\ call[c].to \in Windows /\ PanelFollows(call[c])
      /\ (GoesOn(call[c]) => Admitted(call[c])) /\ ApprovedOrFree(c, call[c])
  BY DEF Answers, IInv, Shape, PanelsFollowCalls, PanelFollows, OnlyAdmittedGoOn,
         ClearedWereApproved
<1>2. call' = [call EXCEPT ![c] = r] /\ UNCHANGED <<now, bucket, file, env>>
  BY DEF Answers, Moves
<1>3. IF call[c].pc = "prompted" THEN pc \in {"cleared", "rejected"} ELSE pc = call[c].pc
  OBVIOUS
<1>4. pc = "cleared" /\ call[c].pc = "prompted" => said \in {"approve", "approve_session"}
  BY DEF Approved
<1>5. r \in CallRecords
  BY <1>1 DEF CallRecords, Answer, Returned
<1>6. r.pc = pc /\ r.panel = "closed" /\ r.answer = said /\ r.to = call[c].to
      /\ r.tool = call[c].tool /\ r.key = call[c].key /\ r.dry = call[c].dry
      /\ r.granted = call[c].granted
  BY <1>1 DEF CallRecords
<1>7. a = "approve_session" => said = "approve_session"
  OBVIOUS
<1>8. pc = "cleared" \/ pc \in Waiting \union {"sent"} => GoesOn(call[c])
  BY DEF GoesOn, Waiting
<1>9. call[c].pc \notin {"idle", "asks", "posted"}
  BY <1>1 DEF PanelFollows
<1> HIDE DEF said, pc, r
<1>10. PanelFollows(r)
  BY <1>3, <1>6, <1>9 DEF PanelFollows
<1>11. GoesOn(r) => Admitted(r)
  BY <1>1, <1>6, <1>8 DEF GoesOn, Admitted
<1>12. ApprovedOrFree(c, r)
  <2>1. CASE call[c].pc = "prompted"
    BY <1>3, <1>4, <1>6, <2>1 DEF ApprovedOrFree
  <2>2. CASE call[c].pc # "prompted"
    <3>1. r.pc = call[c].pc
      BY <1>3, <1>6, <2>2
    <3> QED BY <1>1, <1>6, <3>1 DEF ApprovedOrFree
  <2> QED BY <2>1, <2>2
<1>13. /\ win' \in [Windows -> WindowRecords]
       /\ \A v \in Windows : win'[v].ts <= now
       /\ \A v \in Windows, k \in ToolsOrNone \X KeysOrNone : k \in win'[v].session =>
            \/ k \in win[v].session
            \/ r.answer = "approve_session" /\ r.to = v /\ k = <<r.tool, r.key>>
  <2>1. CASE a # "approve_session"
    BY <2>1 DEF Answers, IInv, Shape
  <2>2. CASE a = "approve_session"
    <3> DEFINE v == call[c].to
               u == [win[v] EXCEPT !.session = @ \union {SessionKey(c)}]
    <3>1. SessionKey(c) \in ToolsOrNone \X KeysOrNone /\ SessionKey(c) = <<r.tool, r.key>>
      BY <1>1, <1>6 DEF SessionKey, CallRecords
    <3>2. win' = [win EXCEPT ![v] = u]
      BY <2>2 DEF Answers
    <3>3. win[v] \in WindowRecords /\ win[v].ts <= now
      BY <1>1 DEF IInv, Shape
    <3>4. u \in WindowRecords /\ u.ts <= now /\ u.session = win[v].session \union {SessionKey(c)}
      BY <3>1, <3>3 DEF WindowRecords
    <3> HIDE DEF u
    <3> QED BY <1>1, <1>6, <1>7, <2>2, <3>1, <3>2, <3>4 DEF IInv, Shape
  <2> QED BY <2>1, <2>2
<1>14. call' \in [Calls -> CallRecords] /\ PanelsFollowCalls' /\ OnlyAdmittedGoOn'
      /\ SessionsWereApproved' /\ ClearedWereApproved'
  BY <1>1, <1>2, <1>5, <1>10, <1>11, <1>12, <1>13, OneCallMoves
<1>15. Shape'
  BY <1>2, <1>13, <1>14 DEF IInv, Shape
<1> QED BY <1>14, <1>15 DEF IInv

\* Windows come and go.
LEMMA WindowStep ==
  ASSUME IInv, NEW v \in Windows,
         (\E p \in Ports : WindowStarts(v, p)) \/ WindowStops(v) \/ Inherits(v)
  PROVE  IInv'
<1>1. UNCHANGED <<now, bucket, call>>
  BY DEF WindowStarts, WindowStops, Inherits
<1>2. win[v] \in WindowRecords /\ win[v].ts <= now
  BY DEF IInv, Shape
<1> DEFINE Kept ==
      \/ win' = win
      \/ \E u \in WindowRecords :
           win' = [win EXCEPT ![v] = u] /\ u.ts <= now /\ u.session = win[v].session
<1>3. Kept
  <2>1. ASSUME NEW p \in Ports, WindowStarts(v, p) PROVE Kept
    <3> DEFINE u == [win[v] EXCEPT !.st = "on", !.port = p]
               w == [u EXCEPT !.wrote = TRUE]
    <3>1. u \in WindowRecords /\ u.ts <= now /\ u.session = win[v].session
      BY <1>2 DEF WindowRecords
    <3>2. w \in WindowRecords /\ w.ts <= now /\ w.session = win[v].session
      BY <1>2 DEF WindowRecords
    <3>3. win' = [win EXCEPT ![v] = u] \/ win' = [win EXCEPT ![v] = w]
      BY <2>1 DEF WindowStarts
    <3> HIDE DEF u, w
    <3> QED BY <3>1, <3>2, <3>3
  <2>2. CASE WindowStops(v)
    <3> DEFINE u == [win[v] EXCEPT !.st = "closing", !.wrote = FALSE]
    <3>1. u \in WindowRecords /\ u.ts <= now /\ u.session = win[v].session
      BY <1>2 DEF WindowRecords
    <3>2. win' = [win EXCEPT ![v] = u]
      BY <2>2 DEF WindowStops
    <3> HIDE DEF u
    <3> QED BY <3>1, <3>2
  <2>3. CASE Inherits(v)
    BY <2>3 DEF Inherits
  <2> QED BY <2>1, <2>2, <2>3
<1>4. file' \in WindowOrNone /\ env' \in WindowOrNone
  BY DEF WindowStarts, WindowStops, WithoutFile, Inherits, IInv, Shape, WindowOrNone
<1>5. win' \in [Windows -> WindowRecords]
      /\ \A u \in Windows : win'[u].ts <= now /\ win'[u].session = win[u].session
  BY <1>3 DEF IInv, Shape
<1>6. Shape'
  BY <1>1, <1>4, <1>5 DEF IInv, Shape
<1>7. PanelsFollowCalls' /\ OnlyAdmittedGoOn' /\ ClearedWereApproved'
  BY <1>1 DEF IInv, PanelsFollowCalls, OnlyAdmittedGoOn, ClearedWereApproved, ApprovedOrFree,
              AllowsSession
<1>8. SessionsWereApproved'
  BY <1>1, <1>5 DEF IInv, SessionsWereApproved, AllowsSession
<1> QED BY <1>6, <1>7, <1>8 DEF IInv

\* The end of an extension host closes its panels and fails their requests.
LEMMA WindowDiesStep ==
  ASSUME IInv, NEW v \in Windows, WindowDies(v)
  PROVE  IInv'
<1>1. UNCHANGED <<now, bucket, file, env>>
  BY DEF WindowDies
<1>2. win' \in [Windows -> WindowRecords]
      /\ \A u \in Windows : win'[u].ts <= now /\ win'[u].session \subseteq win[u].session
  BY DEF WindowDies, IInv, Shape, WindowRecords
<1>3. ASSUME NEW c \in Calls
      PROVE  /\ call'[c] \in CallRecords
             /\ call'[c].tool = call[c].tool /\ call'[c].key = call[c].key
             /\ call'[c].to = call[c].to /\ call'[c].dry = call[c].dry
             /\ call'[c].answer = call[c].answer /\ call'[c].granted = call[c].granted
             /\ \/ call'[c].pc = call[c].pc /\ call'[c].panel = call[c].panel
                \/ /\ call[c].panel = "open" /\ call'[c].panel = "closed"
                   /\ \/ call'[c].pc = "unavailable"
                      \/ call'[c].pc = call[c].pc /\ call[c].pc # "prompted"
  <2>1. call[c] \in CallRecords
    BY DEF IInv, Shape
  <2> DEFINE pc == IF call[c].pc = "prompted" THEN "unavailable" ELSE call[c].pc
             lost == [call[c] EXCEPT !.panel = "closed", !.pc = pc]
  <2>2. call'[c] = IF call[c].to = v /\ call[c].panel = "open" THEN lost ELSE call[c]
    BY DEF WindowDies
  <2>3. pc \in {"idle", "cleared"} \union Waiting \union Returned
    BY <2>1 DEF CallRecords, Returned
  <2>4. pc = "unavailable" \/ (pc = call[c].pc /\ call[c].pc # "prompted")
    BY <2>1 DEF CallRecords
  <2> HIDE DEF pc
  <2>5. /\ lost \in CallRecords /\ lost.panel = "closed" /\ lost.pc = pc
        /\ lost.tool = call[c].tool /\ lost.key = call[c].key /\ lost.to = call[c].to
        /\ lost.dry = call[c].dry /\ lost.answer = call[c].answer
        /\ lost.granted = call[c].granted
    BY <2>1, <2>3 DEF CallRecords
  <2> HIDE DEF lost
  <2> QED BY <2>1, <2>2, <2>4, <2>5
<1>4. call' \in [Calls -> CallRecords]
  <2>1. call' = [c \in Calls |-> call'[c]]
    BY DEF WindowDies
  <2> QED BY <1>3, <2>1
<1>5. PanelsFollowCalls'
  BY <1>3 DEF IInv, PanelsFollowCalls, PanelFollows
<1>6. OnlyAdmittedGoOn'
  BY <1>3 DEF IInv, OnlyAdmittedGoOn, GoesOn, Admitted, Waiting
<1>7. \A d \in Calls : \A u, t, k : AllowsSession(d, u, t, k) => AllowsSession(d, u, t, k)'
  BY <1>3 DEF AllowsSession
<1>8. SessionsWereApproved'
  BY <1>2, <1>7 DEF IInv, SessionsWereApproved
<1>9. ClearedWereApproved'
  BY <1>3, <1>7 DEF IInv, ClearedWereApproved, ApprovedOrFree, NeedsApproval
<1>10. Shape'
  BY <1>1, <1>2, <1>4 DEF IInv, Shape
<1> QED BY <1>5, <1>6, <1>8, <1>9, <1>10 DEF IInv

LEMMA Step == IInv /\ [Next]_vars => IInv'
<1> SUFFICES ASSUME IInv, [Next]_vars PROVE IInv'
  OBVIOUS
<1>1. CASE Tick
  <2>1. now' \in 0 .. MaxTime /\ now' >= now /\ UNCHANGED <<bucket, call, win, file, env>>
    BY <1>1, ToolGateAssumption DEF Tick, IInv, Shape
  <2>2. Shape'
    BY <2>1 DEF IInv, Shape, Buckets, WindowRecords
  <2>3. PanelsFollowCalls' /\ OnlyAdmittedGoOn' /\ ClearedWereApproved' /\ SessionsWereApproved'
    BY <2>1 DEF IInv, PanelsFollowCalls, OnlyAdmittedGoOn, ClearedWereApproved, ApprovedOrFree,
                AllowsSession, SessionsWereApproved
  <2> QED BY <2>2, <2>3 DEF IInv
<1>2. ASSUME NEW c \in Calls, NEW t \in Tools, NEW k \in Keys, NEW dry \in BOOLEAN,
             NEW valid \in BOOLEAN, Begin(c, t, k, dry, valid)
      PROVE  IInv'
  BY <1>2, BeginStep
<1>3. ASSUME NEW c \in Calls, Discover(c) \/ ReadTimeout(c) \/ Sends(c) PROVE IInv'
  BY <1>3, RequestStep
<1>4. ASSUME NEW c \in Calls, Arrives(c) PROVE IInv'
  BY <1>4, ArrivesStep
<1>5. ASSUME NEW c \in Calls, NEW a \in {"approve", "approve_session", "reject", "close"},
             Answers(c, a)
      PROVE  IInv'
  BY <1>5, AnswersStep
<1>6. ASSUME NEW v \in Windows,
             (\E p \in Ports : WindowStarts(v, p)) \/ WindowStops(v) \/ Inherits(v)
      PROVE  IInv'
  BY <1>6, WindowStep
<1>7. ASSUME NEW v \in Windows, WindowDies(v) PROVE IInv'
  BY <1>7, WindowDiesStep
<1>8. CASE UNCHANGED vars
  BY <1>8 DEF vars, IInv, Shape, PanelsFollowCalls, OnlyAdmittedGoOn, ClearedWereApproved,
              ApprovedOrFree, AllowsSession, SessionsWereApproved
<1> QED BY <1>1, <1>2, <1>3, <1>4, <1>5, <1>6, <1>7, <1>8 DEF Next

LEMMA Invariance == Spec => []IInv
  BY InitIInv, Step, PTL DEF Spec

-----------------------------------------------------------------------------
\* Every reachable state of the gate has its types (ToolGate!TypeOK): the
\* bucket of rate_limit.py is never overdrawn or overfull.
THEOREM TypeCorrect == Spec => []TypeOK
<1>1. IInv => TypeOK
  <2> SUFFICES ASSUME Shape PROVE TypeOK
    BY DEF IInv
  <2>1. bucket.units \in 0 .. Capacity * Window /\ bucket.last \in 0 .. now
    BY DEF Shape, Buckets
  <2>2. ASSUME NEW c \in Calls
        PROVE  /\ call[c].pc \in {"idle", "cleared"} \union Waiting \union Returned
               /\ call[c].tool \in Tools \union {"none"}
               /\ call[c].to \in Windows \union {NoEndpoint}
               /\ call[c].panel \in {"none", "open", "closed"}
               /\ call[c].answer \in {"none", "approve", "approve_session", "reject"}
    BY DEF Shape, CallRecords, ToolsOrNone, WindowOrNone, Answer
  <2>3. ASSUME NEW v \in Windows
        PROVE  /\ win[v].st \in {"off", "on", "closing", "dead"}
               /\ win[v].tokens \in 0 .. Burst /\ win[v].ts \in 0 .. now
    BY DEF Shape, WindowRecords
  <2> QED BY <2>1, <2>2, <2>3 DEF Shape, TypeOK, WindowOrNone
<1> QED BY <1>1, Invariance, PTL

\* Nothing is sent to Blender that the policy, the rate limit and, where it is
\* asked, the user has not cleared (ToolGate!OnlyClearedIsSent).
THEOREM SentWasCleared == Spec => []OnlyClearedIsSent
<1>1. IInv => OnlyClearedIsSent
  BY DEF IInv, OnlyAdmittedGoOn, GoesOn, Admitted, ClearedWereApproved, ApprovedOrFree,
         AllowsSession, OnlyClearedIsSent
<1> QED BY <1>1, Invariance, PTL

-----------------------------------------------------------------------------
(* The rate limit.                                                          *)

\* The calls that the rate limit let through, all of them, those not before s,
\* and those from s to t.
Passed(f)        == {e \in Calls : f[e].granted >= 0}
Since(f, s)      == {e \in Passed(f) : f[e].granted >= s}
Between(f, s, t) == {e \in Since(f, s) : f[e].granted <= t}

\* From a call on, the calls let through and the tokens that are left are
\* what was in the full bucket then and has been brought until now.
TokensAccounted ==
  \A c \in Passed(call) :
    Cardinality(Since(call, call[c].granted)) * Window + bucket.units
      <= Capacity * (Window + bucket.last - call[c].granted)

SpansHold ==
  \A c, d \in Passed(call) :
    call[d].granted >= call[c].granted =>
      Cardinality(Between(call, call[c].granted, call[d].granted)) * Window
        <= Capacity * (Window + call[d].granted - call[c].granted)

\* A caller that was sent away, if nobody has come since, was told what the
\* bucket says.
RetriesAreTrue ==
  \A c \in Calls :
    /\ call[c].seen <= bucket.takes
    /\ call[c].retry >= 0 /\ call[c].seen = bucket.takes =>
         /\ bucket.units < Window
         /\ call[c].retry = bucket.last + RetryAfter(bucket)

RateInv ==
  /\ IsFiniteSet(Passed(call)) /\ \A c \in Calls : call[c].granted <= bucket.last
  /\ TokensAccounted /\ SpansHold /\ RetriesAreTrue

LEMMA TimesMonotone ==
  ASSUME NEW a \in Int, NEW b \in Int, a <= b, NEW n \in Nat
  PROVE  a * n <= b * n /\ (a \in Nat => a * n \in Nat) /\ (b \in Nat => b * n \in Nat)
<1>1. b - a \in Nat
  OBVIOUS
<1>2. (b - a) * n \in Nat /\ (a \in Nat => a * n \in Nat) /\ (b \in Nat => b * n \in Nat)
  BY <1>1, ProductLemma
<1>3. (b - a) * n = b * n - a * n /\ a * n \in Int /\ b * n \in Int
  OBVIOUS
<1> QED
  BY <1>2, <1>3

\* Rounding up.
LEMMA CeilingLemma ==
  ASSUME NEW a \in Int, NEW n \in Nat \ {0}
  PROVE  ((a + n - 1) \div n) * n >= a
<1> DEFINE q == (a + n - 1) \div n
<1>1. q \in Int /\ a + n - 1 = (n * q) + ((a + n - 1) % n) /\ (a + n - 1) % n \in 0 .. n - 1
  OBVIOUS
<1> HIDE DEF q
<1>2. n * q >= a
  BY <1>1
<1>3. n * q = q * n
  BY <1>1
<1> QED
  BY <1>1, <1>2, <1>3 DEF q

\* What may have been let through from s to t.
Due(s, t) == Capacity * (Window + t - s)

LEMMA DueLemma ==
  ASSUME NEW s \in Int, NEW t \in Int, NEW u \in Int
  PROVE  /\ Due(s, t) \in Int /\ Due(s, s) = Capacity * Window
         /\ Due(s, u) = Due(s, t) + (u - t) * Capacity
         /\ \A n \in Nat : n * Window \in Nat /\ (n + 1) * Window = n * Window + Window
BY ToolGateAssumption DEF Due

\* What take() finds in the bucket.
LEMMA RefilledHas ==
  ASSUME Shape
  PROVE  /\ (now - bucket.last) * Capacity \in Nat /\ bucket.units \in Nat
         /\ Refilled.units \in Nat /\ Refilled.units <= Capacity * Window
         /\ Refilled.units <= bucket.units + (now - bucket.last) * Capacity
         /\ \/ Refilled.units = Capacity * Window
            \/ Refilled.units = bucket.units + (now - bucket.last) * Capacity
         /\ Refilled.last = now /\ Refilled.takes = bucket.takes
         /\ Capacity * Window \in Nat /\ Window \in Nat /\ Window >= 1 /\ now \in Nat
         /\ Capacity * Window >= Window
<1>1. Capacity \in Nat \ {0} /\ Window \in Nat \ {0} /\ now \in Nat /\ bucket \in Buckets
      /\ bucket.last <= now
  BY ToolGateAssumption DEF Shape
<1>2. now - bucket.last \in Nat
  BY <1>1 DEF Buckets
<1> DEFINE brought == (now - bucket.last) * Capacity
           full == Capacity * Window
<1>3. brought \in Nat /\ full \in Nat /\ full >= Window
  <2>1. brought \in Nat /\ full \in Nat
    BY <1>1, <1>2, ProductLemma
  <2>2. full = (Capacity - 1) * Window + Window /\ (Capacity - 1) * Window \in Nat
    <3>1. Capacity - 1 \in Nat
      BY <1>1
    <3> QED
      BY <1>1, <3>1, ProductLemma
  <2> QED
    BY <1>1, <2>1, <2>2
<1>4. bucket.units \in 0 .. full
  BY <1>1 DEF Buckets
<1> HIDE DEF brought, full
<1> DEFINE u == Min2(full, bucket.units + brought)
<1>5. u \in Nat /\ u <= full /\ u <= bucket.units + brought /\ u \in {full, bucket.units + brought}
  BY <1>3, <1>4 DEF Min2
<1>6. Refilled = [bucket EXCEPT !.units = u, !.last = now]
  BY DEF Refilled, full, brought
<1> HIDE DEF u
<1>7. Refilled.units = u /\ Refilled.last = now /\ Refilled.takes = bucket.takes
  BY <1>1, <1>6 DEF Buckets
<1> QED
  BY <1>1, <1>3, <1>4, <1>5, <1>7 DEF brought, full

\* What RateInv speaks of is left as it was, but for the clock.
SameTickets ==
  /\ bucket' = bucket
  /\ \A e \in Calls : /\ call'[e].granted = call[e].granted
                      /\ call'[e].retry = call[e].retry /\ call'[e].seen = call[e].seen

LEMMA SameTicketsKeep ==
  ASSUME RateInv, SameTickets
  PROVE  RateInv'
<1>1. /\ Passed(call') = Passed(call) /\ \A s : Since(call', s) = Since(call, s)
      /\ \A s, t : Between(call', s, t) = Between(call, s, t)
  BY DEF SameTickets, Passed, Since, Between
<1>2. TokensAccounted'
  BY <1>1 DEF SameTickets, RateInv, TokensAccounted, Passed
<1>3. SpansHold'
  BY <1>1 DEF SameTickets, RateInv, SpansHold, Passed
<1>4. RetriesAreTrue'
  BY DEF SameTickets, RateInv, RetriesAreTrue, RetryAfter
<1> QED
  BY <1>1, <1>2, <1>3, <1>4 DEF SameTickets, RateInv

\* A refill, whoever comes, leaves the accounts in order.
LEMMA RefilledIsAccounted ==
  ASSUME Shape, RateInv, NEW c \in Passed(call)
  PROVE  /\ Cardinality(Since(call, call[c].granted)) \in Nat
         /\ Cardinality(Since(call, call[c].granted)) * Window + Refilled.units
              <= Due(call[c].granted, now)
<1> DEFINE s == call[c].granted
           n == Cardinality(Since(call, s))
           due == Due(s, bucket.last)
<1>1. s \in Int /\ bucket.last \in Int /\ now \in Int
  BY DEF Shape, CallRecords, Passed, Buckets
<1>2. n \in Nat
  BY FS_Subset, FS_CardinalityType DEF RateInv, Since
<1>3. n * Window + bucket.units <= due
  BY DEF RateInv, TokensAccounted, Due
<1> HIDE DEF s, n, due
<1>4. due \in Int /\ Due(s, now) = due + (now - bucket.last) * Capacity
  BY <1>1, DueLemma DEF due
<1>5. n * Window \in Nat
  BY <1>2, ToolGateAssumption, ProductLemma
<1>6. n * Window + Refilled.units <= Due(s, now)
  BY <1>3, <1>4, <1>5, RefilledHas
<1> QED
  BY <1>2, <1>6 DEF s, n

\* A call that is sent away: the bucket is full or short of a token.
LEMMA SentAway ==
  ASSUME Shape, RateInv, NEW c \in Calls, Refilled.units < Window,
         bucket' = Take(Refilled),
         \A e \in Calls : call'[e].granted = call[e].granted,
         \A e \in Calls \ {c} : call'[e].retry = call[e].retry /\ call'[e].seen = call[e].seen,
         call'[c].seen = bucket'.takes, call'[c].retry = now + RetryAfter(Refilled)
  PROVE  RateInv'
<1>1. /\ Passed(call') = Passed(call) /\ \A s : Since(call', s) = Since(call, s)
      /\ \A s, t : Between(call', s, t) = Between(call, s, t)
  BY DEF Passed, Since, Between
<1>2. Refilled \in Buckets /\ bucket \in Buckets
  BY RefilledType DEF Shape
<1>3. /\ bucket'.units = Refilled.units /\ bucket'.last = now
      /\ bucket'.takes = bucket.takes + 1 /\ bucket.takes \in Int
  <2>1. Take(Refilled) = [Refilled EXCEPT !.takes = Refilled.takes + 1]
    BY <1>2, RefilledHas DEF Take
  <2> QED
    BY <1>2, <2>1, RefilledHas DEF Buckets
<1>4. TokensAccounted'
  BY <1>1, <1>3, RefilledIsAccounted DEF TokensAccounted, Due, Passed
<1>5. SpansHold'
  BY <1>1 DEF RateInv, SpansHold, Passed
<1>6. RetriesAreTrue'
  <2>1. ASSUME NEW e \in Calls
        PROVE  /\ call[e].seen \in Int /\ call[e].seen <= bucket.takes
    BY DEF Shape, CallRecords, RateInv, RetriesAreTrue
  <2>2. bucket'.units < Window /\ RetryAfter(bucket)' = RetryAfter(Refilled)
    BY <1>3 DEF RetryAfter
  <2> QED
    BY <1>3, <2>1, <2>2 DEF RetriesAreTrue
<1>7. IsFiniteSet(Passed(call')) /\ \A e \in Calls : call'[e].granted <= bucket'.last
  <2>1. bucket.last \in Int /\ bucket.last <= now /\ now \in Int
    BY <1>2 DEF Buckets, Shape
  <2>2. \A e \in Calls : call[e].granted \in Int /\ call[e].granted <= bucket.last
    BY DEF Shape, CallRecords, RateInv
  <2> QED
    BY <1>1, <1>3, <2>1, <2>2 DEF RateInv
<1> QED
  BY <1>4, <1>5, <1>6, <1>7 DEF RateInv

\* A call that is let through, for one token.
LEMMA LetThrough ==
  ASSUME Shape, RateInv, NEW c \in Calls, Refilled.units >= Window,
         bucket' = Take(Refilled),
         call'[c].granted = now,
         \A e \in Calls \ {c} : call'[e].granted = call[e].granted,
         \A e \in Calls : call'[e].retry = call[e].retry /\ call'[e].seen = call[e].seen
  PROVE  RateInv'
<1> DEFINE left == Refilled.units - Window
<1>1. Refilled \in Buckets /\ bucket \in Buckets /\ bucket.last <= now /\ now \in Nat
  BY RefilledType, RefilledHas DEF Shape
<1>2. /\ bucket'.units = left /\ left \in Nat /\ bucket'.last = now
      /\ bucket'.takes = bucket.takes + 1 /\ bucket.takes \in Int
  <2>1. Take(Refilled) = [Refilled EXCEPT !.units = left, !.takes = Refilled.takes + 1]
    BY DEF Take
  <2>2. left \in Nat
    BY RefilledHas
  <2> HIDE DEF left
  <2> QED
    BY <1>1, <2>1, <2>2, RefilledHas DEF Buckets
<1>3. \A e \in Calls : /\ call[e].granted \in Int /\ call[e].granted <= now
                       /\ call'[e].granted = IF e = c THEN now ELSE call[e].granted
  BY <1>1 DEF Shape, CallRecords, RateInv, Buckets
<1>4. /\ Passed(call') = Passed(call) \union {c} /\ IsFiniteSet(Passed(call'))
      /\ \A s \in Int : Since(call', s) \subseteq Since(call, s) \union {c}
  <2>1. Passed(call') = Passed(call) \union {c}
    BY <1>1, <1>3 DEF Passed
  <2>2. ASSUME NEW s \in Int, NEW x \in Since(call', s), x # c
        PROVE  x \in Since(call, s)
    BY <1>3, <2>1, <2>2 DEF Since, Passed
  <2> QED
    BY <2>1, <2>2, FS_AddElement DEF RateInv
<1>5. ASSUME NEW e \in Passed(call'), e # c
      PROVE  Cardinality(Since(call', call[e].granted)) * Window + left <= Due(call[e].granted, now)
  <2> DEFINE s == call[e].granted
             n == Cardinality(Since(call, s))
             m == Cardinality(Since(call', s))
  <2>1. e \in Passed(call) /\ s \in Int
    BY <1>3, <1>4, <1>5 DEF Passed
  <2>2. n \in Nat /\ n * Window + Refilled.units <= Due(s, now)
    BY <2>1, RefilledIsAccounted
  <2>3. m \in Nat /\ m <= n + 1
    <3>1. IsFiniteSet(Since(call, s))
      BY FS_Subset DEF RateInv, Since
    <3>2. /\ IsFiniteSet(Since(call, s) \union {c})
          /\ Cardinality(Since(call, s) \union {c}) \in {n, n + 1}
      BY <2>2, <3>1, FS_AddElement
    <3> QED
      BY <1>4, <2>1, <2>2, <3>2, FS_Subset, FS_CardinalityType
  <2> HIDE DEF s, n, m
  <2>4. m * Window <= (n + 1) * Window
    BY <2>2, <2>3, TimesMonotone, ToolGateAssumption
  <2>5. /\ (n + 1) * Window = n * Window + Window /\ n * Window \in Nat
        /\ m * Window \in Nat /\ Due(s, now) \in Int
    BY <1>1, <2>1, <2>2, <2>3, DueLemma DEF s
  <2>6. m * Window + left <= Due(s, now)
    BY <2>2, <2>4, <2>5, RefilledHas
  <2> QED
    BY <2>6 DEF s, m
<1>6. Cardinality(Since(call', now)) * Window + left <= Due(now, now)
  <2>1. CASE \E e \in Passed(call') : e # c /\ call[e].granted = now
    BY <1>5, <2>1
  <2>2. CASE ~\E e \in Passed(call') : e # c /\ call[e].granted = now
    <3>1. Since(call', now) = {c}
      BY <1>1, <1>3, <1>4, <2>2 DEF Since, Passed
    <3>2. Cardinality(Since(call', now)) = 1
      BY <3>1, FS_Singleton
    <3>3. Due(now, now) = Capacity * Window
      BY <1>1, DueLemma
    <3> QED
      BY <3>2, <3>3, RefilledHas
  <2> QED
    BY <2>1, <2>2
<1>7. TokensAccounted'
  <2> SUFFICES ASSUME NEW e \in Passed(call')
               PROVE  Cardinality(Since(call', call'[e].granted)) * Window + left
                        <= Due(call'[e].granted, now)
    BY <1>2 DEF TokensAccounted, Due
  <2> QED
    BY <1>3, <1>5, <1>6 DEF Passed
<1>8. SpansHold'
  <2> SUFFICES ASSUME NEW d \in Passed(call'), NEW e \in Passed(call'),
                      call'[e].granted >= call'[d].granted
               PROVE  Cardinality(Between(call', call'[d].granted, call'[e].granted)) * Window
                        <= Due(call'[d].granted, call'[e].granted)
    BY DEF SpansHold, Due
  <2> DEFINE s == call'[d].granted
             t == call'[e].granted
  <2>1. s \in Int /\ t \in Int /\ s <= t /\ t <= now /\ now \in Int
    BY <1>1, <1>3 DEF Passed
  <2>2. CASE t = now
    <3>1. Cardinality(Since(call', s)) * Window + left <= Due(s, now)
      BY <1>2, <1>7 DEF TokensAccounted, Due
    <3>2. Between(call', s, t) = Since(call', s)
      BY <1>1, <1>3, <2>1, <2>2 DEF Between, Since, Passed
    <3>3. Cardinality(Since(call', s)) \in Nat
      BY <1>4, FS_Subset, FS_CardinalityType DEF Since
    <3>4. Cardinality(Since(call', s)) * Window \in Nat /\ Due(s, now) \in Int
      BY <2>1, <3>3, DueLemma
    <3> QED
      BY <1>2, <2>2, <3>1, <3>2, <3>4
  <2>3. CASE t # now
    <3>1. /\ d # c /\ s = call[d].granted /\ d \in Passed(call)
          /\ e # c /\ t = call[e].granted /\ e \in Passed(call)
      BY <1>3, <1>4, <2>1, <2>3 DEF Passed
    <3> DEFINE n == Cardinality(Between(call, s, t))
               m == Cardinality(Between(call', s, t))
    <3>2. ASSUME NEW x \in Between(call', s, t)
          PROVE  x \in Between(call, s, t)
      <4>1. x # c
        BY <1>3, <2>1, <2>3, <3>2 DEF Between, Since, Passed
      <4> QED
        BY <1>3, <3>2, <4>1 DEF Between, Since, Passed
    <3>3. n \in Nat /\ m \in Nat /\ m <= n
      <4>1. Between(call', s, t) \subseteq Between(call, s, t)
        BY <3>2
      <4>2. IsFiniteSet(Between(call, s, t))
        BY FS_Subset DEF RateInv, Between, Since
      <4> QED
        BY <4>1, <4>2, FS_Subset, FS_CardinalityType
    <3>4. n * Window <= Due(s, t)
      BY <2>1, <3>1 DEF RateInv, SpansHold, Due
    <3> HIDE DEF n, m, s, t
    <3>5. m * Window <= n * Window /\ m * Window \in Nat /\ n * Window \in Nat
      BY <3>3, TimesMonotone, ToolGateAssumption
    <3>6. Due(s, t) \in Int
      BY <2>1, DueLemma
    <3>7. m * Window <= Due(s, t)
      BY <3>4, <3>5, <3>6
    <3> QED
      BY <3>7 DEF m, s, t
  <2> QED
    BY <2>2, <2>3
<1>9. RetriesAreTrue'
  <2>1. \A e \in Calls : call[e].seen \in Int /\ call[e].seen <= bucket.takes
    BY DEF Shape, CallRecords, RateInv, RetriesAreTrue
  <2> QED
    BY <1>2, <2>1 DEF RetriesAreTrue
<1> QED
  BY <1>1, <1>2, <1>3, <1>4, <1>7, <1>8, <1>9 DEF RateInv

\* The other actions, and the outcomes of Begin that ask the bucket nothing.
LEMMA OtherStepsKeepTickets ==
  ASSUME Shape,
         \/ Tick \/ UNCHANGED vars
         \/ \E c \in Calls : \/ Discover(c) \/ Arrives(c) \/ ReadTimeout(c) \/ Sends(c)
                             \/ \E a \in {"approve", "approve_session", "reject", "close"} :
                                  Answers(c, a)
         \/ \E v \in Windows : \/ \E p \in Ports : WindowStarts(v, p)
                               \/ WindowStops(v) \/ WindowDies(v) \/ Inherits(v)
  PROVE  SameTickets
<1>1. call \in [Calls -> CallRecords]
  BY DEF Shape
<1>2. ASSUME NEW c \in Calls, NEW r, call' = [call EXCEPT ![c] = r], bucket' = bucket,
             r.granted = call[c].granted, r.retry = call[c].retry, r.seen = call[c].seen
      PROVE  SameTickets
  BY <1>1, <1>2 DEF SameTickets
<1>3. CASE Tick \/ UNCHANGED vars
  BY <1>3 DEF Tick, vars, SameTickets
<1>4. ASSUME NEW c \in Calls, Discover(c) \/ ReadTimeout(c) \/ Sends(c) \/ Arrives(c)
      PROVE  SameTickets
  <2>1. call[c] \in CallRecords
    BY <1>1
  <2>2. CASE Discover(c)
    BY <1>2, <2>1, <2>2 DEF Discover, Moves, CallRecords
  <2>3. CASE ReadTimeout(c) \/ Sends(c)
    BY <1>2, <2>1, <2>3 DEF ReadTimeout, Sends, Moves, CallRecords
  <2>4. CASE Arrives(c)
    <3>1. PICK r \in {[call[c] EXCEPT !.pc = "unavailable"], [call[c] EXCEPT !.pc = "cleared"],
                      [call[c] EXCEPT !.pc = "prompted", !.panel = "open"]} : Moves(c, r)
      BY <2>4 DEF Arrives
    <3> QED
      BY <1>2, <2>1, <3>1 DEF Moves, CallRecords
  <2> QED
    BY <1>4, <2>2, <2>3, <2>4
<1>5. ASSUME NEW c \in Calls, NEW a, Answers(c, a)
      PROVE  SameTickets
  <2> DEFINE ans == IF a = "close" THEN "reject" ELSE a
             pc == IF call[c].pc # "prompted" THEN call[c].pc
                   ELSE IF Approved(a) THEN "cleared" ELSE "rejected"
  <2>1. call[c] \in CallRecords
    BY <1>1
  <2>2. Moves(c, [call[c] EXCEPT !.panel = "closed", !.answer = ans, !.pc = pc])
    BY <1>5, <2>1 DEF Answers, CallRecords
  <2> HIDE DEF ans, pc
  <2> QED
    BY <1>2, <2>1, <2>2 DEF Moves, CallRecords
<1>6. ASSUME NEW v \in Windows, WindowDies(v)
      PROVE  SameTickets
  <2>1. \A e \in Calls : call[e] \in CallRecords
    BY <1>1
  <2> DEFINE pc(e) == IF call[e].pc = "prompted" THEN "unavailable" ELSE call[e].pc
  <2>2. \A e \in Calls : call'[e] \in {call[e], [call[e] EXCEPT !.panel = "closed", !.pc = pc(e)]}
    BY <1>6, <2>1 DEF WindowDies, CallRecords
  <2>3. bucket' = bucket
    BY <1>6 DEF WindowDies
  <2> HIDE DEF pc
  <2> QED
    BY <2>1, <2>2, <2>3 DEF SameTickets, CallRecords
<1>7. ASSUME NEW v \in Windows,
             (\E p \in Ports : WindowStarts(v, p)) \/ WindowStops(v) \/ Inherits(v)
      PROVE  SameTickets
  BY <1>7 DEF WindowStarts, WindowStops, Inherits, SameTickets
<1> QED
  BY <1>3, <1>4, <1>5, <1>6, <1>7

LEMMA BeginKeepsRate ==
  ASSUME Shape, RateInv, NEW c \in Calls, NEW t \in Tools, NEW k \in Keys,
         NEW dry \in BOOLEAN, NEW valid \in BOOLEAN, Begin(c, t, k, dry, valid)
  PROVE  RateInv'
<1> DEFINE r == [call[c] EXCEPT !.tool = t, !.key = k, !.dry = dry]
           next == IF ~valid THEN "refused"
                   ELSE IF NeedsApproval(t, dry) THEN "asks" ELSE "cleared"
           through == [r EXCEPT !.pc = next, !.granted = now]
           away == [r EXCEPT !.pc = "refused", !.seen = bucket'.takes,
                             !.retry = now + RetryAfter(Refilled)]
<1>1. call \in [Calls -> CallRecords] /\ call[c] \in CallRecords
  BY DEF Shape
<1>2. \/ /\ bucket' = bucket
         /\ \E pc \in {"refused", next} : call' = [call EXCEPT ![c] = [r EXCEPT !.pc = pc]]
      \/ /\ bucket' = Take(Refilled) /\ Refilled.units >= Window
         /\ call' = [call EXCEPT ![c] = through]
      \/ /\ bucket' = Take(Refilled) /\ ~(Refilled.units >= Window)
         /\ call' = [call EXCEPT ![c] = away]
  BY DEF Begin, Enters
<1> HIDE DEF next
<1>3. CASE /\ bucket' = bucket
           /\ \E pc \in {"refused", next} : call' = [call EXCEPT ![c] = [r EXCEPT !.pc = pc]]
  <2>1. SameTickets
    BY <1>1, <1>3 DEF SameTickets, CallRecords
  <2> QED
    BY <2>1, SameTicketsKeep
<1>4. CASE /\ bucket' = Take(Refilled) /\ Refilled.units >= Window
           /\ call' = [call EXCEPT ![c] = through]
  <2>1. through.granted = now /\ through.retry = call[c].retry /\ through.seen = call[c].seen
    BY <1>1 DEF CallRecords
  <2> HIDE DEF through
  <2>2. call'[c] = through /\ \A e \in Calls \ {c} : call'[e] = call[e]
    BY <1>1, <1>4
  <2>3. /\ call'[c].granted = now
        /\ \A e \in Calls \ {c} : call'[e].granted = call[e].granted
        /\ \A e \in Calls : call'[e].retry = call[e].retry /\ call'[e].seen = call[e].seen
    BY <2>1, <2>2
  <2> QED
    BY <1>4, <2>3, LetThrough
<1>5. CASE /\ bucket' = Take(Refilled) /\ ~(Refilled.units >= Window)
           /\ call' = [call EXCEPT ![c] = away]
  <2>1. /\ away.granted = call[c].granted /\ away.seen = bucket'.takes
        /\ away.retry = now + RetryAfter(Refilled)
    BY <1>1 DEF CallRecords
  <2> HIDE DEF away
  <2>2. call'[c] = away /\ \A e \in Calls \ {c} : call'[e] = call[e]
    BY <1>1, <1>5
  <2>3. /\ \A e \in Calls : call'[e].granted = call[e].granted
        /\ \A e \in Calls \ {c} : call'[e].retry = call[e].retry /\ call'[e].seen = call[e].seen
        /\ call'[c].seen = bucket'.takes /\ call'[c].retry = now + RetryAfter(Refilled)
    BY <2>1, <2>2
  <2>4. Refilled.units < Window
    BY <1>5, RefilledHas
  <2> QED
    BY <1>5, <2>3, <2>4, SentAway
<1> QED
  BY <1>2, <1>3, <1>4, <1>5

LEMMA RateStep == Shape /\ RateInv /\ [Next]_vars => RateInv'
<1> SUFFICES ASSUME Shape, RateInv, [Next]_vars PROVE RateInv'
  OBVIOUS
<1>1. CASE \E c \in Calls : \E t \in Tools, k \in Keys, dry, valid \in BOOLEAN :
             Begin(c, t, k, dry, valid)
  BY <1>1, BeginKeepsRate
<1>2. CASE SameTickets
  BY <1>2, SameTicketsKeep
<1> QED
  BY <1>1, <1>2, OtherStepsKeepTickets DEF Next

LEMMA RateInit == Init => RateInv
<1> SUFFICES ASSUME Init PROVE RateInv
  OBVIOUS
<1>1. /\ \A c \in Calls : call[c].granted = -1 /\ call[c].retry = -1 /\ call[c].seen = 0
      /\ bucket.last = 0 /\ bucket.takes = 0
  BY DEF Init
<1>2. Passed(call) = {}
  BY <1>1 DEF Passed
<1> QED
  BY <1>1, <1>2, FS_EmptySet DEF RateInv, TokensAccounted, SpansHold, RetriesAreTrue

\* rate_limit.py: over any span the limit lets through no more calls than the
\* bucket and its refill allow, and a caller that comes back at the time it
\* was told finds a token, if nobody has come since.
THEOREM RateLimitKept == Spec => []RateLimitHolds
<1>1. Shape /\ RateInv => RateLimitHolds
  <2> SUFFICES ASSUME Shape, RateInv PROVE RateLimitHolds
    OBVIOUS
  <2>1. ASSUME NEW c \in Calls, NEW d \in Calls,
               call[c].granted >= 0, call[d].granted >= call[c].granted
        PROVE  Cardinality({e \in Calls : call[e].granted >= call[c].granted
                                           /\ call[e].granted <= call[d].granted}) * Window
                 <= Capacity * (Window + call[d].granted - call[c].granted)
    <3>1. \A e \in Calls : call[e].granted \in Int
      BY DEF Shape, CallRecords
    <3>2. Between(call, call[c].granted, call[d].granted)
            = {e \in Calls : call[e].granted >= call[c].granted
                               /\ call[e].granted <= call[d].granted}
      BY <2>1, <3>1 DEF Between, Since, Passed
    <3>3. c \in Passed(call) /\ d \in Passed(call)
      BY <2>1, <3>1 DEF Passed
    <3> QED
      BY <2>1, <3>2, <3>3 DEF RateInv, SpansHold
  <2>2. ASSUME NEW c \in Calls,
               call[c].retry >= 0, call[c].seen = bucket.takes, now >= call[c].retry
        PROVE  Refilled.units >= Window
    <3> DEFINE short == Window - bucket.units
               wait == RetryAfter(bucket)
    <3>1. /\ Window \in Nat /\ Capacity \in Nat \ {0} /\ bucket.units \in Int
          /\ bucket.last \in Int /\ now \in Int
      BY ToolGateAssumption DEF Shape, Buckets
    <3>2. short \in Int
      BY <3>1
    <3>3. wait \in Int /\ wait * Capacity >= short
      <4>1. wait = (short + Capacity - 1) \div Capacity
        BY DEF RetryAfter
      <4> HIDE DEF short, wait
      <4> QED
        BY <3>1, <3>2, <4>1, CeilingLemma
    <3>4. call[c].retry = bucket.last + wait
      BY <2>2 DEF RateInv, RetriesAreTrue
    <3> HIDE DEF wait
    <3>5. now - bucket.last >= wait
      BY <2>2, <3>1, <3>3, <3>4
    <3>6. (now - bucket.last) * Capacity >= wait * Capacity
      BY <3>1, <3>3, <3>5, TimesMonotone
    <3>7. (now - bucket.last) * Capacity \in Int /\ wait * Capacity \in Int
      BY <3>1, <3>3
    <3>8. bucket.units + (now - bucket.last) * Capacity >= Window
      BY <3>1, <3>3, <3>6, <3>7
    <3> QED
      BY <3>8, RefilledHas
  <2> QED
    BY <2>1, <2>2 DEF RateLimitHolds
<1>2. Spec => []Shape
  BY Invariance, PTL DEF IInv
<1> QED
  BY <1>1, <1>2, RateInit, RateStep, PTL DEF Spec
=============================================================================
