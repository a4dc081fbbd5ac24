---------------------- MODULE ReauthenticationProofs ----------------------
(***************************************************************************)
(* Proofs about Reauthentication: its type invariant, that the retry of a  *)
(* refused command is safe, that a caller sees AUTH only if the connection *)
(* file was out of date at some moment of its call, and that to its caller *)
(* a call is what CallService says.                                        *)
(***************************************************************************)
EXTENDS Reauthentication, TLAPS

\* The frame of a call waits on the wire of the client the call holds, and
\* nowhere else.
WireInv ==
  /\ \A c, d \in Clients : \A i \in DOMAIN wire[c], j \in DOMAIN wire[d] :
       wire[c][i] = wire[d][j] => c = d /\ i = j
  /\ \A c \in Clients : \A i \in DOMAIN wire[c] : client[wire[c][i]] = c

\* On the wire, accepted, executed: a command is in one of them at most, and
\* once.
OnceInv ==
  /\ \A c \in Clients : \A i \in DOMAIN wire[c] :
       wire[c][i] \notin accepted /\ executed[wire[c][i]] = 0
  /\ \A k \in accepted : executed[k] = 0
  /\ \A k \in Calls : executed[k] <= 1

Nowhere(k) ==
  /\ k \notin accepted /\ executed[k] = 0
  /\ \A c \in Clients : \A i \in DOMAIN wire[c] : wire[c][i] # k

\* Whoever is about to send, or has been refused, has left no trace of an
\* earlier attempt; whoever waits does so on an open socket.
AttemptInv ==
  \A k \in Calls :
    /\ pc[k] \in {"idle", "connect", "closing", "AUTH"} => Nowhere(k)
    /\ pc[k] = "flight" /\ future[k] = "AUTH" => Nowhere(k)
    /\ pc[k] = "flight" /\ future[k] = "pending" => client[k] \in up /\ executed[k] = 0
    /\ pc[k] = "flight" /\ future[k] = "ok" => executed[k] = 1
    /\ pc[k] = "ok" => executed[k] = 1
    /\ pc[k] = "flight" => future[k] # "none"
    /\ pc[k] \in {"connect", "flight"} => client[k] \in Clients
    /\ pc[k] = "idle" => k \notin retried

\* While the file is right, a client built since a reset has the live token,
\* and so the second attempt is not refused.
SteadyInv ==
  \A k \in steady :
    /\ running /\ file = live
    /\ pc[k] = "closing" => bl = 0 \/ token[bl] = live
    /\ k \in retried /\ pc[k] \in {"connect", "flight"} => token[client[k]] = live
    /\ k \in retried /\ pc[k] = "flight" => future[k] # "AUTH"
    /\ pc[k] # "AUTH"

IInv == TypeOK /\ WireInv /\ OnceInv /\ AttemptInv /\ SteadyInv

-----------------------------------------------------------------------------
(* What the actions have in common.                                         *)

\* A call that has left no trace puts its frame on the wire of its client.
LEMMA WireAppends ==
  ASSUME TypeOK, WireInv, OnceInv, NEW k \in Calls, Nowhere(k), NEW c \in Clients,
         wire' = [wire EXCEPT ![c] = Append(@, k)],
         client'[k] = c, \A j \in Calls \ {k} : client'[j] = client[j],
         UNCHANGED <<accepted, executed>>
  PROVE  /\ wire' \in [Clients -> Seq(Calls)]
         /\ WireInv' /\ OnceInv'
         /\ \A j \in Calls \ {k} : Nowhere(j) => Nowhere(j)'
<1> DEFINE q == Append(wire[c], k)
<1>1. wire[c] \in Seq(Calls) /\ q \in Seq(Calls)
  BY DEF TypeOK
<1>2. /\ DOMAIN q = 1 .. (Len(wire[c]) + 1) /\ DOMAIN wire[c] = 1 .. Len(wire[c])
      /\ Len(wire[c]) \in Nat
      /\ \A i \in 1 .. Len(wire[c]) : q[i] = wire[c][i]
      /\ q[Len(wire[c]) + 1] = k
  BY <1>1
<1>3. wire' = [wire EXCEPT ![c] = q]
  OBVIOUS
<1> HIDE DEF q
<1>4. wire' \in [Clients -> Seq(Calls)] /\ wire'[c] = q
      /\ \A d \in Clients \ {c} : wire'[d] = wire[d]
  BY <1>1, <1>3 DEF TypeOK
<1>5. \A d \in Clients : \A i \in DOMAIN wire'[d] :
        \/ i \in DOMAIN wire[d] /\ wire'[d][i] = wire[d][i]
        \/ d = c /\ i = Len(wire[c]) + 1 /\ wire'[d][i] = k
  BY <1>2, <1>4
<1>6. \A d \in Clients : \A i \in DOMAIN wire[d] : wire[d][i] \in Calls \ {k}
  BY DEF TypeOK, Nowhere
<1>7. WireInv'
  BY <1>5, <1>6 DEF WireInv
<1>8. OnceInv'
  BY <1>5 DEF OnceInv, Nowhere
<1>9. \A j \in Calls \ {k} : Nowhere(j) => Nowhere(j)'
  BY <1>5 DEF Nowhere
<1> QED
  BY <1>4, <1>7, <1>8, <1>9

\* Frames that are read, or lost with their socket, disappear from the wire;
\* the others stay as they are.
LEMMA WireShrinks ==
  ASSUME WireInv, NEW shift \in [Clients -> {0, 1}],
         \A c \in Clients : \A i \in DOMAIN wire'[c] :
           i \in Nat /\ i + shift[c] \in DOMAIN wire[c] /\ wire'[c][i] = wire[c][i + shift[c]],
         UNCHANGED client
  PROVE  /\ WireInv'
         /\ \A c \in Clients : \A i \in DOMAIN wire'[c] :
              \E j \in DOMAIN wire[c] : wire[c][j] = wire'[c][i]
<1>1. \A c \in Clients : \A i \in DOMAIN wire'[c] :
        \E j \in DOMAIN wire[c] : wire[c][j] = wire'[c][i]
  OBVIOUS
<1>2. \A c, d \in Clients : \A i \in DOMAIN wire'[c], j \in DOMAIN wire'[d] :
        wire'[c][i] = wire'[d][j] => c = d /\ i = j
  <2> SUFFICES ASSUME NEW c \in Clients, NEW d \in Clients,
                      NEW i \in DOMAIN wire'[c], NEW j \in DOMAIN wire'[d],
                      wire'[c][i] = wire'[d][j]
               PROVE  c = d /\ i = j
    OBVIOUS
  <2>1. wire[c][i + shift[c]] = wire[d][j + shift[d]]
    OBVIOUS
  <2>2. c = d /\ i + shift[c] = j + shift[d]
    BY <2>1 DEF WireInv
  <2>3. i \in Nat /\ j \in Nat /\ shift[c] \in {0, 1}
    OBVIOUS
  <2> QED
    BY <2>2, <2>3
<1>3. \A c \in Clients : \A i \in DOMAIN wire'[c] : client'[wire'[c][i]] = c
  BY DEF WireInv
<1> QED
  BY <1>1, <1>2, <1>3 DEF WireInv

\* Frames that disappear take nothing else with them.
LEMMA FewerFrames ==
  ASSUME OnceInv,
         \A c \in Clients : \A i \in DOMAIN wire'[c] :
           \E j \in DOMAIN wire[c] : wire[c][j] = wire'[c][i],
         accepted' \subseteq accepted, UNCHANGED executed
  PROVE  OnceInv' /\ \A k \in Calls : Nowhere(k) => Nowhere(k)'
<1>1. OnceInv'
  BY DEF OnceInv
<1>2. \A k \in Calls : Nowhere(k) => Nowhere(k)'
  BY DEF Nowhere
<1> QED
  BY <1>1, <1>2

\* _get_client hands out the global client, or one with fresh credentials:
\* with an up-to-date file, one that has the live token.
LEMMA GetsLemma ==
  ASSUME IInv, NEW c \in Clients, Gets(c, bl)
  PROVE  /\ token' \in [Clients -> {0} \union Tokens]
         /\ \A d \in Clients : token[d] # 0 => token'[d] = token[d]
         /\ bl # 0 => c = bl /\ token' = token
         /\ bl = 0 /\ file = live => token'[c] = live
<1> USE ReauthAssumption
<1>1. 0 \notin Tokens /\ Credentials \in Tokens /\ (file = live => Credentials = live)
  BY DEF IInv, TypeOK, Tokens, Credentials, EnvToken
<1> QED
  BY <1>1 DEF IInv, TypeOK, Gets

\* A call without a trace is sent, or has to dial first.
LEMMA IssuesLemma ==
  ASSUME IInv, NEW k \in Calls, pc[k] \in {"idle", "closing"},
         NEW c \in Clients, Issues(k, c),
         \A j \in Calls \ {k} : j \in retried' => j \in retried,
         UNCHANGED <<up, accepted, executed>>
  PROVE  /\ wire' \in [Clients -> Seq(Calls)]
         /\ pc' \in [Calls -> {"idle", "connect", "flight", "closing",
                               "ok", "AUTH", "CONNECTION_LOST", "TIMEOUT"}]
         /\ client' \in [Calls -> {0} \union Clients]
         /\ future' \in [Calls -> {"none", "pending", "ok", "AUTH", "CONNECTION_LOST"}]
         /\ \A j \in Calls \ {k} :
              pc'[j] = pc[j] /\ client'[j] = client[j] /\ future'[j] = future[j]
         /\ client'[k] = c /\ pc'[k] \in {"connect", "flight"}
         /\ pc'[k] = "flight" => future'[k] = "pending"
         /\ WireInv' /\ OnceInv' /\ AttemptInv'
<1>1. Nowhere(k)
  BY DEF IInv, AttemptInv
<1>2. /\ client' \in [Calls -> {0} \union Clients]
      /\ client'[k] = c /\ \A j \in Calls \ {k} : client'[j] = client[j]
  BY DEF IInv, TypeOK, Issues
<1>3. CASE c \in up
  <2>1. /\ pc' = [pc EXCEPT ![k] = "flight"]
        /\ future' = [future EXCEPT ![k] = "pending"]
        /\ wire' = [wire EXCEPT ![c] = Append(@, k)]
    BY <1>3 DEF Issues
  <2>2. /\ wire' \in [Clients -> Seq(Calls)]
        /\ WireInv' /\ OnceInv'
        /\ \A j \in Calls \ {k} : Nowhere(j) => Nowhere(j)'
    BY <1>1, <1>2, <2>1, WireAppends DEF IInv
  <2>3. AttemptInv'
    BY <1>1, <1>2, <1>3, <2>1, <2>2 DEF IInv, TypeOK, AttemptInv, Nowhere
  <2> QED
    BY <1>2, <2>1, <2>2, <2>3 DEF IInv, TypeOK
<1>4. CASE c \notin up
  <2>1. pc' = [pc EXCEPT ![k] = "connect"] /\ UNCHANGED <<future, wire>>
    BY <1>4 DEF Issues
  <2>2. \A d \in Clients : \A i \in DOMAIN wire[d] : wire[d][i] \in Calls \ {k}
    BY <1>1 DEF IInv, TypeOK, Nowhere
  <2>3. WireInv' /\ OnceInv'
    BY <1>2, <2>1, <2>2 DEF IInv, WireInv, OnceInv
  <2>4. \A j \in Calls : Nowhere(j) => Nowhere(j)'
    BY <2>1 DEF Nowhere
  <2>5. AttemptInv'
    BY <1>1, <1>2, <2>1, <2>4 DEF IInv, TypeOK, AttemptInv
  <2> QED
    BY <1>2, <2>1, <2>3, <2>5 DEF IInv, TypeOK
<1> QED
  BY <1>3, <1>4

\* When readers exit, only futures that are pending change.
LEMMA LosesLemma ==
  ASSUME IInv, NEW C, LosesCalls(C)
  PROVE  /\ future' \in [Calls -> {"none", "pending", "ok", "AUTH", "CONNECTION_LOST"}]
         /\ \A k \in Calls :
              \/ future'[k] = future[k]
              \/ future[k] = "pending" /\ future'[k] = "CONNECTION_LOST"
         /\ \A k \in Calls :
              pc[k] = "flight" /\ future'[k] = "pending" => client[k] \notin C
BY DEF IInv, TypeOK, LosesCalls
-----------------------------------------------------------------------------
LEMMA InitIInv == Init => IInv
<1> SUFFICES ASSUME Init PROVE IInv
  OBVIOUS
<1> USE ReauthAssumption
<1>1. \A c \in Clients : DOMAIN wire[c] = {} /\ wire[c] \in Seq(Calls)
  BY DEF Init
<1>2. TypeOK
  <2>1. wire \in [Clients -> Seq(Calls)]
    BY DEF Init
  <2> QED
    BY <2>1 DEF Init, TypeOK, Tokens
<1>3. WireInv /\ OnceInv
  BY <1>1 DEF Init, WireInv, OnceInv
<1>4. AttemptInv /\ SteadyInv
  BY <1>1 DEF Init, AttemptInv, SteadyInv, Nowhere
<1> QED
  BY <1>2, <1>3, <1>4 DEF IInv

LEMMA BeginIInv ==
  ASSUME IInv, NEW k \in Calls, Begin(k)
  PROVE  IInv'
<1>1. PICK c \in Clients : Gets(c, bl) /\ Issues(k, c) /\ bl' = c
  BY DEF Begin
<1>2. /\ pc[k] = "idle" /\ k \notin retried
      /\ steady' = IF running /\ file = live THEN steady \union {k} ELSE steady
      /\ UNCHANGED <<running, live, file, stops, up, accepted, executed, retried, deaths>>
  BY DEF Begin, addon, IInv, AttemptInv
<1>3. /\ token' \in [Clients -> {0} \union Tokens]
      /\ \A d \in Clients : token[d] # 0 => token'[d] = token[d]
      /\ bl # 0 => c = bl /\ token' = token
      /\ bl = 0 /\ file = live => token'[c] = live
  BY <1>1, GetsLemma
<1>4. /\ wire' \in [Clients -> Seq(Calls)]
      /\ pc' \in [Calls -> {"idle", "connect", "flight", "closing",
                            "ok", "AUTH", "CONNECTION_LOST", "TIMEOUT"}]
      /\ client' \in [Calls -> {0} \union Clients]
      /\ future' \in [Calls -> {"none", "pending", "ok", "AUTH", "CONNECTION_LOST"}]
      /\ \A j \in Calls \ {k} :
           pc'[j] = pc[j] /\ client'[j] = client[j] /\ future'[j] = future[j]
      /\ client'[k] = c /\ pc'[k] \in {"connect", "flight"}
      /\ pc'[k] = "flight" => future'[k] = "pending"
      /\ WireInv' /\ OnceInv' /\ AttemptInv'
  BY <1>1, <1>2, IssuesLemma
<1>5. TypeOK'
  BY <1>1, <1>2, <1>3, <1>4 DEF IInv, TypeOK
<1>6. SteadyInv'
  <2> SUFFICES ASSUME NEW j \in steady'
               PROVE  /\ running /\ file = live
                      /\ (pc[j] = "closing" => bl = 0 \/ token[bl] = live)'
                      /\ (j \in retried /\ pc[j] \in {"connect", "flight"}
                            => token[client[j]] = live)'
                      /\ (j \in retried /\ pc[j] = "flight" => future[j] # "AUTH")'
                      /\ pc'[j] # "AUTH"
    BY <1>2 DEF SteadyInv
  <2>1. CASE j = k
    BY <1>2, <1>4, <2>1 DEF IInv, SteadyInv
  <2>2. CASE j # k
    <3>1. j \in steady /\ j \in Calls
      BY <1>2, <2>2 DEF IInv, TypeOK
    <3>2. 0 \notin Tokens
      BY DEF Tokens
    <3> QED
      BY <1>1, <1>2, <1>3, <1>4, <2>2, <3>1, <3>2 DEF IInv, TypeOK, SteadyInv, AttemptInv
  <2> QED
    BY <2>1, <2>2
<1> QED
  BY <1>4, <1>5, <1>6 DEF IInv

LEMMA DialsIInv ==
  ASSUME IInv, NEW k \in Calls, Dials(k)
  PROVE  IInv'
<1>1. /\ pc[k] = "connect"
      /\ pc' = [pc EXCEPT ![k] = "flight"]
      /\ future' = [future EXCEPT ![k] = "pending"]
      /\ UNCHANGED <<running, live, file, stops, bl, token, accepted, executed, client,
                     retried, steady, deaths>>
  BY DEF Dials, addon
<1>2. PICK c \in Clients : c = client[k]
  BY <1>1 DEF IInv, AttemptInv
<1>3. up' = up \union {c} /\ wire' = [wire EXCEPT ![c] = Append(@, k)]
  BY <1>2 DEF Dials
<1>4. Nowhere(k)
  BY <1>1 DEF IInv, AttemptInv
<1>5. /\ wire' \in [Clients -> Seq(Calls)]
      /\ WireInv' /\ OnceInv'
      /\ \A j \in Calls \ {k} : Nowhere(j) => Nowhere(j)'
  BY <1>1, <1>2, <1>3, <1>4, WireAppends DEF IInv
<1>6. TypeOK'
  BY <1>1, <1>3, <1>5 DEF IInv, TypeOK
<1>7. AttemptInv'
  BY <1>1, <1>2, <1>3, <1>4, <1>5 DEF IInv, TypeOK, AttemptInv, Nowhere
<1>8. SteadyInv'
  BY <1>1 DEF IInv, TypeOK, SteadyInv
<1> QED
  BY <1>5, <1>6, <1>7, <1>8 DEF IInv

\* The steps in which a call gives its caller an answer.
LEMMA EndsIInv ==
  ASSUME IInv, NEW k \in Calls, Finishes(k) \/ TimesOut(k)
  PROVE  IInv'
<1>1. /\ pc[k] = "flight"
      /\ UNCHANGED <<running, live, file, stops, bl, token, up, wire, accepted, executed,
                     client, retried, future, steady, deaths>>
  BY DEF Finishes, TimesOut, addon
<1>2. PICK out \in {"ok", "AUTH", "CONNECTION_LOST", "TIMEOUT"} :
        /\ pc' = [pc EXCEPT ![k] = out]
        /\ out = "AUTH" => future[k] = "AUTH" /\ k \in retried
        /\ out = "ok" => future[k] = "ok"
  <2>1. CASE Finishes(k)
    <3>1. future[k] \in {"ok", "AUTH", "CONNECTION_LOST"}
      BY <1>1, <2>1 DEF Finishes, Answered, IInv, TypeOK, AttemptInv
    <3> QED
      BY <2>1, <3>1 DEF Finishes, Retryable
  <2>2. CASE TimesOut(k)
    BY <2>2 DEF TimesOut
  <2> QED
    BY <2>1, <2>2
<1>3. TypeOK'
  BY <1>1, <1>2 DEF IInv, TypeOK
<1>4. WireInv' /\ OnceInv'
  BY <1>1 DEF IInv, WireInv, OnceInv
<1>5. \A j \in Calls : Nowhere(j) => Nowhere(j)'
  BY <1>1 DEF Nowhere
<1>6. AttemptInv'
  BY <1>1, <1>2, <1>5 DEF IInv, TypeOK, AttemptInv
<1>7. SteadyInv'
  BY <1>1, <1>2 DEF IInv, TypeOK, SteadyInv
<1> QED
  BY <1>3, <1>4, <1>6, <1>7 DEF IInv

LEMMA ResetsIInv ==
  ASSUME IInv, NEW k \in Calls, Resets(k)
  PROVE  IInv'
<1>1. /\ pc[k] = "flight" /\ future[k] = "AUTH"
      /\ bl' = 0 /\ up' = up \ {bl} /\ LosesCalls({bl})
      /\ pc' = [pc EXCEPT ![k] = "closing"]
      /\ UNCHANGED <<running, live, file, stops, token, wire, accepted, executed, client,
                     retried, steady, deaths>>
  BY DEF Resets, Retryable, addon
<1>2. /\ future' \in [Calls -> {"none", "pending", "ok", "AUTH", "CONNECTION_LOST"}]
      /\ \A j \in Calls :
           \/ future'[j] = future[j]
           \/ future[j] = "pending" /\ future'[j] = "CONNECTION_LOST"
      /\ \A j \in Calls :
           pc[j] = "flight" /\ future'[j] = "pending" => client[j] # bl
  BY <1>1, LosesLemma
<1>3. TypeOK'
  BY <1>1, <1>2 DEF IInv, TypeOK
<1>4. WireInv' /\ OnceInv'
  BY <1>1 DEF IInv, WireInv, OnceInv
<1>5. \A j \in Calls : Nowhere(j) => Nowhere(j)'
  BY <1>1 DEF Nowhere
<1>6. AttemptInv'
  BY <1>1, <1>2, <1>5 DEF IInv, TypeOK, AttemptInv
<1>7. SteadyInv'
  BY <1>1, <1>2 DEF IInv, TypeOK, SteadyInv
<1> QED
  BY <1>3, <1>4, <1>6, <1>7 DEF IInv

LEMMA RetriesIInv ==
  ASSUME IInv, NEW k \in Calls, Retries(k)
  PROVE  IInv'
<1>1. PICK c \in Clients : Gets(c, bl) /\ Issues(k, c) /\ bl' = c
  BY DEF Retries
<1>2. /\ pc[k] = "closing" /\ retried' = retried \union {k}
      /\ UNCHANGED <<running, live, file, stops, up, accepted, executed, steady, deaths>>
  BY DEF Retries, addon
<1>3. /\ token' \in [Clients -> {0} \union Tokens]
      /\ \A d \in Clients : token[d] # 0 => token'[d] = token[d]
      /\ bl # 0 => c = bl /\ token' = token
      /\ bl = 0 /\ file = live => token'[c] = live
  BY <1>1, GetsLemma
<1>4. /\ wire' \in [Clients -> Seq(Calls)]
      /\ pc' \in [Calls -> {"idle", "connect", "flight", "closing",
                            "ok", "AUTH", "CONNECTION_LOST", "TIMEOUT"}]
      /\ client' \in [Calls -> {0} \union Clients]
      /\ future' \in [Calls -> {"none", "pending", "ok", "AUTH", "CONNECTION_LOST"}]
      /\ \A j \in Calls \ {k} :
           pc'[j] = pc[j] /\ client'[j] = client[j] /\ future'[j] = future[j]
      /\ client'[k] = c /\ pc'[k] \in {"connect", "flight"}
      /\ pc'[k] = "flight" => future'[k] = "pending"
      /\ WireInv' /\ OnceInv' /\ AttemptInv'
  BY <1>1, <1>2, IssuesLemma
<1>5. TypeOK'
  BY <1>1, <1>2, <1>3, <1>4 DEF IInv, TypeOK
<1>6. SteadyInv'
  <2> SUFFICES ASSUME NEW j \in steady
               PROVE  /\ running /\ file = live
                      /\ (pc[j] = "closing" => bl = 0 \/ token[bl] = live)'
                      /\ (j \in retried /\ pc[j] \in {"connect", "flight"}
                            => token[client[j]] = live)'
                      /\ (j \in retried /\ pc[j] = "flight" => future[j] # "AUTH")'
                      /\ pc'[j] # "AUTH"
    BY <1>2 DEF SteadyInv
  <2>1. 0 \notin Tokens /\ j \in Calls /\ running /\ file = live
    BY DEF Tokens, IInv, TypeOK, SteadyInv
  \* The client it goes out on was global while the call was closing, or is
  \* built now.
  <2>2. CASE j = k
    <3>1. token'[c] = live
      BY <1>2, <1>3, <2>1, <2>2 DEF IInv, SteadyInv
    <3> QED
      BY <1>2, <1>4, <2>1, <2>2, <3>1
  <2>3. CASE j # k
    BY <1>1, <1>2, <1>3, <1>4, <2>1, <2>3 DEF IInv, TypeOK, SteadyInv, AttemptInv
  <2> QED
    BY <2>2, <2>3
<1> QED
  BY <1>4, <1>5, <1>6 DEF IInv
LEMMA AuthenticatesIInv ==
  ASSUME IInv, NEW c \in Clients, Authenticates(c)
  PROVE  IInv'
<1> DEFINE q == wire[c]
<1>1. /\ q \in Seq(Calls) /\ q # <<>>
      /\ wire' = [wire EXCEPT ![c] = Tail(q)]
      /\ UNCHANGED <<running, live, file, stops, bl, token, up, executed, pc, client,
                     retried, steady, deaths>>
  BY DEF Authenticates, addon, IInv, TypeOK
<1>2. /\ Head(q) \in Calls /\ Tail(q) \in Seq(Calls)
      /\ Len(q) \in Nat \ {0} /\ DOMAIN q = 1 .. Len(q) /\ Head(q) = q[1]
      /\ DOMAIN Tail(q) = 1 .. (Len(q) - 1)
      /\ \A i \in 1 .. (Len(q) - 1) : Tail(q)[i] = q[i + 1]
  BY <1>1
<1>3. PICK k \in Calls : k = Head(q)
  BY <1>2
<1>4. \/ token[c] = live /\ accepted' = accepted \union {k} /\ UNCHANGED future
      \/ token[c] # live /\ Answers(k, c, "AUTH") /\ UNCHANGED accepted
  BY <1>3 DEF Authenticates
<1>5. PICK r : r = Tail(q)
  OBVIOUS
<1>6. /\ wire' \in [Clients -> Seq(Calls)] /\ wire'[c] = r
      /\ \A d \in Clients \ {c} : wire'[d] = wire[d]
      /\ \A d \in Clients : \A i \in DOMAIN wire[d] : i \in Nat
  <2>1. wire' = [wire EXCEPT ![c] = r] /\ r \in Seq(Calls)
    BY <1>1, <1>2, <1>5
  <2>2. \A d \in Clients : \A i \in DOMAIN wire[d] : i \in Nat
    BY DEF IInv, TypeOK
  <2> HIDE DEF q
  <2> QED
    BY <2>1, <2>2 DEF IInv, TypeOK
<1> DEFINE shift == [d \in Clients |-> IF d = c THEN 1 ELSE 0]
<1>7. shift \in [Clients -> {0, 1}]
  OBVIOUS
<1>8. \A d \in Clients : \A i \in DOMAIN wire'[d] :
        i \in Nat /\ i + shift[d] \in DOMAIN wire[d] /\ wire'[d][i] = wire[d][i + shift[d]]
  <2>1. \A i \in DOMAIN r : i \in Nat /\ i + 1 \in DOMAIN wire[c] /\ r[i] = wire[c][i + 1]
    BY <1>2, <1>5
  <2> QED
    BY <1>6, <2>1
<1>9. 1 \in DOMAIN wire[c] /\ wire[c][1] = k
  BY <1>2, <1>3
<1> HIDE DEF q, shift
<1>10. /\ WireInv'
       /\ \A d \in Clients : \A i \in DOMAIN wire'[d] :
            \E j \in DOMAIN wire[d] : wire[d][j] = wire'[d][i]
  BY <1>1, <1>7, <1>8, WireShrinks DEF IInv
\* The head was on this wire once.
<1>11. \A d \in Clients : \A i \in DOMAIN wire'[d] : wire'[d][i] # k
  <2> SUFFICES ASSUME NEW d \in Clients, NEW i \in DOMAIN wire'[d], wire'[d][i] = k
               PROVE  FALSE
    OBVIOUS
  <2>1. i \in Nat /\ i + shift[d] \in DOMAIN wire[d] /\ wire[d][i + shift[d]] = wire[c][1]
    BY <1>8, <1>9
  <2>2. d = c /\ i + shift[d] = 1
    BY <1>9, <2>1 DEF IInv, WireInv
  <2>3. shift[c] = 1 /\ i = 0
    BY <2>1, <2>2 DEF shift
  <2>4. 0 \notin DOMAIN r
    BY <1>2, <1>5
  <2> QED
    BY <1>6, <2>2, <2>3, <2>4
<1>12. k \notin accepted /\ executed[k] = 0 /\ client[k] = c
  BY <1>9 DEF IInv, OnceInv, WireInv
<1>13. CASE token[c] = live
  <2>1. accepted' = accepted \union {k} /\ UNCHANGED future
    BY <1>4, <1>13
  <2>2. TypeOK'
    BY <1>1, <1>6, <2>1 DEF IInv, TypeOK
  <2>3. OnceInv'
    BY <1>1, <1>10, <1>11, <1>12, <2>1 DEF IInv, OnceInv
  <2>4. \A j \in Calls \ {k} : Nowhere(j) => Nowhere(j)'
    BY <1>1, <1>10, <2>1 DEF Nowhere
  <2>5. ~Nowhere(k)
    BY <1>9 DEF Nowhere
  <2>6. AttemptInv'
    BY <1>1, <2>1, <2>4, <2>5 DEF IInv, AttemptInv
  <2>7. SteadyInv'
    BY <1>1, <2>1 DEF IInv, SteadyInv
  <2> QED
    BY <1>10, <2>2, <2>3, <2>6, <2>7 DEF IInv
<1>14. CASE token[c] # live
  <2>1. Answers(k, c, "AUTH") /\ UNCHANGED accepted
    BY <1>4, <1>14
  <2>2. /\ future' \in [Calls -> {"none", "pending", "ok", "AUTH", "CONNECTION_LOST"}]
        /\ \A j \in Calls \ {k} : future'[j] = future[j]
        /\ future'[k] # future[k] => future'[k] = "AUTH" /\ pc[k] = "flight" /\ client[k] = c
    BY <2>1 DEF Answers, Waits, IInv, TypeOK
  <2>3. TypeOK'
    BY <1>1, <1>6, <2>1, <2>2 DEF IInv, TypeOK
  <2>4. OnceInv' /\ \A j \in Calls : Nowhere(j) => Nowhere(j)'
    BY <1>1, <1>10, <2>1, FewerFrames DEF IInv
  <2>5. Nowhere(k)'
    BY <1>1, <1>11, <1>12, <2>1 DEF Nowhere
  <2>6. AttemptInv'
    BY <1>1, <2>2, <2>4, <2>5 DEF IInv, AttemptInv
  \* A second attempt of a steady call is not refused: its client has the
  \* live token.
  <2>7. SteadyInv'
    <3>1. k \in steady /\ k \in retried /\ pc[k] = "flight" => token[client[k]] = live
      BY DEF IInv, SteadyInv
    <3> QED
      BY <1>1, <1>12, <1>14, <2>2, <3>1 DEF IInv, TypeOK, SteadyInv
  <2> QED
    BY <1>10, <2>3, <2>4, <2>6, <2>7 DEF IInv
<1> QED
  BY <1>13, <1>14

LEMMA ExecutesIInv ==
  ASSUME IInv, NEW k \in Calls, Executes(k)
  PROVE  IInv'
<1>1. /\ k \in accepted /\ accepted' = accepted \ {k}
      /\ Answers(k, client[k], "ok")
      /\ UNCHANGED <<running, live, file, stops, bl, token, up, wire, pc, client,
                     retried, steady, deaths>>
  BY DEF Executes, addon
<1>2. executed[k] = 0 /\ ~Nowhere(k)
  BY <1>1 DEF IInv, OnceInv, Nowhere
<1>3. executed' = [executed EXCEPT ![k] = 1]
  <2>1. executed[k] + 1 = 1
    BY <1>2
  <2> QED
    BY <2>1 DEF Executes
<1>4. \A c \in Clients : \A i \in DOMAIN wire[c] : wire[c][i] \in Calls \ {k}
  BY <1>1 DEF IInv, TypeOK, OnceInv
<1>5. /\ future' \in [Calls -> {"none", "pending", "ok", "AUTH", "CONNECTION_LOST"}]
      /\ \A j \in Calls \ {k} : future'[j] = future[j]
      /\ future'[k] # future[k] => future'[k] = "ok"
      /\ pc[k] = "flight" => future'[k] # "pending"
  \* A call that waits does so on an open socket, and is answered.
  BY <1>1 DEF Answers, Waits, IInv, TypeOK, AttemptInv
<1>6. TypeOK'
  <2>1. executed' \in [Calls -> 0 .. 2]
    BY <1>3 DEF IInv, TypeOK
  <2>2. accepted' \in SUBSET Calls
    BY <1>1 DEF IInv, TypeOK
  <2> QED
    BY <1>1, <1>5, <2>1, <2>2 DEF IInv, TypeOK
<1>7. WireInv'
  BY <1>1 DEF IInv, WireInv
<1>8. OnceInv'
  BY <1>1, <1>3, <1>4 DEF IInv, TypeOK, OnceInv
<1>9. \A j \in Calls \ {k} : Nowhere(j) => Nowhere(j)'
  BY <1>1, <1>3 DEF IInv, TypeOK, Nowhere
<1>10. AttemptInv'
  <2>1. executed'[k] = 1 /\ \A j \in Calls \ {k} : executed'[j] = executed[j]
    BY <1>3 DEF IInv, TypeOK
  <2>2. pc[k] \notin {"idle", "connect", "closing", "AUTH"} /\ ~(pc[k] = "flight" /\ future[k] = "AUTH")
    BY <1>2 DEF IInv, AttemptInv
  <2> QED
    BY <1>1, <1>2, <1>5, <1>9, <2>1, <2>2 DEF IInv, AttemptInv
<1>11. SteadyInv'
  BY <1>1, <1>5 DEF IInv, TypeOK, SteadyInv
<1> QED
  BY <1>6, <1>7, <1>8, <1>10, <1>11 DEF IInv

\* "Regenerate Token", and start(): a rotation ends every steady period, and
\* during one the server runs.
LEMMA AddonIInv ==
  ASSUME IInv, Regenerates \/ Starts
  PROVE  IInv'
<1>1. /\ live' \in Tokens /\ file' \in {0} \union Tokens /\ running' \in BOOLEAN
      /\ steady' \subseteq steady
      /\ UNCHANGED <<stops, bl, token, up, wire, accepted, executed, pc, client, retried,
                     future, deaths>>
  <2>1. CASE Regenerates
    <3>1. live \in 1 .. MaxToken /\ live < MaxToken /\ live' = live + 1
      BY <2>1 DEF Regenerates, IInv, TypeOK, Tokens
    <3>2. live' \in Tokens
      BY <3>1, ReauthAssumption DEF Tokens
    <3> QED
      BY <2>1, <3>2 DEF Regenerates, calls, IInv, TypeOK
  <2>2. CASE Starts
    BY <2>2 DEF Starts, calls, IInv, TypeOK
  <2> QED
    BY <2>1, <2>2
<1>2. TypeOK'
  BY <1>1 DEF IInv, TypeOK
<1>3. WireInv' /\ OnceInv' /\ AttemptInv'
  BY <1>1 DEF IInv, WireInv, OnceInv, AttemptInv, Nowhere
<1>4. steady' = {}
  BY DEF Regenerates, Starts, IInv, SteadyInv
<1>5. SteadyInv'
  BY <1>4 DEF SteadyInv
<1> QED
  BY <1>2, <1>3, <1>5 DEF IInv

LEMMA StopsIInv ==
  ASSUME IInv, Stops
  PROVE  IInv'
<1>1. /\ running' = FALSE /\ file' = 0 /\ stops < MaxStops /\ stops' = stops + 1 /\ up' = {}
      /\ wire' = [c \in Clients |-> <<>>]
      /\ accepted' \subseteq accepted
      /\ LosesCalls(Clients)
      /\ steady' = {}
      /\ UNCHANGED <<live, bl, token, executed, pc, client, retried, deaths>>
  BY DEF Stops
<1>2. /\ wire' \in [Clients -> Seq(Calls)]
      /\ \A c \in Clients : DOMAIN wire'[c] = {}
  BY <1>1
<1>3. /\ future' \in [Calls -> {"none", "pending", "ok", "AUTH", "CONNECTION_LOST"}]
      /\ \A j \in Calls :
           \/ future'[j] = future[j]
           \/ future[j] = "pending" /\ future'[j] = "CONNECTION_LOST"
      /\ \A j \in Calls :
           pc[j] = "flight" /\ future'[j] = "pending" => client[j] \notin Clients
  BY <1>1, LosesLemma
<1>4. TypeOK'
  <2>1. stops' \in 0 .. MaxStops
    BY <1>1, ReauthAssumption DEF IInv, TypeOK
  <2> QED
    BY <1>1, <1>2, <1>3, <2>1 DEF IInv, TypeOK
<1>5. WireInv'
  BY <1>2 DEF WireInv
<1>6. OnceInv' /\ \A j \in Calls : Nowhere(j) => Nowhere(j)'
  BY <1>1, <1>2, FewerFrames DEF IInv
<1>7. AttemptInv'
  BY <1>1, <1>3, <1>6 DEF IInv, TypeOK, AttemptInv
<1>8. SteadyInv'
  BY <1>1 DEF SteadyInv
<1> QED
  BY <1>4, <1>5, <1>6, <1>7, <1>8 DEF IInv

LEMMA SocketDiesIInv ==
  ASSUME IInv, NEW c \in Clients, SocketDies(c)
  PROVE  IInv'
<1>1. /\ deaths < MaxDeaths /\ deaths' = deaths + 1
      /\ up' = up \ {c} /\ LosesCalls({c})
      /\ UNCHANGED <<running, live, file, stops, bl, token, accepted, executed, pc, client,
                     retried, steady>>
  BY DEF SocketDies, addon
<1>2. PICK n \in 0 .. Len(wire[c]) : wire' = [wire EXCEPT ![c] = SubSeq(wire[c], 1, n)]
  BY DEF SocketDies
<1>3. PICK r : r = SubSeq(wire[c], 1, n)
  OBVIOUS
<1>4. /\ r \in Seq(Calls)
      /\ \A i \in DOMAIN r : i \in Nat /\ i \in DOMAIN wire[c] /\ r[i] = wire[c][i]
  <2>1. wire[c] \in Seq(Calls) /\ Len(wire[c]) \in Nat /\ DOMAIN wire[c] = 1 .. Len(wire[c])
    BY DEF IInv, TypeOK
  <2>2. DOMAIN r = 1 .. n /\ \A i \in 1 .. n : r[i] = wire[c][i]
    BY <1>3, <2>1
  <2>3. r \in Seq(Calls)
    BY <1>3, <2>1
  <2> QED
    BY <2>1, <2>2, <2>3
<1>5. /\ wire' \in [Clients -> Seq(Calls)] /\ wire'[c] = r
      /\ \A d \in Clients \ {c} : wire'[d] = wire[d]
  BY <1>2, <1>3, <1>4 DEF IInv, TypeOK
<1> DEFINE shift == [d \in Clients |-> 0]
<1>6. shift \in [Clients -> {0, 1}]
  OBVIOUS
<1>7. \A d \in Clients : \A i \in DOMAIN wire'[d] :
        i \in Nat /\ i + shift[d] \in DOMAIN wire[d] /\ wire'[d][i] = wire[d][i + shift[d]]
  <2>1. \A d \in Clients : \A i \in DOMAIN wire'[d] :
          i \in Nat /\ i \in DOMAIN wire[d] /\ wire'[d][i] = wire[d][i]
    <3>1. \A d \in Clients : \A i \in DOMAIN wire[d] : i \in Nat
      BY DEF IInv, TypeOK
    <3> QED
      BY <1>4, <1>5, <3>1
  <2> QED
    BY <2>1
<1> HIDE DEF shift
<1>8. /\ WireInv'
      /\ \A d \in Clients : \A i \in DOMAIN wire'[d] :
           \E j \in DOMAIN wire[d] : wire[d][j] = wire'[d][i]
  BY <1>1, <1>6, <1>7, WireShrinks DEF IInv
<1>9. OnceInv' /\ \A j \in Calls : Nowhere(j) => Nowhere(j)'
  BY <1>1, <1>8, FewerFrames DEF IInv
<1>10. /\ future' \in [Calls -> {"none", "pending", "ok", "AUTH", "CONNECTION_LOST"}]
       /\ \A j \in Calls :
            \/ future'[j] = future[j]
            \/ future[j] = "pending" /\ future'[j] = "CONNECTION_LOST"
       /\ \A j \in Calls :
            pc[j] = "flight" /\ future'[j] = "pending" => client[j] # c
  BY <1>1, LosesLemma
<1>11. TypeOK'
  <2>1. deaths' \in 0 .. MaxDeaths
    BY <1>1, ReauthAssumption DEF IInv, TypeOK
  <2> QED
    BY <1>1, <1>5, <1>10, <2>1 DEF IInv, TypeOK
<1>12. AttemptInv'
  BY <1>1, <1>9, <1>10 DEF IInv, TypeOK, AttemptInv
<1>13. SteadyInv'
  BY <1>1, <1>10 DEF IInv, TypeOK, SteadyInv
<1> QED
  BY <1>8, <1>9, <1>11, <1>12, <1>13 DEF IInv

LEMMA NextIInv == IInv /\ [Next]_vars => IInv'
<1> SUFFICES ASSUME IInv, [Next]_vars PROVE IInv'
  OBVIOUS
<1>1. CASE Next
  BY <1>1, BeginIInv, DialsIInv, EndsIInv, ResetsIInv, RetriesIInv, AuthenticatesIInv,
     ExecutesIInv, AddonIInv, StopsIInv, SocketDiesIInv DEF Next
<1>2. CASE UNCHANGED vars
  BY <1>2 DEF vars, addon, calls, IInv, TypeOK, WireInv, OnceInv, AttemptInv, SteadyInv,
              Nowhere
<1> QED
  BY <1>1, <1>2

LEMMA InvariantIInv == Spec => []IInv
BY InitIInv, NextIInv, PTL DEF Spec

-----------------------------------------------------------------------------
\* Type correctness of the clients, the wires, the calls and the add-on.
THEOREM TypeCorrect == Spec => []TypeOK
<1>1. IInv => TypeOK
  BY DEF IInv
<1> QED
  BY <1>1, InvariantIInv, PTL

\* server.py, _call: sending a command again after AUTH never runs it twice,
\* and what the caller is told agrees with what Blender did, for any number
\* of calls, clients, rotations, restarts and lost sockets.
THEOREM SafeRetry == Spec => []RetryIsSafe
<1>1. IInv => RetryIsSafe
  BY DEF IInv, OnceInv, AttemptInv, Nowhere, RetryIsSafe
<1> QED
  BY <1>1, InvariantIInv, PTL

\* server.py, _reset_client_for_reauth and _resolve_credentials: one retry is
\* enough; AUTH reaches the caller only when the connection file was not up to
\* date during the call.
THEOREM AuthNeedsStaleFile == Spec => []AuthMeansStaleFile
<1>1. IInv => AuthMeansStaleFile
  BY DEF IInv, SteadyInv, AuthMeansStaleFile
<1> QED
  BY <1>1, InvariantIInv, PTL
-----------------------------------------------------------------------------
(* The caller's view.                                                       *)

Ends == {"ok", "AUTH", "CONNECTION_LOST", "TIMEOUT"}

\* A call that has been told nothing, nor is now.
LEMMA TellsNothing ==
  ASSUME IInv, NEW k \in Calls, pc[k] \notin Ends, NEW state, state \notin Ends,
         pc' = [pc EXCEPT ![k] = state]
  PROVE  Told' = Told
  BY DEF IInv, TypeOK, Told, Ends

\* A call is told what its future holds.
LEMMA Tells ==
  ASSUME IInv, NEW k \in Calls, pc[k] = "flight", NEW code \in Ends,
         pc' = [pc EXCEPT ![k] = code], UNCHANGED executed,
         code = "ok" => executed[k] = 1, code = "AUTH" => executed[k] = 0
  PROVE  Caller!Tell(k)
<1>1. Told[k] = "none" /\ Told' = [Told EXCEPT ![k] = code]
  BY DEF IInv, TypeOK, Told, Ends
<1> QED BY <1>1 DEF Caller!Tell, Caller!Unknown, Ends

LEMMA StepSimulates == IInv /\ [Next]_vars => [Caller!CallNext]_(Caller!callVars)
<1> SUFFICES ASSUME IInv, [Next]_vars
             PROVE  Caller!CallNext \/ UNCHANGED <<executed, Told>>
  BY DEF Caller!callVars
<1>1. CASE UNCHANGED <<pc, executed>>
  BY <1>1 DEF Told
<1>2. CASE Regenerates \/ Stops \/ Starts \/ UNCHANGED vars
  BY <1>1, <1>2 DEF Regenerates, Stops, Starts, vars, calls
<1>3. ASSUME NEW c \in Clients, Authenticates(c) \/ SocketDies(c)
      PROVE  UNCHANGED <<executed, Told>>
  BY <1>3 DEF Authenticates, SocketDies, Told
<1>4. ASSUME NEW k \in Calls, Begin(k) \/ Dials(k) \/ Resets(k) \/ Retries(k)
      PROVE  UNCHANGED <<executed, Told>>
  <2>1. pc[k] \notin Ends /\ UNCHANGED executed
    BY <1>4 DEF Begin, Dials, Resets, Retries, Ends
  <2>2. PICK state \in {"connect", "flight", "closing"} : pc' = [pc EXCEPT ![k] = state]
    BY <1>4 DEF Begin, Dials, Resets, Retries, Issues
  <2>3. state \notin Ends
    BY DEF Ends
  <2> QED BY <2>1, <2>2, <2>3, TellsNothing
<1>5. ASSUME NEW k \in Calls, Finishes(k) PROVE Caller!Tell(k)
  <2>1. /\ pc[k] = "flight" /\ future[k] # "pending" /\ pc' = [pc EXCEPT ![k] = future[k]]
        /\ UNCHANGED executed
    BY <1>5 DEF Finishes, Answered
  <2>2. future[k] # "none" /\ future[k] \in {"none", "pending", "ok", "AUTH", "CONNECTION_LOST"}
    BY <2>1 DEF IInv, TypeOK, AttemptInv
  <2>3. (future[k] = "ok" => executed[k] = 1) /\ (future[k] = "AUTH" => executed[k] = 0)
    BY <2>1 DEF IInv, AttemptInv, Nowhere
  <2>4. future[k] \in Ends
    BY <2>1, <2>2 DEF Ends
  <2> QED BY <2>1, <2>3, <2>4, Tells
<1>6. ASSUME NEW k \in Calls, TimesOut(k) PROVE Caller!Tell(k)
  <2>1. pc[k] = "flight" /\ pc' = [pc EXCEPT ![k] = "TIMEOUT"] /\ UNCHANGED executed
    BY <1>6 DEF TimesOut
  <2> QED BY <2>1, Tells DEF Ends
<1>7. ASSUME NEW k \in Calls, Executes(k) PROVE Caller!Run(k)
  <2>1. k \in accepted /\ executed' = [executed EXCEPT ![k] = @ + 1] /\ UNCHANGED pc
    BY <1>7 DEF Executes
  <2>2. executed[k] = 0 /\ pc[k] # "AUTH"
    BY <2>1 DEF IInv, OnceInv, AttemptInv, Nowhere
  <2>3. executed' = [executed EXCEPT ![k] = 1] /\ Told' = Told /\ Told[k] # "AUTH"
    BY <2>1, <2>2 DEF IInv, TypeOK, Told
  <2> QED BY <2>2, <2>3 DEF Caller!Run
<1> QED BY <1>2, <1>3, <1>4, <1>5, <1>6, <1>7 DEF Next, Caller!CallNext

\* server.py, _call: to the tool that made it, a call is one that Blender
\* runs at most once and that tells the truth; whatever clients, tokens and
\* sockets come and go underneath (Reauthentication!ImplementsCaller).
THEOREM CallsImplementService == Spec => ImplementsCaller
<1>1. Init => Caller!CallInit
  BY DEF Init, Caller!CallInit, Told
<1> QED
  BY <1>1, InvariantIInv, StepSimulates, PTL DEF Spec, ImplementsCaller, Caller!CallSpec
=============================================================================
