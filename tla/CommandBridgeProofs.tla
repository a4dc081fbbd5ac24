------------------------ MODULE CommandBridgeProofs ------------------------
(***************************************************************************)
(* Theorems about CommandBridge, for any number of connections, commands   *)
(* and restarts and any limits: type correctness, the slot bookkeeping,    *)
(* the ledger of commands, the bound on the awaited part of the inbox, the *)
(* audit log, the action property NoAnswerAcrossRestart, and that          *)
(* CommandBridge implements CommandService.                                *)
(*                                                                         *)
(* They follow from IInv, the conjunction of the invariants that the runs  *)
(* check, which is inductive as it stands; the audit log needs AuditInv    *)
(* besides.  Each conjunct of IInv has its own step lemma, with one step   *)
(* per action.                                                             *)
(***************************************************************************)
EXTENDS CommandBridge, FunctionTheorems, FiniteSetTheorems, TLAPS

USE BridgeAssumption

IInv == TypeOK /\ SlotAccounting /\ CommandLedger

-----------------------------------------------------------------------------
\* What every handler action reads of the environment's choice.
LEMMA InboxTail ==
  ASSUME NEW S, NEW s \in Seq(S), s # <<>>
  PROVE  /\ Head(s) \in S
         /\ Tail(s) \in Seq(S)
         /\ Len(Tail(s)) = Len(s) - 1
         /\ \A i \in DOMAIN Tail(s) : i + 1 \in DOMAIN s /\ Tail(s)[i] = s[i + 1]
  OBVIOUS

\* Every state reachable in one step from a state of IInv has its types.
LEMMA TypeStep == IInv /\ [Next]_vars => TypeOK'
<1> SUFFICES ASSUME IInv, [Next]_vars PROVE TypeOK'
  OBVIOUS
<1> USE DEF IInv, TypeOK, Refusals, Outcomes, Answers, loopVars, lifeVars, pumpVars, cmdVars,
            workVars
<1>1. CASE Start BY <1>1 DEF Start
<1>2. CASE LoopStarts BY <1>2 DEF LoopStarts
<1>3. CASE StopBegins BY <1>3 DEF StopBegins
<1>4. CASE StopJoins BY <1>4 DEF StopJoins
<1>5. CASE StopDrains BY <1>5, InboxTail DEF StopDrains
<1>6. ASSUME NEW c \in Conns, Connect(c) PROVE TypeOK' BY <1>6 DEF Connect
<1>7. ASSUME NEW c \in Conns, SocketCloses(c) PROVE TypeOK' BY <1>7 DEF SocketCloses
<1>8. ASSUME NEW c \in Conns, NEW r \in Requests, RefuseFrame(c, r) PROVE TypeOK'
  BY <1>8 DEF RefuseFrame, Reads
<1>9. ASSUME NEW c \in Conns, NEW r \in Requests, Submit(c, r) PROVE TypeOK'
  BY <1>9 DEF Submit, Reads, Awaits
<1>10. ASSUME NEW r \in Requests, RunCallback(r) PROVE TypeOK'
  BY <1>10 DEF RunCallback, FutureOf
<1>11. ASSUME NEW c \in Conns, Wake(c) PROVE TypeOK' BY <1>11 DEF Wake
<1>12. ASSUME NEW c \in Conns, TimeOut(c) PROVE TypeOK' BY <1>12 DEF TimeOut
<1>13. ASSUME NEW c \in Conns, SendReply(c) PROVE TypeOK' BY <1>13 DEF SendReply
<1>14. ASSUME NEW c \in Conns, GivesBack(c) PROVE TypeOK'
  <2>1. c \in clients /\ IsFiniteSet(clients)
    BY <1>14, FS_Subset DEF GivesBack, SlotAccounting
  <2>2. count \in Nat /\ count = Cardinality(clients)
    BY DEF SlotAccounting
  <2>3. Cardinality(clients) # 0
    BY ONLY <2>1, FS_EmptySet
  <2>4. count - 1 \in Nat
    BY ONLY <2>2, <2>3
  <2> QED BY <1>14, <2>4 DEF GivesBack, ReturnsSlot
<1>15. CASE Tick BY <1>15 DEF Tick
<1>16. CASE PumpTakes BY <1>16, InboxTail DEF PumpTakes
<1>17. CASE PumpYields BY <1>17 DEF PumpYields
<1>18. CASE Dispatch BY <1>18 DEF Dispatch
<1>19. CASE Resolve
  <2>1. exec \in Requests
    BY <1>19 DEF Resolve, CommandLedger, QueueIsFresh
  <2> QED BY <1>19, <2>1 DEF Resolve, TickFails, Logs, CommandLedger, QueueIsFresh
<1>20. CASE UNCHANGED vars BY <1>20 DEF vars
<1> QED
  BY <1>1, <1>2, <1>3, <1>4, <1>5, <1>6, <1>7, <1>8, <1>9, <1>10, <1>11, <1>12, <1>13, <1>14,
     <1>15, <1>16, <1>17, <1>18, <1>19, <1>20
  DEF Next, Lifecycle, Pump, HandlerStep, HandlerExits, HandlerRaises

-----------------------------------------------------------------------------
\* A slot is taken by Connect and given back by GivesBack, and by nothing else.
LEMMA SlotStep == IInv /\ [Next]_vars => SlotAccounting'
<1> SUFFICES ASSUME IInv, [Next]_vars PROVE SlotAccounting'
  OBVIOUS
<1> USE DEF loopVars
<1>0. TypeOK /\ SlotAccounting BY DEF IInv
<1>1. IsFiniteSet(clients) BY <1>0, FS_Subset DEF TypeOK
<1>2. CASE /\ UNCHANGED <<clients, count>>
           /\ \A c \in Conns : handler'[c] = "absent" <=> handler[c] = "absent"
  BY <1>0, <1>2 DEF SlotAccounting
<1>3. CASE Start \/ LoopStarts \/ StopBegins \/ StopDrains \/ Pump \/ UNCHANGED vars
  BY <1>2, <1>3 DEF Start, LoopStarts, StopBegins, StopDrains, Pump, Tick, PumpTakes,
                    PumpYields, Dispatch, Resolve, vars
<1>4. CASE StopJoins BY <1>2, <1>4 DEF StopJoins
<1>5. ASSUME NEW c \in Conns, Connect(c) PROVE SlotAccounting'
  <2>1. c \notin clients BY <1>0, <1>5 DEF Connect, SlotAccounting
  <2>2. Cardinality(clients \union {c}) = Cardinality(clients) + 1
    BY ONLY <1>1, <2>1, FS_AddElement
  <2>3. clients' = {d \in Conns : handler'[d] # "absent"}
    BY <1>0, <1>5 DEF Connect, SlotAccounting, TypeOK
  <2> QED BY <1>0, <1>5, <2>2, <2>3 DEF Connect, SlotAccounting, TypeOK
<1>6. ASSUME NEW c \in Conns, GivesBack(c) PROVE SlotAccounting'
  <2>1. c \in clients BY <1>0, <1>6 DEF GivesBack, SlotAccounting
  <2>2. Cardinality(clients \ {c}) = Cardinality(clients) - 1
    BY ONLY <1>1, <2>1, FS_RemoveElement
  <2>3. clients' = {d \in Conns : handler'[d] # "absent"}
    BY <1>0, <1>6 DEF GivesBack, ReturnsSlot, SlotAccounting, TypeOK
  <2> QED BY <1>0, <1>6, <2>2, <2>3 DEF GivesBack, ReturnsSlot, SlotAccounting, TypeOK
<1>7. ASSUME NEW c \in Conns, SocketCloses(c) PROVE SlotAccounting'
  BY <1>2, <1>7 DEF SocketCloses
<1>8. ASSUME NEW c \in Conns, NEW r \in Requests, RefuseFrame(c, r) \/ Submit(c, r)
      PROVE SlotAccounting'
  BY <1>0, <1>2, <1>8 DEF RefuseFrame, Submit, Reads, Awaits, TypeOK
<1>9. ASSUME NEW r \in Requests, RunCallback(r) PROVE SlotAccounting'
  BY <1>2, <1>9 DEF RunCallback
<1>10. ASSUME NEW c \in Conns, Wake(c) \/ TimeOut(c) \/ SendReply(c) PROVE SlotAccounting'
  BY <1>0, <1>2, <1>10 DEF Wake, TimeOut, SendReply, TypeOK
<1> QED
  BY <1>3, <1>4, <1>5, <1>6, <1>7, <1>8, <1>9, <1>10
  DEF Next, Lifecycle, HandlerStep, HandlerExits, HandlerRaises

-----------------------------------------------------------------------------
\* A pending future keeps its handler until it is resolved or cancelled; stop()
\* strands the handler, but does not detach it from the future.
LEMMA PendingStep == IInv /\ [Next]_vars => PendingIsAwaited'
<1> SUFFICES ASSUME IInv, [Next]_vars PROVE PendingIsAwaited'
  OBVIOUS
<1> USE DEF loopVars
<1>0. TypeOK /\ PendingIsAwaited /\ HandlersAreHonest BY DEF IInv, CommandLedger
<1>1. CASE /\ UNCHANGED <<cur, future>>
           /\ \A c \in Conns : handler[c] \in {"waiting", "leaked"} =>
                               handler'[c] \in {"waiting", "leaked"}
  BY <1>0, <1>1 DEF PendingIsAwaited
<1>2. CASE Start \/ LoopStarts \/ StopBegins \/ StopDrains \/ Pump \/ UNCHANGED vars
  BY <1>1, <1>2 DEF Start, LoopStarts, StopBegins, StopDrains, Pump, Tick, PumpTakes,
                    PumpYields, Dispatch, Resolve, vars
<1>3. CASE StopJoins BY <1>0, <1>1, <1>3 DEF StopJoins, TypeOK
<1>4. ASSUME NEW c \in Conns, Connect(c) PROVE PendingIsAwaited'
  BY <1>0, <1>1, <1>4 DEF Connect, TypeOK
<1>5. ASSUME NEW c \in Conns, SocketCloses(c) PROVE PendingIsAwaited'
  BY <1>1, <1>5 DEF SocketCloses
<1>6. ASSUME NEW c \in Conns, NEW r \in Requests, RefuseFrame(c, r) PROVE PendingIsAwaited'
  BY <1>0, <1>6 DEF RefuseFrame, Reads, PendingIsAwaited, TypeOK
<1>7. ASSUME NEW c \in Conns, NEW r \in Requests, Submit(c, r) PROVE PendingIsAwaited'
  BY <1>0, <1>7 DEF Submit, Reads, Awaits, PendingIsAwaited, TypeOK
<1>8. ASSUME NEW r \in Requests, RunCallback(r) PROVE PendingIsAwaited'
  BY <1>0, <1>8 DEF RunCallback, FutureOf, PendingIsAwaited, TypeOK
<1>9. ASSUME NEW c \in Conns, Wake(c) PROVE PendingIsAwaited'
  BY <1>0, <1>9 DEF Wake, PendingIsAwaited, TypeOK, Outcomes
<1>10. ASSUME NEW c \in Conns, TimeOut(c) PROVE PendingIsAwaited'
  BY <1>0, <1>10 DEF TimeOut, PendingIsAwaited, HandlersAreHonest, TypeOK
<1>11. ASSUME NEW c \in Conns, SendReply(c) \/ GivesBack(c) PROVE PendingIsAwaited'
  <2>1. /\ handler[c] \in {"reading", "replying"} /\ UNCHANGED future
        /\ \A d \in Conns \ {c} : handler'[d] = handler[d] /\ cur'[d] = cur[d]
    BY <1>0, <1>11 DEF SendReply, GivesBack, TypeOK
  <2> QED BY <1>0, <2>1 DEF PendingIsAwaited
<1> QED
  BY <1>2, <1>3, <1>4, <1>5, <1>6, <1>7, <1>8, <1>9, <1>10, <1>11
  DEF Next, Lifecycle, HandlerStep, HandlerExits, HandlerRaises

\* The loop is ended by StopJoins only, which strands every handler; a new
\* thread starts without any.
LEMMA LoopStep == IInv /\ [Next]_vars => NoHandlerWithoutLoop'
<1> SUFFICES ASSUME IInv, [Next]_vars PROVE NoHandlerWithoutLoop'
  OBVIOUS
<1> USE DEF loopVars, lifeVars, LoopRuns
<1>0. TypeOK /\ NoHandlerWithoutLoop BY DEF IInv, CommandLedger
<1>1. CASE Start \/ LoopStarts \/ StopBegins \/ StopJoins \/ StopDrains \/ Pump \/ UNCHANGED vars
  BY <1>0, <1>1 DEF NoHandlerWithoutLoop, TypeOK, Start, LoopStarts, StopBegins, StopJoins,
                    StopDrains, Pump, Tick, PumpTakes, PumpYields, Dispatch, Resolve, vars
<1>2. ASSUME NEW c \in Conns, Connect(c) \/ SocketCloses(c) PROVE NoHandlerWithoutLoop'
  BY <1>0, <1>2 DEF NoHandlerWithoutLoop, Connect, SocketCloses
<1>3. ASSUME NEW r \in Requests, RunCallback(r) PROVE NoHandlerWithoutLoop'
  BY <1>0, <1>3 DEF NoHandlerWithoutLoop, RunCallback
<1>4. ASSUME NEW c \in Conns, HandlerStep(c) PROVE NoHandlerWithoutLoop'
  BY <1>4 DEF NoHandlerWithoutLoop, HandlerStep, RefuseFrame, Submit, Reads, Wake, TimeOut,
              SendReply, HandlerExits, HandlerRaises, GivesBack
<1> QED BY <1>1, <1>2, <1>3, <1>4 DEF Next, Lifecycle

\* What leaves the queue is what the pump dispatches, once.
LEMMA QueueStep == IInv /\ [Next]_vars => QueueIsFresh'
<1> SUFFICES ASSUME IInv, [Next]_vars PROVE QueueIsFresh'
  OBVIOUS
<1> USE DEF loopVars, lifeVars, pumpVars, cmdVars, workVars, Outcomes
<1>0. TypeOK /\ QueueIsFresh /\ ResultsAreTrue BY DEF IInv, CommandLedger
<1>1. CASE UNCHANGED <<main, exec, inbox, verdict, outcome>>
  BY <1>0, <1>1 DEF QueueIsFresh
<1>2. CASE UNCHANGED <<exec, inbox, verdict, outcome>> /\ main' \notin {"dispatching", "resolving"}
  BY <1>0, <1>2 DEF QueueIsFresh
<1>3. CASE LoopStarts \/ UNCHANGED vars BY <1>1, <1>3 DEF LoopStarts, vars
<1>4. CASE Start \/ StopBegins \/ StopJoins \/ Tick \/ PumpYields
  BY <1>1, <1>2, <1>4 DEF Start, StopBegins, StopJoins, Tick, PumpYields
<1>5. CASE StopDrains
  BY <1>0, <1>5, InboxTail DEF StopDrains, QueueIsFresh, TypeOK
<1>6. ASSUME NEW c \in Conns, Connect(c) \/ SocketCloses(c) PROVE QueueIsFresh'
  BY <1>1, <1>6 DEF Connect, SocketCloses
<1>7. ASSUME NEW c \in Conns, NEW r \in Requests, RefuseFrame(c, r) PROVE QueueIsFresh'
  BY <1>0, <1>7 DEF RefuseFrame, Reads, QueueIsFresh, TypeOK
<1>8. ASSUME NEW c \in Conns, NEW r \in Requests, Submit(c, r) PROVE QueueIsFresh'
  <2>1. \A i \in DOMAIN inbox : inbox[i] # r
    BY <1>0, <1>8 DEF Submit, Reads, QueueIsFresh
  <2>2. outcome[r] = "none"
    BY <1>0, <1>8 DEF Submit, Reads, ResultsAreTrue
  <2>3. /\ DOMAIN inbox' = 1 .. Len(inbox) + 1
        /\ \A i \in DOMAIN inbox : inbox'[i] = inbox[i]
        /\ inbox'[Len(inbox) + 1] = r
    BY <1>0, <1>8 DEF Submit, TypeOK
  <2>4. DOMAIN inbox = 1 .. Len(inbox) /\ Len(inbox) \in Nat
    BY <1>0 DEF TypeOK
  <2>5. /\ UNCHANGED <<main, exec, outcome>>
        /\ verdict' = [verdict EXCEPT ![r] = "submitted"]
        /\ verdict[r] = "unseen"
    BY <1>8 DEF Submit, Reads
  <2>6. \A i \in DOMAIN inbox' : i \in DOMAIN inbox \/ i = Len(inbox) + 1
    BY <2>3, <2>4
  <2>7. \A i, j \in DOMAIN inbox' : inbox'[i] = inbox'[j] => i = j
    BY <1>0, <2>1, <2>3, <2>6 DEF QueueIsFresh
  <2>8. \A i \in DOMAIN inbox' : verdict'[inbox'[i]] = "submitted" /\ outcome'[inbox'[i]] = "none"
    <3>1. \A i \in DOMAIN inbox : inbox[i] \in Requests
      BY <1>0 DEF TypeOK
    <3>2. verdict'[r] = "submitted" /\ \A q \in Requests \ {r} : verdict'[q] = verdict[q]
      BY <1>0, <2>5 DEF TypeOK
    <3>3. ASSUME NEW i \in DOMAIN inbox
          PROVE  verdict'[inbox'[i]] = "submitted" /\ outcome'[inbox'[i]] = "none"
      BY <1>0, <2>1, <2>3, <2>5, <3>1, <3>2 DEF QueueIsFresh
    <3> QED BY <2>2, <2>3, <2>5, <2>6, <3>2, <3>3
  <2>9. main = "dispatching" => \A i \in DOMAIN inbox' : inbox'[i] # exec
    BY <1>0, <2>3, <2>5, <2>6 DEF QueueIsFresh
  <2> QED BY <1>0, <2>5, <2>7, <2>8, <2>9 DEF QueueIsFresh, TypeOK
<1>9. ASSUME NEW r \in Requests, RunCallback(r) PROVE QueueIsFresh'
  BY <1>1, <1>9 DEF RunCallback
<1>10. ASSUME NEW c \in Conns, Wake(c) \/ TimeOut(c) \/ SendReply(c) \/ GivesBack(c)
       PROVE QueueIsFresh'
  BY <1>1, <1>10 DEF Wake, TimeOut, SendReply, GivesBack
<1>11. CASE PumpTakes
  <2>1. DOMAIN inbox = 1 .. Len(inbox) /\ Len(inbox) \in Nat /\ 1 \in DOMAIN inbox
        /\ Head(inbox) = inbox[1]
    BY <1>0, <1>11 DEF PumpTakes, TypeOK
  <2>2. \A i \in DOMAIN inbox' : i + 1 \in DOMAIN inbox /\ inbox'[i] = inbox[i + 1] /\ i \in Nat
                               /\ i + 1 # 1
    BY <1>0, <1>11, InboxTail DEF PumpTakes, TypeOK
  <2>3. exec' = inbox[1] /\ main' = "dispatching" /\ UNCHANGED <<verdict, outcome>>
    BY <1>11, <2>1 DEF PumpTakes
  <2>4. exec' \in Requests /\ verdict'[exec'] = "submitted" /\ outcome'[exec'] = "none"
    BY <1>0, <2>1, <2>3 DEF QueueIsFresh, TypeOK
  <2>5. \A i \in DOMAIN inbox' : inbox'[i] # exec'
    BY <1>0, <2>1, <2>2, <2>3 DEF QueueIsFresh
  <2>6. \A i \in DOMAIN inbox' : verdict'[inbox'[i]] = "submitted" /\ outcome'[inbox'[i]] = "none"
    BY <1>0, <2>2, <2>3 DEF QueueIsFresh
  <2>7. \A i, j \in DOMAIN inbox' : inbox'[i] = inbox'[j] => i = j
    <3> TAKE i, j \in DOMAIN inbox'
    <3> HAVE inbox'[i] = inbox'[j]
    <3>1. i + 1 = j + 1
      BY <1>0, <2>2 DEF QueueIsFresh
    <3> QED BY <2>2, <3>1
  <2> QED BY <2>3, <2>4, <2>5, <2>6, <2>7 DEF QueueIsFresh
<1>12. CASE Dispatch
  BY <1>0, <1>12 DEF Dispatch, QueueIsFresh, TypeOK
<1>13. CASE Resolve
  BY <1>0, <1>13 DEF Resolve, TickFails, Logs, QueueIsFresh, TypeOK
<1> QED
  BY <1>3, <1>4, <1>5, <1>6, <1>7, <1>8, <1>9, <1>10, <1>11, <1>12, <1>13
  DEF Next, Lifecycle, Pump, HandlerStep, HandlerExits, HandlerRaises

\* Results flow from dispatch through call_soon_threadsafe to the future of
\* the same command; wait_for only ever cancels.
LEMMA ResultsStep == IInv /\ [Next]_vars => ResultsAreTrue'
<1> SUFFICES ASSUME IInv, [Next]_vars PROVE ResultsAreTrue'
  OBVIOUS
<1> USE DEF loopVars, lifeVars, pumpVars, cmdVars, workVars, Outcomes
<1>0. TypeOK /\ QueueIsFresh /\ ResultsAreTrue /\ HandlersAreHonest BY DEF IInv, CommandLedger
<1>1. CASE UNCHANGED <<verdict, answer, outcome, future, posted>>
  BY <1>0, <1>1 DEF ResultsAreTrue
<1>2. CASE Start \/ StopBegins \/ StopDrains \/ Tick \/ PumpTakes \/ PumpYields \/ UNCHANGED vars
  BY <1>1, <1>2 DEF Start, StopBegins, StopDrains, Tick, PumpTakes, PumpYields, vars
<1>3. CASE LoopStarts \/ StopJoins
  BY <1>0, <1>3 DEF LoopStarts, StopJoins, ResultsAreTrue
<1>4. ASSUME NEW c \in Conns, Connect(c) \/ SocketCloses(c) \/ Wake(c) \/ GivesBack(c)
      PROVE ResultsAreTrue'
  BY <1>1, <1>4 DEF Connect, SocketCloses, Wake, GivesBack
<1>5. ASSUME NEW c \in Conns, NEW r \in Requests, RefuseFrame(c, r) PROVE ResultsAreTrue'
  BY <1>0, <1>5 DEF RefuseFrame, Reads, ResultsAreTrue, TypeOK, Refusals
<1>6. ASSUME NEW c \in Conns, NEW r \in Requests, Submit(c, r) PROVE ResultsAreTrue'
  BY <1>0, <1>6 DEF Submit, Reads, ResultsAreTrue, TypeOK
<1>7. ASSUME NEW r \in Requests, RunCallback(r) PROVE ResultsAreTrue'
  BY <1>0, <1>7 DEF RunCallback, FutureOf, ResultsAreTrue, TypeOK
<1>8. ASSUME NEW c \in Conns, TimeOut(c) PROVE ResultsAreTrue'
  BY <1>0, <1>8 DEF TimeOut, ResultsAreTrue, TypeOK
<1>9. ASSUME NEW c \in Conns, SendReply(c) PROVE ResultsAreTrue'
  BY <1>0, <1>9 DEF SendReply, ResultsAreTrue, HandlersAreHonest, TypeOK
<1>10. CASE Dispatch
  BY <1>0, <1>10 DEF Dispatch, ResultsAreTrue, QueueIsFresh, TypeOK
<1>11. CASE Resolve
  BY <1>0, <1>11 DEF Resolve, ResultsAreTrue, QueueIsFresh, TypeOK
<1> QED
  BY <1>2, <1>3, <1>4, <1>5, <1>6, <1>7, <1>8, <1>9, <1>10, <1>11
  DEF Next, Lifecycle, Pump, HandlerStep, HandlerExits, HandlerRaises

\* A reply stays true until it is sent: an outcome never changes, and a new
\* session starts only after every handler of the old one is gone.
LEMMA HandlersStep == IInv /\ [Next]_vars => HandlersAreHonest'
<1> SUFFICES ASSUME IInv, [Next]_vars PROVE HandlersAreHonest'
  OBVIOUS
<1> USE DEF loopVars, lifeVars, pumpVars, cmdVars, workVars, Outcomes
<1>0. TypeOK /\ NoHandlerWithoutLoop /\ QueueIsFresh /\ ResultsAreTrue /\ HandlersAreHonest
  BY DEF IInv, CommandLedger
<1>1. CASE UNCHANGED <<handler, cur, hand, answer, verdict, session, outcome, starts>>
  BY <1>0, <1>1 DEF HandlersAreHonest, ReplyIsTrue
<1>2. CASE LoopStarts \/ StopBegins \/ StopDrains \/ Tick \/ PumpTakes \/ PumpYields \/ Resolve
           \/ UNCHANGED vars
  BY <1>1, <1>2 DEF LoopStarts, StopBegins, StopDrains, Tick, PumpTakes, PumpYields, Resolve, vars
<1>3. CASE Start
  BY <1>0, <1>3 DEF Start, HandlersAreHonest, NoHandlerWithoutLoop, LoopRuns
<1>4. CASE StopJoins
  BY <1>0, <1>4 DEF StopJoins, HandlersAreHonest, TypeOK
<1>5. ASSUME NEW c \in Conns, Connect(c) PROVE HandlersAreHonest'
  BY <1>0, <1>5 DEF Connect, HandlersAreHonest, ReplyIsTrue, TypeOK
<1>6. ASSUME NEW c \in Conns, SocketCloses(c) PROVE HandlersAreHonest'
  BY <1>1, <1>6 DEF SocketCloses
<1>7. ASSUME NEW c \in Conns, NEW r \in Requests, RefuseFrame(c, r) PROVE HandlersAreHonest'
  BY <1>0, <1>7 DEF RefuseFrame, Reads, HandlersAreHonest, ResultsAreTrue, ReplyIsTrue, TypeOK,
                    Refusals
<1>8. ASSUME NEW c \in Conns, NEW r \in Requests, Submit(c, r) PROVE HandlersAreHonest'
  BY <1>0, <1>8 DEF Submit, Reads, Awaits, HandlersAreHonest, ResultsAreTrue, ReplyIsTrue, TypeOK
<1>9. ASSUME NEW r \in Requests, RunCallback(r) PROVE HandlersAreHonest'
  BY <1>1, <1>9 DEF RunCallback
<1>10. ASSUME NEW c \in Conns, Wake(c) PROVE HandlersAreHonest'
  BY <1>0, <1>10 DEF Wake, HandlersAreHonest, ResultsAreTrue, ReplyIsTrue, TypeOK
<1>11. ASSUME NEW c \in Conns, TimeOut(c) PROVE HandlersAreHonest'
  BY <1>0, <1>11 DEF TimeOut, HandlersAreHonest, ReplyIsTrue, TypeOK
<1>12. ASSUME NEW c \in Conns, SendReply(c) PROVE HandlersAreHonest'
  BY <1>0, <1>12 DEF SendReply, HandlersAreHonest, ReplyIsTrue, TypeOK
<1>13. ASSUME NEW c \in Conns, GivesBack(c) PROVE HandlersAreHonest'
  BY <1>0, <1>13 DEF GivesBack, HandlersAreHonest, ReplyIsTrue, TypeOK
<1>14. CASE Dispatch
  BY <1>0, <1>14 DEF Dispatch, HandlersAreHonest, QueueIsFresh, ReplyIsTrue, TypeOK
<1> QED
  BY <1>2, <1>3, <1>4, <1>5, <1>6, <1>7, <1>8, <1>9, <1>10, <1>11, <1>12, <1>13, <1>14
  DEF Next, Lifecycle, Pump, HandlerStep, HandlerExits, HandlerRaises

-----------------------------------------------------------------------------
LEMMA InitIInv == Init => IInv
<1> SUFFICES ASSUME Init PROVE IInv
  OBVIOUS
<1>1. TypeOK
  <2>1. inbox \in Seq(Requests)
    BY DEF Init
  <2>2. starts \in Nat /\ count \in Nat /\ session \in [Requests -> Nat]
    BY DEF Init
  <2> QED BY <2>1, <2>2 DEF Init, TypeOK, Answers
<1>2. SlotAccounting
  BY FS_EmptySet DEF Init, SlotAccounting
<1>3. CommandLedger
  BY DEF Init, CommandLedger, PendingIsAwaited, NoHandlerWithoutLoop, QueueIsFresh,
         ResultsAreTrue, HandlersAreHonest, Outcomes
<1> QED BY <1>1, <1>2, <1>3 DEF IInv

\* The inductive invariant holds in every reachable state.
LEMMA Inductive == Spec => []IInv
<1>1. IInv /\ [Next]_vars => IInv'
  BY TypeStep, SlotStep, PendingStep, LoopStep, QueueStep, ResultsStep, HandlersStep
  DEF IInv, CommandLedger
<1> QED BY InitIInv, <1>1, PTL DEF Spec

\* Type correctness.  That _connection_count never goes negative needs
\* SlotAccounting, that only real commands are logged needs the ledger.
THEOREM TypeCorrect == Spec => []TypeOK
<1>1. IInv => TypeOK BY DEF IInv
<1> QED BY Inductive, <1>1, PTL

\* _connection_count and _clients agree with the handlers that have not run
\* their `finally`, and _MAX_CONNECTIONS is respected across restarts.
THEOREM SlotsAccounted == Spec => []SlotAccounting
<1>1. IInv => SlotAccounting BY DEF IInv
<1> QED BY Inductive, <1>1, PTL

\* Handler, future, inbox and pump agree about every command.
THEOREM LedgerKept == Spec => []CommandLedger
<1>1. IInv => CommandLedger BY DEF IInv
<1> QED BY Inductive, <1>1, PTL

-----------------------------------------------------------------------------
\* The awaited entries of the inbox map one to one to connections.
LEMMA BacklogFromInvariant == IInv => LiveBacklogBounded
<1> SUFFICES ASSUME IInv PROVE LiveBacklogBounded
  OBVIOUS
<1> DEFINE f == [i \in LiveBacklog |-> CHOOSE c \in clients : cur[c] = inbox[i]]
<1>0. TypeOK /\ SlotAccounting /\ PendingIsAwaited /\ QueueIsFresh
  BY DEF IInv, CommandLedger
<1>1. IsFiniteSet(clients) BY <1>0, FS_Subset DEF TypeOK
<1>2. \A i \in LiveBacklog : \E c \in clients : cur[c] = inbox[i]
  <2> TAKE i \in LiveBacklog
  <2>1. i \in DOMAIN inbox /\ inbox[i] \in Requests /\ future[inbox[i]] = "pending"
    BY <1>0 DEF LiveBacklog, TypeOK
  <2>2. PICK c \in Conns : handler[c] \in {"waiting", "leaked"} /\ cur[c] = inbox[i]
    BY <1>0, <2>1 DEF PendingIsAwaited
  <2> QED BY <1>0, <2>2 DEF SlotAccounting
<1>3. \A i \in LiveBacklog : f[i] \in clients /\ cur[f[i]] = inbox[i]
  BY <1>2
<1>4. \A i, j \in LiveBacklog : f[i] = f[j] => i = j
  BY <1>0, <1>3 DEF LiveBacklog, QueueIsFresh
<1>5. f \in Injection(LiveBacklog, clients)
  <2>1. f \in [LiveBacklog -> clients] BY <1>3
  <2> HIDE DEF f
  <2> QED BY <1>4, <2>1, Fun_IsInj
<1>6. Cardinality(LiveBacklog) <= Cardinality(clients)
  <2> HIDE DEF f
  <2> QED BY <1>1, <1>5, FS_Injection
<1> QED BY <1>0, <1>6 DEF LiveBacklogBounded, SlotAccounting

\* However long the inbox is, no more of it is still wanted than there are
\* connections: the rest is work whose client was told MAIN_THREAD_TIMEOUT.
THEOREM BacklogBounded == Spec => []LiveBacklogBounded
BY Inductive, BacklogFromInvariant, PTL

-----------------------------------------------------------------------------
\* An outcome reaches a client only in the session that accepted its command.
THEOREM AnswersStayInSession == Spec => NoAnswerAcrossRestart
<1> DEFINE A == \A r \in Requests :
                  answer[r] = "none" /\ answer'[r] \in Outcomes => session[r] = starts
<1>1. IInv /\ [Next]_vars => [A]_vars
  <2> SUFFICES ASSUME IInv, Next, NEW r \in Requests, answer[r] = "none",
                      answer'[r] \in Outcomes
               PROVE  session[r] = starts
    OBVIOUS
  <2> USE DEF loopVars, lifeVars, pumpVars, cmdVars, workVars
  <2>1. PICK c \in Conns : SendReply(c)
    <3>1. answer' # answer
      BY DEF Outcomes
    <3> QED BY <3>1
      DEF Next, Lifecycle, Pump, HandlerStep, Start, LoopStarts, StopBegins, StopJoins, StopDrains,
          Connect, SocketCloses, RefuseFrame, Submit, Reads, RunCallback, Wake, TimeOut,
          HandlerExits, HandlerRaises, GivesBack, Tick, PumpTakes, PumpYields, Dispatch, Resolve
  <2>2. cur[c] = r /\ hand[c] \in Outcomes
    BY <2>1 DEF SendReply, IInv, TypeOK, Outcomes
  <2> QED
    BY <2>1, <2>2 DEF SendReply, IInv, CommandLedger, HandlersAreHonest, ReplyIsTrue, Outcomes,
                      Refusals
<1> QED BY Inductive, <1>1, PTL DEF Spec, NoAnswerAcrossRestart

-----------------------------------------------------------------------------
\* What AuditComplete needs besides: the pump runs only between
\* main_thread.start() and stop(), it lets go of a command when it is done with
\* it, and while it runs without a loop every command it can meet is a leftover.
AuditInv ==
  /\ AuditComplete
  /\ LoopRuns => loopSet
  /\ main \in {"pumping", "dispatching", "resolving"} => running
  /\ main \notin {"dispatching", "resolving"} => exec = NoReq
  /\ \A r \in Requests : session[r] <= starts
  /\ running /\ ~loopSet =>
       \A r \in Requests : verdict[r] = "submitted" => session[r] < starts

LEMMA AuditStep == IInv /\ AuditInv /\ [Next]_vars => AuditInv'
<1> SUFFICES ASSUME IInv, AuditInv, [Next]_vars PROVE AuditInv'
  OBVIOUS
<1> USE DEF loopVars, lifeVars, pumpVars, cmdVars, workVars
<1>0. TypeOK /\ QueueIsFresh /\ ResultsAreTrue BY DEF IInv, CommandLedger
<1>1. CASE UNCHANGED <<thread, loopSet, main, running, exec, starts, session, verdict, outcome,
                       audited>>
  BY <1>1 DEF AuditInv, AuditComplete, LoopRuns
<1>2. CASE Start
  BY <1>0, <1>2 DEF Start, AuditInv, AuditComplete, LoopRuns, TypeOK
<1>3. CASE LoopStarts \/ StopBegins
  BY <1>0, <1>3 DEF LoopStarts, StopBegins, AuditInv, AuditComplete, LoopRuns, TypeOK
<1>4. CASE StopJoins \/ StopDrains
  BY <1>0, <1>4 DEF StopJoins, StopDrains, AuditInv, AuditComplete, LoopRuns, TypeOK
<1>5. ASSUME NEW c \in Conns,
             Connect(c) \/ SocketCloses(c) \/ Wake(c) \/ TimeOut(c) \/ SendReply(c) \/ GivesBack(c)
      PROVE  AuditInv'
  BY <1>1, <1>5 DEF Connect, SocketCloses, Wake, TimeOut, SendReply, GivesBack
<1>6. ASSUME NEW c \in Conns, NEW r \in Requests, RefuseFrame(c, r) PROVE AuditInv'
  BY <1>0, <1>6 DEF RefuseFrame, Reads, AuditInv, AuditComplete, LoopRuns, TypeOK, Refusals
<1>7. ASSUME NEW c \in Conns, NEW r \in Requests, Submit(c, r) PROVE AuditInv'
  <2>1. outcome[r] = "none" /\ loopSet
    BY <1>0, <1>7 DEF Submit, Reads, ResultsAreTrue, AuditInv
  <2> QED
    BY <1>0, <1>7, <2>1 DEF Submit, Reads, AuditInv, AuditComplete, LoopRuns, TypeOK
<1>8. ASSUME NEW r \in Requests, RunCallback(r) PROVE AuditInv'
  BY <1>1, <1>8 DEF RunCallback
<1>9. CASE Tick \/ PumpYields
  BY <1>9 DEF Tick, PumpYields, AuditInv, AuditComplete, LoopRuns
<1>10. CASE PumpTakes
  BY <1>0, <1>10 DEF PumpTakes, AuditInv, AuditComplete, LoopRuns
<1>11. CASE Dispatch
  BY <1>0, <1>11 DEF Dispatch, AuditInv, AuditComplete, LoopRuns, TypeOK
<1>12. CASE Resolve
  <2>1. exec \in Requests /\ verdict[exec] = "submitted"
    BY <1>0, <1>12 DEF Resolve, QueueIsFresh
  <2>2. exec \in audited' \/ session[exec] < starts
    BY <1>12, <2>1 DEF Resolve, Logs, AuditInv
  <2>3. audited \subseteq audited' /\ UNCHANGED <<outcome, session, starts>>
    BY <1>12 DEF Resolve, Logs
  <2>4. AuditComplete'
    BY <2>1, <2>2, <2>3 DEF AuditInv, AuditComplete
  <2> QED BY <1>12, <2>4 DEF Resolve, TickFails, AuditInv, LoopRuns
<1>13. CASE UNCHANGED vars BY <1>1, <1>13 DEF vars
<1> QED
  BY <1>2, <1>3, <1>4, <1>5, <1>6, <1>7, <1>8, <1>9, <1>10, <1>11, <1>12, <1>13
  DEF Next, Lifecycle, Pump, HandlerStep, HandlerExits, HandlerRaises

\* Whatever the pump ran has its line in the audit log, unless the command was
\* left over from an earlier server session.
THEOREM AuditIsComplete == Spec => []AuditComplete
<1>1. Init => AuditInv
  BY DEF Init, AuditInv, AuditComplete, LoopRuns
<1>2. AuditInv => AuditComplete BY DEF AuditInv
<1> QED BY Inductive, AuditStep, <1>1, <1>2, PTL DEF Spec

-----------------------------------------------------------------------------
\* What happened to a command is changed by reading it and by dispatching it.
LEMMA StepSimulates == IInv /\ [Next]_vars => [Service!SvcNext]_(Service!svcVars)
<1> SUFFICES ASSUME IInv, [Next]_vars
             PROVE  Service!SvcNext \/ UNCHANGED <<Fate, answer>>
  BY DEF Service!svcVars
<1> USE DEF loopVars, lifeVars, pumpVars, cmdVars, workVars, Service!SvcNext
<1>0. TypeOK /\ QueueIsFresh /\ ResultsAreTrue /\ HandlersAreHonest BY DEF IInv, CommandLedger
<1>1. CASE UNCHANGED <<verdict, outcome, answer>>
  BY <1>1 DEF Fate
<1>2. CASE Lifecycle \/ UNCHANGED vars
  BY <1>1, <1>2 DEF Lifecycle, Start, LoopStarts, StopBegins, StopJoins, StopDrains, vars
<1>3. CASE Tick \/ PumpTakes \/ PumpYields \/ Resolve
  BY <1>1, <1>3 DEF Tick, PumpTakes, PumpYields, Resolve
<1>4. CASE Dispatch
  <2>1. exec \in Requests /\ Fate[exec] = "accepted"
    BY <1>0, <1>4 DEF Dispatch, QueueIsFresh, Fate
  <2>2. PICK o \in Outcomes : outcome' = [outcome EXCEPT ![exec] = o]
    BY <1>4 DEF Dispatch
  <2>3. Fate' = [Fate EXCEPT ![exec] = o]
    BY <1>0, <1>4, <2>1, <2>2 DEF Dispatch, Fate, TypeOK, Outcomes
  <2>4. Service!Execute(exec)
    BY <1>4, <2>1, <2>3 DEF Dispatch, Service!Execute, Service!Outcomes, Outcomes
  <2> QED BY <2>1, <2>4
<1>5. ASSUME NEW c \in Conns, NEW r \in Requests, RefuseFrame(c, r) PROVE Service!SvcNext
  <2>1. PICK code \in Refusals : verdict' = [verdict EXCEPT ![r] = code]
    BY <1>5 DEF RefuseFrame
  <2>2. verdict[r] = "unseen" /\ outcome[r] = "none" /\ UNCHANGED <<outcome, answer>>
    BY <1>0, <1>5 DEF RefuseFrame, Reads, ResultsAreTrue
  <2>3. Fate[r] = "unseen" /\ Fate' = [Fate EXCEPT ![r] = code]
    BY <1>0, <2>1, <2>2 DEF Fate, TypeOK, Refusals
  <2>4. Service!Refuse(r)
    BY <2>2, <2>3 DEF Service!Refuse, Service!Refusals, Refusals
  <2> QED BY <2>4
<1>6. ASSUME NEW c \in Conns, NEW r \in Requests, Submit(c, r) PROVE Service!SvcNext
  <2>1. /\ verdict[r] = "unseen" /\ outcome[r] = "none" /\ UNCHANGED <<outcome, answer>>
        /\ verdict' = [verdict EXCEPT ![r] = "submitted"]
    BY <1>0, <1>6 DEF Submit, Reads, ResultsAreTrue
  <2>2. Fate[r] = "unseen" /\ Fate' = [Fate EXCEPT ![r] = "accepted"]
    BY <1>0, <2>1 DEF Fate, TypeOK
  <2>3. Service!Accept(r)
    BY <2>1, <2>2 DEF Service!Accept
  <2> QED BY <2>3
<1>7. ASSUME NEW c \in Conns, SendReply(c) PROVE Service!SvcNext
  <2>1. /\ cur[c] \in Requests /\ answer[cur[c]] = "none" /\ verdict[cur[c]] # "unseen"
        /\ ReplyIsTrue(c)
    BY <1>0, <1>7 DEF SendReply, HandlersAreHonest
  <2>2. answer' = [answer EXCEPT ![cur[c]] = hand[c]] /\ Fate' = Fate
    BY <1>7 DEF SendReply, Fate
  <2>3. \/ hand[c] = Fate[cur[c]] /\ Fate[cur[c]] # "accepted"
        \/ hand[c] = "MAIN_THREAD_TIMEOUT" /\ Fate[cur[c]] \in {"accepted"} \union Outcomes
    BY <1>0, <2>1 DEF ReplyIsTrue, Fate, TypeOK, ResultsAreTrue, Refusals, Outcomes
  <2>4. Fate[cur[c]] # "unseen"
    BY <1>0, <2>1 DEF Fate, TypeOK, Outcomes
  <2>5. Service!Answer(cur[c])
    BY <2>1, <2>2, <2>3, <2>4 DEF Service!Answer, Service!Refusals, Outcomes
  <2> QED BY <2>1, <2>5
<1>8. ASSUME NEW c \in Conns,
             Connect(c) \/ SocketCloses(c) \/ Wake(c) \/ TimeOut(c) \/ GivesBack(c)
      PROVE  UNCHANGED <<Fate, answer>>
  BY <1>1, <1>8 DEF Connect, SocketCloses, Wake, TimeOut, GivesBack, Fate
<1>9. ASSUME NEW r \in Requests, RunCallback(r) PROVE UNCHANGED <<Fate, answer>>
  BY <1>1, <1>9 DEF RunCallback, Fate
<1> QED
  BY <1>2, <1>3, <1>4, <1>5, <1>6, <1>7, <1>8, <1>9
  DEF Next, Pump, HandlerStep, HandlerExits, HandlerRaises

\* The handlers and the pump implement the abstract service: a command runs at
\* most once, and every answer is true of it.
THEOREM BridgeImplementsService == Spec => ImplementsService
<1>1. Init => Service!SvcInit
  BY DEF Init, Service!SvcInit, Fate
<1> QED BY Inductive, StepSimulates, <1>1, PTL DEF Spec, ImplementsService, Service!SvcSpec
=============================================================================
