------------------------ MODULE BlenderClientProofs ------------------------
(***************************************************************************)
(* Proofs about BlenderClient: its type invariant, that no two readers     *)
(* live and no socket is without one, and that a call that waits for its   *)
(* response is known to a reader of the socket its command went out on.    *)
(***************************************************************************)
EXTENDS BlenderClient, FiniteSetTheorems, TLAPS

Up(n) == state[n] \in {"open", "closing"}
AllDown == \A n \in Socks : ~Up(n)

\* Sockets and their readers: a socket that is not closed yet has a reader,
\* no other reader lives beside it, and it is the one the client holds.
SocketsInv ==
  /\ \A m, n \in Socks : Live(m) /\ Live(n) => m = n
  /\ \A n \in Socks : Up(n) => Live(n) /\ ws = n
  /\ \A n \in Socks : state[n] = "none" <=> reader[n] = "none"
  /\ ws # 0 => state[ws] # "none"

\* The holder of _connect_lock is the call that drains or dials; there is no
\* usable socket then, and no reader once it dials.
LockInv ==
  \A k \in Calls :
    /\ pc[k] \in {"drain", "dial"} => lock = k /\ AllDown
    /\ pc[k] = "dial" => \A n \in Socks : ~Live(n)

\* A call that sends or waits has a socket that was dialled.  As long as some
\* call is still sending on a closed socket nobody has dialled another one, so
\* that its `self._ws = None` drops no usable socket.
CallsInv ==
  \A k \in Calls :
    /\ pc[k] \in {"send", "await"} => on[k] \in Socks /\ state[on[k]] # "none"
    /\ pc[k] = "send" /\ state[on[k]] = "closed" => AllDown
    /\ pc[k] = "send" /\ future[k] = "pending" => k \in inflight

IInv == TypeOK /\ SocketsInv /\ LockInv /\ CallsInv /\ AwaitedHasReader

-----------------------------------------------------------------------------
(* What the actions have in common.                                         *)

\* A call that finds the client connected registers on a socket that is not
\* closed.
LEMMA RegistersLemma ==
  ASSUME IInv, NEW k \in Calls, pc[k] \in {"idle", "connect"}, Connected,
         Registers(k, ws), UNCHANGED <<ws, state, reader, lock, sent, arrived>>
  PROVE  IInv'
<1> USE DEF Live, Up, AllDown
<1>1. ws \in Socks /\ state[ws] \notin {"none", "closed"}
  BY DEF IInv, TypeOK, SocketsInv, Connected, Socks
<1>2. TypeOK'
  BY <1>1 DEF IInv, TypeOK, Registers, Socks
<1>3. SocketsInv'
  BY DEF IInv, SocketsInv
<1>4. LockInv'
  BY DEF IInv, TypeOK, LockInv, Registers
<1>5. CallsInv'
  BY <1>1 DEF IInv, TypeOK, CallsInv, Registers
<1>6. AwaitedHasReader'
  BY DEF IInv, TypeOK, AwaitedHasReader, Registers
<1> QED
  BY <1>2, <1>3, <1>4, <1>5, <1>6 DEF IInv

\* A reader that goes was the only one: none is left, and whoever was waiting
\* has been told.
LEMMA ReaderFinishesLemma ==
  ASSUME IInv, NEW n \in Socks, Live(n), ~Up(n), ReaderFinishes(n),
         UNCHANGED <<state, on>>
  PROVE  /\ ws' \in 0 .. MaxSocks
         /\ reader' \in [Socks -> {"none", "reading", "notifying", "done"}]
         /\ inflight' \in SUBSET Calls
         /\ future' \in [Calls -> {"none", "pending", "response", "lost"}]
         /\ SocketsInv'
         /\ \A m \in Socks : ~Live(m)'
         /\ \A k \in Calls :
              pc[k] \in {"send", "await"} => future'[k] # "pending"
<1> USE DEF Live, Up
<1>1. /\ ws' \in 0 .. MaxSocks
      /\ reader' \in [Socks -> {"none", "reading", "notifying", "done"}]
      /\ inflight' \in SUBSET Calls
      /\ future' \in [Calls -> {"none", "pending", "response", "lost"}]
  BY ClientAssumption DEF IInv, TypeOK, ReaderFinishes, FailsInflight
<1>2. \A m \in Socks : ~Live(m)'
  BY DEF IInv, TypeOK, SocketsInv, ReaderFinishes
<1>3. SocketsInv'
  <2>1. \A m \in Socks : ~Up(m)
    BY DEF IInv, SocketsInv
  <2>2. \A m \in Socks : (state[m] = "none" <=> reader[m] = "none")'
    BY DEF IInv, TypeOK, SocketsInv, ReaderFinishes
  <2>3. (ws # 0 => state[ws] # "none")'
    BY DEF IInv, SocketsInv, ReaderFinishes
  <2> QED
    BY <1>2, <2>1, <2>2, <2>3 DEF SocketsInv
<1>4. \A k \in Calls : pc[k] \in {"send", "await"} => future'[k] # "pending"
  BY DEF IInv, TypeOK, CallsInv, AwaitedHasReader, ReaderFinishes, FailsInflight
<1> QED
  BY <1>1, <1>2, <1>3, <1>4

-----------------------------------------------------------------------------
LEMMA InitIInv == Init => IInv
<1> SUFFICES ASSUME Init PROVE IInv
  OBVIOUS
<1>1. TypeOK
  BY ClientAssumption DEF Init, TypeOK
<1>2. SocketsInv
  BY DEF Init, SocketsInv, Live, Up
<1>3. LockInv /\ CallsInv /\ AwaitedHasReader
  BY DEF Init, LockInv, CallsInv, AwaitedHasReader
<1> QED
  BY <1>1, <1>2, <1>3 DEF IInv

LEMMA CallStepIInv ==
  ASSUME IInv, NEW k \in Calls, CallStep(k)
  PROVE  IInv'
<1> USE ClientAssumption DEF Live, Up, AllDown
<1>1. CASE Begin(k)
  <2>1. CASE Connected /\ Registers(k, ws)
    BY <1>1, <2>1, RegistersLemma DEF Begin
  <2>2. CASE /\ ~Connected
             /\ pc' = [pc EXCEPT ![k] = "connect"]
             /\ UNCHANGED <<on, inflight, future>>
    <3>1. TypeOK'
      BY <1>1, <2>2 DEF Begin, IInv, TypeOK
    <3>2. SocketsInv'
      BY <1>1 DEF Begin, IInv, SocketsInv
    <3>3. LockInv' /\ CallsInv' /\ AwaitedHasReader'
      BY <1>1, <2>2 DEF Begin, IInv, TypeOK, LockInv, CallsInv, AwaitedHasReader
    <3> QED
      BY <3>1, <3>2, <3>3 DEF IInv
  <2> QED
    BY <1>1, <2>1, <2>2 DEF Begin
<1>2. CASE Locks(k)
  <2>1. CASE Connected /\ Registers(k, ws) /\ UNCHANGED lock
    BY <1>2, <2>1, RegistersLemma DEF Locks
  <2>2. CASE /\ ~Connected
             /\ lock' = k
             /\ pc' = [pc EXCEPT ![k] = AfterLock]
             /\ UNCHANGED <<on, inflight, future>>
    <3>1. AfterLock \in {"drain", "dial"} /\ (AfterLock = "dial" => ~SomeReaderLives)
      BY DEF AfterLock
    <3>2. TypeOK'
      BY <1>2, <2>2, <3>1 DEF Locks, IInv, TypeOK
    <3>3. SocketsInv'
      BY <1>2 DEF Locks, IInv, SocketsInv
    <3>4. AllDown
      \* An open socket would be the client's.
      BY <2>2 DEF IInv, SocketsInv, Connected, Socks
    <3>5. \A j \in Calls : pc[j] \notin {"drain", "dial"}
      BY <1>2 DEF Locks, IInv, LockInv
    <3>6. LockInv'
      BY <1>2, <2>2, <3>1, <3>4, <3>5 DEF Locks, IInv, TypeOK, LockInv, SomeReaderLives
    <3>7. CallsInv' /\ AwaitedHasReader'
      BY <1>2, <2>2, <3>1 DEF Locks, IInv, TypeOK, CallsInv, AwaitedHasReader
    <3> QED
      BY <3>2, <3>3, <3>6, <3>7 DEF IInv
  <2> QED
    BY <1>2, <2>1, <2>2 DEF Locks
<1>3. CASE Drained(k)
  <2>1. TypeOK'
    BY <1>3 DEF Drained, IInv, TypeOK
  <2>2. SocketsInv'
    BY <1>3 DEF Drained, IInv, SocketsInv
  <2>3. LockInv'
    BY <1>3 DEF Drained, IInv, TypeOK, LockInv, SomeReaderLives
  <2>4. CallsInv' /\ AwaitedHasReader'
    BY <1>3 DEF Drained, IInv, TypeOK, CallsInv, AwaitedHasReader
  <2> QED
    BY <2>1, <2>2, <2>3, <2>4 DEF IInv
<1>4. CASE DrainTimesOut(k)
  <2>1. PICK n \in Socks : Live(n) /\ ReaderFinishes(n)
    BY <1>4 DEF DrainTimesOut
  <2>2. AllDown /\ lock = k
    BY <1>4 DEF DrainTimesOut, IInv, LockInv
  <2>3. /\ ws' \in 0 .. MaxSocks
        /\ reader' \in [Socks -> {"none", "reading", "notifying", "done"}]
        /\ inflight' \in SUBSET Calls
        /\ future' \in [Calls -> {"none", "pending", "response", "lost"}]
        /\ SocketsInv'
        /\ \A m \in Socks : ~Live(m)'
        /\ \A j \in Calls : pc[j] \in {"send", "await"} => future'[j] # "pending"
    <3> HIDE DEF Live
    <3> QED
      BY <1>4, <2>1, <2>2, ReaderFinishesLemma DEF DrainTimesOut
  <2>4. TypeOK'
    BY <1>4, <2>3 DEF DrainTimesOut, IInv, TypeOK
  <2>5. LockInv'
    BY <1>4, <2>2, <2>3 DEF DrainTimesOut, IInv, TypeOK, LockInv
  <2>6. CallsInv' /\ AwaitedHasReader'
    BY <1>4, <2>3 DEF DrainTimesOut, IInv, TypeOK, CallsInv, AwaitedHasReader
  <2> QED
    BY <2>3, <2>4, <2>5, <2>6 DEF IInv
<1>5. CASE Dial(k)
  <2>1. PICK n \in Socks :
          /\ state[n] = "none"
          /\ state' = [state EXCEPT ![n] = "open"]
          /\ reader' = [reader EXCEPT ![n] = "reading"]
          /\ ws' = n
          /\ Registers(k, n)
    BY <1>5 DEF Dial
  <2>2. /\ pc[k] = "dial" /\ lock = k /\ AllDown
        /\ \A m \in Socks : ~Live(m)
        /\ \A j \in Calls : pc[j] \in {"drain", "dial"} => j = k
        /\ \A j \in Calls : pc[j] # "send"
        /\ lock' = NoCall
    <3>1. pc[k] = "dial" /\ lock = k /\ AllDown /\ lock' = NoCall
      BY <1>5 DEF Dial, IInv, LockInv
    <3>2. \A m \in Socks : ~Live(m)
      BY <3>1 DEF IInv, LockInv
    <3>3. \A j \in Calls : pc[j] \in {"drain", "dial"} => j = k
      BY <3>1 DEF IInv, LockInv
    <3>4. \A j \in Calls : pc[j] # "send"
      \* Its socket would be closed, and nobody dials beside such a call.
      BY <1>5, <3>1 DEF Dial, IInv, TypeOK, CallsInv
    <3> QED
      BY <3>1, <3>2, <3>3, <3>4
  <2>3. TypeOK'
    BY <1>5, <2>1, <2>2 DEF Dial, IInv, TypeOK, Registers, Socks
  <2>4. SocketsInv'
    BY <2>1, <2>2 DEF IInv, TypeOK, SocketsInv, Socks
  <2>5. LockInv'
    BY <2>1, <2>2 DEF IInv, TypeOK, LockInv, Registers
  <2>6. CallsInv'
    BY <2>1, <2>2 DEF IInv, TypeOK, CallsInv, Registers
  <2>7. AwaitedHasReader'
    BY <2>1, <2>2 DEF IInv, TypeOK, AwaitedHasReader, Registers
  <2> QED
    BY <2>3, <2>4, <2>5, <2>6, <2>7 DEF IInv
<1>6. CASE SendSucceeds(k)
  <2>1. TypeOK'
    BY <1>6 DEF SendSucceeds, IInv, TypeOK
  <2>2. SocketsInv' /\ LockInv'
    BY <1>6 DEF SendSucceeds, IInv, TypeOK, SocketsInv, LockInv
  <2>3. CallsInv'
    BY <1>6 DEF SendSucceeds, IInv, TypeOK, CallsInv
  <2>4. AwaitedHasReader'
    BY <1>6 DEF SendSucceeds, IInv, TypeOK, SocketsInv, CallsInv, AwaitedHasReader
  <2> QED
    BY <2>1, <2>2, <2>3, <2>4 DEF IInv
<1>7. CASE SendFails(k)
  <2>1. TypeOK'
    BY <1>7 DEF SendFails, IInv, TypeOK, Socks
  <2>2. AllDown
    BY <1>7 DEF SendFails, IInv, CallsInv
  <2>3. SocketsInv'
    BY <1>7, <2>2 DEF SendFails, IInv, SocketsInv
  <2>4. LockInv'
    BY <1>7 DEF SendFails, IInv, TypeOK, LockInv
  <2>5. CallsInv' /\ AwaitedHasReader'
    BY <1>7 DEF SendFails, IInv, TypeOK, CallsInv, AwaitedHasReader
  <2> QED
    BY <2>1, <2>3, <2>4, <2>5 DEF IInv
<1>8. CASE Resume(k)
  <2>1. TypeOK'
    BY <1>8 DEF Resume, IInv, TypeOK, Outcome
  <2>2. SocketsInv'
    BY <1>8 DEF Resume, IInv, SocketsInv
  <2>3. LockInv' /\ CallsInv' /\ AwaitedHasReader'
    BY <1>8 DEF Resume, IInv, TypeOK, LockInv, CallsInv, AwaitedHasReader, Outcome
  <2> QED
    BY <2>1, <2>2, <2>3 DEF IInv
<1>9. CASE TimeOut(k)
  <2>1. TypeOK' /\ SocketsInv'
    BY <1>9 DEF TimeOut, IInv, TypeOK, SocketsInv
  <2>2. LockInv' /\ CallsInv' /\ AwaitedHasReader'
    BY <1>9 DEF TimeOut, IInv, TypeOK, LockInv, CallsInv, AwaitedHasReader
  <2> QED
    BY <2>1, <2>2 DEF IInv
<1> QED
  BY <1>1, <1>2, <1>3, <1>4, <1>5, <1>6, <1>7, <1>8, <1>9 DEF CallStep

LEMMA ReaderTakesIInv ==
  ASSUME IInv, NEW k \in Calls, ReaderTakes(k)
  PROVE  IInv'
<1> USE DEF Live, Up, AllDown
<1>1. TypeOK'
  BY DEF ReaderTakes, IInv, TypeOK
<1>2. SocketsInv' /\ LockInv'
  BY DEF ReaderTakes, IInv, SocketsInv, LockInv
<1>3. CallsInv' /\ AwaitedHasReader'
  \* The only call taken off _inflight has its response.
  BY DEF ReaderTakes, IInv, TypeOK, CallsInv, AwaitedHasReader
<1> QED
  BY <1>1, <1>2, <1>3 DEF IInv

LEMMA ReaderStepIInv ==
  ASSUME IInv, NEW n \in Socks, ReaderStep(n)
  PROVE  IInv'
<1> USE DEF Live, Up, AllDown
<1>1. CASE ReaderNotifies(n) \/ ReaderReturns(n)
  <2>1. \A m \in Socks : Live(m)' <=> Live(m)
    BY <1>1 DEF ReaderNotifies, ReaderReturns, IInv, TypeOK
  <2>2. TypeOK'
    BY <1>1 DEF ReaderNotifies, ReaderReturns, IInv, TypeOK
  <2>3. SocketsInv'
    BY <1>1, <2>1 DEF ReaderNotifies, ReaderReturns, IInv, TypeOK, SocketsInv
  <2>4. LockInv' /\ CallsInv' /\ AwaitedHasReader'
    BY <1>1, <2>1 DEF ReaderNotifies, ReaderReturns, IInv, LockInv, CallsInv,
                      AwaitedHasReader
  <2> QED
    BY <2>2, <2>3, <2>4 DEF IInv
<1>2. CASE ReaderEnds(n)
  <2>1. /\ ws' \in 0 .. MaxSocks
        /\ reader' \in [Socks -> {"none", "reading", "notifying", "done"}]
        /\ inflight' \in SUBSET Calls
        /\ future' \in [Calls -> {"none", "pending", "response", "lost"}]
        /\ SocketsInv'
        /\ \A m \in Socks : ~Live(m)'
        /\ \A j \in Calls : pc[j] \in {"send", "await"} => future'[j] # "pending"
    <3>1. Live(n) /\ ~Up(n) /\ ReaderFinishes(n) /\ UNCHANGED <<state, on>>
      BY <1>2 DEF ReaderEnds
    <3> HIDE DEF Live, Up
    <3> QED
      BY <3>1, ReaderFinishesLemma
  <2>2. TypeOK'
    BY <1>2, <2>1 DEF ReaderEnds, IInv, TypeOK
  <2>3. LockInv'
    BY <1>2, <2>1 DEF ReaderEnds, IInv, LockInv
  <2>4. CallsInv' /\ AwaitedHasReader'
    BY <1>2, <2>1 DEF ReaderEnds, IInv, CallsInv, AwaitedHasReader
  <2> QED
    BY <2>1, <2>2, <2>3, <2>4 DEF IInv
<1> QED
  BY <1>1, <1>2 DEF ReaderStep

LEMMA OtherEndIInv ==
  ASSUME IInv,
         \/ \E k \in Calls : Respond(k)
         \/ \E n \in Socks : SocketDies(n) \/ CloseCompletes(n)
  PROVE  IInv'
<1> USE DEF Live, Up, AllDown
<1>1. CASE \E k \in Calls : Respond(k)
  <2>1. TypeOK'
    BY <1>1 DEF Respond, IInv, TypeOK
  <2>2. SocketsInv' /\ LockInv' /\ CallsInv' /\ AwaitedHasReader'
    BY <1>1 DEF Respond, IInv, SocketsInv, LockInv, CallsInv, AwaitedHasReader
  <2> QED
    BY <2>1, <2>2 DEF IInv
<1>2. ASSUME NEW n \in Socks, SocketDies(n)
      PROVE  IInv'
  <2>1. TypeOK'
    BY <1>2 DEF SocketDies, IInv, TypeOK
  <2>2. SocketsInv'
    BY <1>2 DEF SocketDies, IInv, TypeOK, SocketsInv, Socks
  <2>3. LockInv' /\ CallsInv' /\ AwaitedHasReader'
    BY <1>2 DEF SocketDies, IInv, TypeOK, LockInv, CallsInv, AwaitedHasReader
  <2> QED
    BY <2>1, <2>2, <2>3 DEF IInv
<1>3. ASSUME NEW n \in Socks, CloseCompletes(n)
      PROVE  IInv'
  <2>1. TypeOK'
    BY <1>3 DEF CloseCompletes, IInv, TypeOK
  <2>2. SocketsInv'
    BY <1>3 DEF CloseCompletes, IInv, TypeOK, SocketsInv, Socks
  <2>3. AllDown'
    BY <1>3 DEF CloseCompletes, IInv, TypeOK, SocketsInv
  <2>4. LockInv' /\ CallsInv' /\ AwaitedHasReader'
    BY <1>3, <2>3 DEF CloseCompletes, IInv, TypeOK, LockInv, CallsInv, AwaitedHasReader
  <2> QED
    BY <2>1, <2>2, <2>4 DEF IInv
<1> QED
  BY <1>1, <1>2, <1>3

LEMMA NextIInv == IInv /\ [Next]_vars => IInv'
<1> SUFFICES ASSUME IInv, [Next]_vars PROVE IInv'
  OBVIOUS
<1>1. CASE Next
  BY <1>1, CallStepIInv, ReaderTakesIInv, ReaderStepIInv, OtherEndIInv DEF Next
<1>2. CASE UNCHANGED vars
  BY <1>2 DEF vars, IInv, TypeOK, SocketsInv, LockInv, CallsInv, AwaitedHasReader,
              Live, Up, AllDown
<1> QED
  BY <1>1, <1>2

LEMMA InvariantIInv == Spec => []IInv
BY InitIInv, NextIInv, PTL DEF Spec

-----------------------------------------------------------------------------
\* Type correctness of the client, its sockets, readers and calls.
THEOREM TypeCorrect == Spec => []TypeOK
<1>1. IInv => TypeOK
  BY DEF IInv
<1> QED
  BY <1>1, InvariantIInv, PTL

\* blender_client.py, _connect: "never two readers": the old reader is gone
\* before a new socket is dialled, and whatever closes or fails in between, a
\* socket that may still deliver has its reader.
THEOREM OneReader == Spec => []OneReaderPerSocket
<1>1. IInv => OneReaderPerSocket
  <2> SUFFICES ASSUME IInv PROVE OneReaderPerSocket
    OBVIOUS
  <2> DEFINE R == {n \in Socks : Live(n)}
  <2>1. \A m, n \in R : m = n
    BY DEF IInv, SocketsInv
  <2>2. Cardinality(R) <= 1
    <3>1. CASE R = {}
      BY <3>1, FS_EmptySet
    <3>2. CASE R # {}
      <4>1. PICK n : R = {n}
        BY <2>1, <3>2
      <4> HIDE DEF R
      <4>2. Cardinality(R) = 1
        BY <4>1, FS_Singleton, Zenon
      <4> QED
        BY <4>2
    <3> QED
      BY <3>1, <3>2
  <2>3. \A n \in Socks : state[n] \in {"open", "closing"} => Live(n)
    BY DEF IInv, SocketsInv, Up
  <2> QED
    BY <2>2, <2>3 DEF OneReaderPerSocket
<1> QED
  BY <1>1, InvariantIInv, PTL

\* call() and _read_loop: a call that waits is in _inflight and the reader of
\* its socket lives; a reader that goes has told everybody first.
THEOREM WaitersAreServed == Spec => []AwaitedHasReader
<1>1. IInv => AwaitedHasReader
  BY DEF IInv
<1> QED
  BY <1>1, InvariantIInv, PTL
=============================================================================
