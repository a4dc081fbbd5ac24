--------------------------- MODULE CommandService ---------------------------
(***************************************************************************)
(* What the add-on promises to whoever sends it a command frame, with no   *)
(* threads, queues or sockets in sight: a command is refused or accepted   *)
(* once, an accepted one is dispatched at most once, and the one answer it *)
(* may get is true of it.  MAIN_THREAD_TIMEOUT is the answer that commits  *)
(* to nothing: the command may still run afterwards, or never.             *)
(*                                                                         *)
(* Abstracts blender_addon/server/ws_server.py (_handler) together with    *)
(* blender_addon/server/main_thread.py (_pump).  CommandBridge implements  *)
(* it.                                                                     *)
(***************************************************************************)

CONSTANT Requests     \* the command frames that clients may send

VARIABLES
  fate,       \* fate[r]: what the add-on has done with r
  answer      \* answer[r]: the response frame sent for r

svcVars == <<fate, answer>>

Refusals == {"BAD_FRAME", "AUTH", "BACKPRESSURE"}
Outcomes == {"ok", "BLENDER_ERROR"}
Fates    == {"unseen", "accepted"} \union Refusals \union Outcomes
Answers  == {"none", "MAIN_THREAD_TIMEOUT"} \union Refusals \union Outcomes

SvcTypeOK ==
  /\ fate \in [Requests -> Fates]
  /\ answer \in [Requests -> Answers]

SvcInit ==
  /\ fate = [r \in Requests |-> "unseen"]
  /\ answer = [r \in Requests |-> "none"]

\* The frame is malformed, carries a wrong token, or finds the queue full.
Refuse(r) ==
  /\ fate[r] = "unseen"
  /\ \E code \in Refusals : fate' = [fate EXCEPT ![r] = code]
  /\ UNCHANGED answer

\* The command is queued for the main thread.
Accept(r) ==
  /\ fate[r] = "unseen"
  /\ fate' = [fate EXCEPT ![r] = "accepted"]
  /\ UNCHANGED answer

\* The capability runs on the main thread and returns or raises.
Execute(r) ==
  /\ fate[r] = "accepted"
  /\ \E o \in Outcomes : fate' = [fate EXCEPT ![r] = o]
  /\ UNCHANGED answer

\* The client is told the fate of its command, or that it is not known yet.
Answer(r) ==
  /\ fate[r] # "unseen"
  /\ answer[r] = "none"
  /\ \/ /\ fate[r] # "accepted"
        /\ answer' = [answer EXCEPT ![r] = fate[r]]
     \/ /\ fate[r] \notin Refusals
        /\ answer' = [answer EXCEPT ![r] = "MAIN_THREAD_TIMEOUT"]
  /\ UNCHANGED fate

SvcNext == \E r \in Requests : Refuse(r) \/ Accept(r) \/ Execute(r) \/ Answer(r)

SvcSpec == SvcInit /\ [][SvcNext]_svcVars

-----------------------------------------------------------------------------
\* A client that is told an outcome was told the real one, and a refused
\* command is never reported as run (the `result` of ws_server._handler).
AnswersAreTrue ==
  \A r \in Requests :
    answer[r] \in Outcomes \union Refusals => fate[r] = answer[r]
=============================================================================
