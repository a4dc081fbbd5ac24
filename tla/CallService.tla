----------------------------- MODULE CallService -----------------------------
(***************************************************************************)
(* What _call() of the MCP server (mcp_server/blender_mcp/server.py)       *)
(* promises to a tool, with no clients, sockets, tokens or retries in      *)
(* sight: Blender runs the command at most once and the tool is told one   *)
(* thing.  "ok" is told after the command has run, AUTH of a command that  *)
(* has not run and never will; CONNECTION_LOST and TIMEOUT commit to       *)
(* nothing: the command may have run, or may still run.                    *)
(*                                                                         *)
(* Reauthentication implements it.                                         *)
(***************************************************************************)
EXTENDS Naturals

CONSTANT Calls     \* invocations of _call()

VARIABLES
  ran,    \* ran[k]: how often Blender has run the command of k
  told    \* told[k]: what the tool was told

callVars == <<ran, told>>

Unknown == {"CONNECTION_LOST", "TIMEOUT"}

CallInit ==
  /\ ran = [k \in Calls |-> 0]
  /\ told = [k \in Calls |-> "none"]

Run(k) ==
  /\ ran[k] = 0 /\ told[k] # "AUTH"
  /\ ran' = [ran EXCEPT ![k] = 1]
  /\ UNCHANGED told

Tell(k) ==
  /\ told[k] = "none"
  /\ \E code \in {"ok", "AUTH"} \union Unknown :
       /\ code = "ok" => ran[k] = 1
       /\ code = "AUTH" => ran[k] = 0
       /\ told' = [told EXCEPT ![k] = code]
  /\ UNCHANGED ran

CallNext == \E k \in Calls : Run(k) \/ Tell(k)

CallSpec == CallInit /\ [][CallNext]_callVars
=============================================================================
