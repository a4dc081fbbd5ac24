----------------------------- MODULE MCToolGate -----------------------------
(* ToolGate for TLC: two calls of tools of every class, two windows that   *)
(* may use the same port, and buckets of one token.                        *)
EXTENDS ToolGate

MCTools   == {"viewport_screenshot", "delete_object", "execute_python", "restore_checkpoint"}
MCAllowed == AllTools \ {"create_objects"}
MCDenied  == {"execute_python"}
MCConfirm == {"delete_object"}
=============================================================================
