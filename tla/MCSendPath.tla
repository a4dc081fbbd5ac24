----------------------------- MODULE MCSendPath -----------------------------
(* SendPath for TLC: two connections, a command that reports progress      *)
(* twice, and a notification.                                              *)
EXTENDS SendPath

CONSTANTS s1, s2, c1

MCCommandOf == [c \in Commands |-> s1]
=============================================================================
