------------------------------- MODULE MCSessions -------------------------------
(* Finite instances of Sessions for TLC. *)
EXTENDS SessionsHistory, TLC

CONSTANTS t1, t2, i1, i2

===============================================================================
