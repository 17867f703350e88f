------------------------------- MODULE MCBackups -------------------------------
(* Finite instances of Backups for TLC. *)
EXTENDS BackupsHistory, TLC

CONSTANTS c1
===============================================================================
