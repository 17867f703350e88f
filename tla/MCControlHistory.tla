--------------------------- MODULE MCControlHistory ---------------------------
(* The instances of MCControlPlane, with the history variables. *)
EXTENDS MCControlPlane, ControlHistory
===============================================================================
