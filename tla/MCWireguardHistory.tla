--------------------------- MODULE MCWireguardHistory --------------------------
(* Finite instances of WireguardHistory for TLC. *)
EXTENDS WireguardHistory, MCWireguard
===============================================================================
