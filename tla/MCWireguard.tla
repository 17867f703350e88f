------------------------------ MODULE MCWireguard ------------------------------
(* Finite instances of Wireguard for TLC. *)
EXTENDS Wireguard, TLC

CONSTANTS c1, c2, r1, r2

Unborn == [status |-> "UNBORN", wg |-> FALSE]
Off    == [status |-> "ACTIVE", wg |-> FALSE]
On     == [status |-> "ACTIVE", wg |-> TRUE]

Table(row1, row2) == [c \in Clients |-> IF c = c1 THEN row1 ELSE row2]
Newcomers == {Table(Unborn, Unborn)}
Legacy    == {Table(Off, On)}
Enabled   == {Table(On, On)}
===============================================================================
