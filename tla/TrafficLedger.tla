---------------------------- MODULE TrafficLedger ----------------------------
(***************************************************************************)
(* What the panel promises of the traffic of its clients, without any of   *)
(* the machinery: an account of three columns for each client.  Traffic    *)
(* enters as pending and is due from then on; it is settled by moving it   *)
(* to what is recorded of the client, or is lost on the way, and never     *)
(* grows when it moves.  What is recorded is otherwise only cleared or     *)
(* credited, deliberately, for one client at a time and without touching   *)
(* what is pending; a credit is due like traffic that was sent.            *)
(***************************************************************************)
EXTENDS Integers

CONSTANT Clients

VARIABLES recorded, pending, due

ledger == <<recorded, pending, due>>

LedgerInit ==
    /\ recorded = [c \in Clients |-> 0]
    /\ pending = [c \in Clients |-> 0]
    /\ due = [c \in Clients |-> 0]

Send(c) ==
    /\ pending' = [pending EXCEPT ![c] = @ + 1]
    /\ due' = [due EXCEPT ![c] = @ + 1]
    /\ UNCHANGED recorded

\* Any amount of any clients is recorded, any amount is lost.
Settle ==
    /\ \A c \in Clients :
          /\ recorded'[c] >= recorded[c]
          /\ recorded'[c] + pending'[c] <= recorded[c] + pending[c]
    /\ UNCHANGED due

Clear(c) ==
    /\ \E n \in 0..recorded[c] : recorded' = [recorded EXCEPT ![c] = n]
    /\ UNCHANGED <<pending, due>>

\* Traffic of an earlier time, or of another panel, is put on record.
Credit(c) ==
    LET n == recorded'[c] - recorded[c] IN
    /\ n > 0
    /\ recorded' = [recorded EXCEPT ![c] = @ + n]
    /\ due' = [due EXCEPT ![c] = @ + n]
    /\ UNCHANGED pending

LedgerNext == Settle \/ \E c \in Clients : Send(c) \/ Clear(c) \/ Credit(c)

LedgerSpec == LedgerInit /\ [][LedgerNext]_ledger
==============================================================================
