------------------------------ MODULE MCPanel ------------------------------
(* Finite instances of Pages for TLC. *)
EXTENDS Pages

CONSTANTS a, b, all, one

MCMatching == [q \in Queries |-> IF q = all THEN Clients ELSE {b}]
MCFilters == {Clients}

\* Everything is there, or one client is missing that the other query is about.
MCVisits == [exists : {Clients}, search : Queries] \cup [exists : {{a}}, search : {all}]

\* One client was connected yesterday and has no row of today, the other one
\* has used traffic on both days.
Row(n, c) == [bytes |-> n, conn |-> c]
MCTables ==
    {[u \in Users |-> IF u = a THEN [NoRows EXCEPT ![0] = Row(1, 0), ![1] = Row(1, 1)]
                     ELSE [NoRows EXCEPT ![1] = Row(2, 1), ![2] = Row(1, 0)]]}

\* An import brings a client that is connected, one that is not, or no usage.
MCItems == {Row(1, 1), Row(1, 0), NoEntry}

\* Xray does not know the client, or its counters are at rest, or they moved
\* and the client is online while its addresses cannot be read, or it has two.
Said(counted, n, online, addresses, fallback) ==
    [counted |-> counted, bytes |-> n, online |-> online,
     addresses |-> addresses, fallback |-> fallback]
MCObservations ==
    {Said(FALSE, 0, FALSE, 0, 0), Said(TRUE, 0, FALSE, 0, 0),
     Said(TRUE, 1, TRUE, Lost, Lost), Said(FALSE, 0, TRUE, Lost, 2)}
============================================================================
