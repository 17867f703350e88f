---------------------------- MODULE AccountsHistory ----------------------------
(***************************************************************************)
(* Accounts with history variables: what pages have been told about the    *)
(* second factor, and where two of their requests crossed.                 *)
(***************************************************************************)
EXTENDS Accounts

VARIABLES
    told,    \* secrets confirmed as enabled since the last time it was disabled
    crossed  \* accounts that two pages changed the second factor of at once

historyVars == <<vars, told, crossed>>

Enabling(p, id)  == page[p].pc = "enable" /\ page[p].by = id
Disabling(p, id) == page[p].pc = "disable" /\ page[p].by = id
Changing(p, id)  == Enabling(p, id) \/ Disabling(p, id)

Track ==
    /\ told' = [id \in Ids |->
          IF \E p \in Pages : Disabling(p, id) /\ DisableWrite(p) THEN {}
          ELSE told[id] \cup {page[p].setup.secret : p \in
                  {q \in Pages : Enabling(q, id) /\ EnableWrite(q)}}]
    /\ crossed' = {id \in Ids :
          \/ id \in crossed
          \/ \E p, q \in Pages : p # q /\ Changing(p, id)' /\ Changing(q, id)'}

HistoryInit == Init /\ told = [id \in Ids |-> {}] /\ crossed = {}
HistoryNext == Next /\ Track
HistorySpec == HistoryInit /\ [][HistoryNext]_historyVars

-------------------------------------------------------------------------------
\* The authenticator that was confirmed with "enabled: true" is the one logins
\* ask for, until it is disabled, whatever old setup sessions other pages still
\* hold; only two requests on one account at the same time can break that.
EnabledAsTold ==
    \A id \in Ids \ crossed : Exists(id) => told[id] \subseteq {account[id].secret}
===============================================================================
