------------------------------- MODULE Pages -------------------------------
(***************************************************************************)
(* Two pages of the panel and the router that mounts one of them: the      *)
(* Clients page, and the dashboard with the reports behind it.  The page   *)
(* that is not mounted does not move.                                      *)
(***************************************************************************)
EXTENDS PanelHistory, AnalyticsHistory

CONSTANT Visits  \* what the Clients page may find: the clients, the query of its URL

VARIABLE page

pagesVars == <<page, historyVars, analyticsHistoryVars>>

PagesTypeOK == page \in {"clients", "dashboard"} /\ TypeOK /\ AnalyticsTypeOK

PagesInit ==
    /\ HistoryInit /\ AnalyticsHistoryInit
    /\ \/ /\ page = "clients" /\ usage = CHOOSE rows \in Tables : TRUE
          /\ [exists |-> exists, search |-> search] \in Visits
       \/ page = "dashboard" /\ exists = {} /\ search = Home

PagesNext ==
    /\ UNCHANGED page
    /\ \/ /\ page = "clients"
          /\ Next /\ TrackHistory
          /\ UNCHANGED analyticsHistoryVars
       \/ /\ page = "dashboard"
          /\ AnalyticsHistoryNext
          /\ UNCHANGED historyVars

PagesSpec == PagesInit /\ [][PagesNext]_pagesVars
=============================================================================
