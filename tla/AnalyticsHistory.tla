-------------------------- MODULE AnalyticsHistory --------------------------
(***************************************************************************)
(* Analytics with history variables, which never influence a step: what    *)
(* changed while a report was read, and what the last snapshot saw.        *)
(***************************************************************************)
EXTENDS Analytics
LOCAL INSTANCE Functions

VARIABLES
    moved,     \* what changed since the first query of the report
    lastSeen   \* the last snapshot: its day, the clients that it, or an import
               \* since, calls connected, those whose counters it found at rest

analyticsHistoryVars == <<analyticsVars, moved, lastSeen>>

SeenBy(seen) ==
    [day |-> today,
     online |-> {u \in Present : ActiveConnections(seen[u]) > 0},
     atRest |-> {u \in Present : seen[u].counted /\ ~Observed(seen[u])}]

\* A client whose rows are removed is not shown connected until it is seen again.
WithoutRows == [lastSeen EXCEPT !.online = {u \in @ : Recorded(usage'[u]) # {}}]

\* A client that is imported is shown as its item says.
ImportedAs(u, item) ==
    [lastSeen EXCEPT !.online = IF item # NoEntry /\ item.conn > 0 THEN @ \cup {u} ELSE @ \ {u}]

Moved ==
    {x \in {"clients", "usage", "midnight"} :
        \/ x = "clients" /\ status' # status
        \/ x = "usage" /\ usage' # usage
        \/ x = "midnight" /\ today' # today}

Watch ==
    moved' = CASE report.pc = "reading" -> moved \cup Moved
               [] report.pc = "shown" -> moved
               [] OTHER -> {}

AnalyticsHistoryInit ==
    /\ AnalyticsInit
    /\ moved = {}
    /\ lastSeen = [day |-> today, atRest |-> {},
                   online |-> {u \in Users : LatestConnections(usage[u]) > 0}]

AnalyticsHistoryNext ==
    /\ \/ \E seen \in [Users -> Observations] : SnapshotStep(seen) /\ lastSeen' = SeenBy(seen)
       \/ \E u \in Users, item \in Items : ImportStep(u, item) /\ lastSeen' = ImportedAs(u, item)
       \/ (EditStep \/ ReportStep) /\ lastSeen' = WithoutRows
    /\ Watch

AnalyticsHistorySpec == AnalyticsHistoryInit /\ [][AnalyticsHistoryNext]_analyticsHistoryVars

-------------------------------------------------------------------------------
\* The numbers of a report agree although its queries see different moments:
\* the traffic of the clients adds up to that of the buckets, no client has
\* more in the window than in all, the statuses add up to the clients, nobody
\* is online who is not counted as active.  Only a change of the tables in
\* question or the end of the day, between the queries, sets them apart
\* (summary, analyticsWithWindow and what they build).
ReportAddsUp ==
    LET v == report.view IN
    report.pc = "shown" =>
        CASE report.kind = "analytics" ->
                /\ moved \cap {"clients", "midnight"} = {} =>
                      /\ SumFunction([u \in DOMAIN v.clients |-> v.clients[u].window]) = v.window
                      /\ SumFunction([u \in DOMAIN v.clients |-> v.clients[u].today]) = v.today
                /\ moved \cap {"clients", "usage"} = {} =>
                      \A u \in DOMAIN v.clients : v.clients[u].window <= v.clients[u].total
          [] report.kind = "summary" ->
                /\ "clients" \notin moved =>
                      /\ SumFunction(v.counts) = v.clients
                      /\ v.online <= v.counts["ACTIVE"]
                /\ moved \cap {"clients", "usage"} = {} => v.trends.trend <= v.usage
                /\ v.trends.recent + v.trends.previous = v.trends.trend

\* A client is shown connected if the last snapshot saw it so, or an import
\* since says so of it, and otherwise only in one case: the day has changed
\* since it was, and Xray still names its counters, with nothing in them
\* (performCaptureUsageSnapshot, importSingleClient).  No order of snapshots,
\* days, imports, resets and deletions leaves anybody else online.
OnlineExplained ==
    \A u \in Present :
        /\ u \in lastSeen.online => LatestConnections(usage[u]) > 0
        /\ LatestConnections(usage[u]) > 0 =>
              \/ u \in lastSeen.online
              \/ u \in lastSeen.atRest /\ ~HasRow(usage[u], lastSeen.day)
=============================================================================
