----------------------------- MODULE Analytics -----------------------------
(***************************************************************************)
(* The usage table and what the panel computes from it: the snapshots that *)
(* fill it, one row for a client and a day, the connections shown for a    *)
(* client, and the reports of the dashboard and the analytics page.        *)
(*                                                                         *)
(* A report reads the tables with queries that run side by side, while     *)
(* clients are edited or imported, traffic is recorded and the day ends.   *)
(* Of the traffic of a row the total is kept, not the two directions.      *)
(***************************************************************************)
EXTENDS Naturals, FiniteSets
LOCAL INSTANCE FiniteSetsExt
LOCAL INSTANCE Functions

CONSTANTS
    Users,         \* client ids
    LastDay,       \* bound on the days
    Statuses,      \* of a client, "ACTIVE" among them
    Windows,       \* DASHBOARD_ANALYTICS_WINDOWS
    TrendDays,     \* DASHBOARD_TREND_DAYS
    ComparisonDays,
    Observations,  \* what Xray may say of one client
    Items,         \* usage that an item of an import may bring
    Tables,        \* usage tables to start with
    Expiring,      \* clients whose expiry date has passed
    MaxSnapshots, MaxEdits,
    MaxBusy,       \* bound on both together in a run with a report
    NoEntry, NoReport, Lost

VARIABLES
    today,
    status,     \* the status of a client, "gone" if there is no such client
    usage,      \* usage[u][d]: the row of client u for day d
    report,     \* the report being made
    snapshots, edits
analyticsVars == <<today, status, usage, report, snapshots, edits>>

Days == 0..LastDay
Entry == [bytes : Nat, conn : Nat]
Observation == [counted : BOOLEAN, online : BOOLEAN, bytes : Nat,
                addresses : Nat \cup {Lost}, fallback : Nat \cup {Lost}]
NoRows == [d \in Days |-> NoEntry]
ASSUME AnalyticsAssumption ==
    /\ IsFiniteSet(Users) /\ IsFiniteSet(Statuses)
    /\ "ACTIVE" \in Statuses /\ "EXPIRED" \in Statuses
    /\ ComparisonDays \in Nat /\ TrendDays = 2 * ComparisonDays
    /\ Windows \cup {TrendDays} \subseteq 1..LastDay
    /\ Tables \subseteq [Users -> [Days -> Entry \cup {NoEntry}]] /\ NoEntry \notin Entry
    /\ Items \subseteq Entry \cup {NoEntry}
    /\ \A rows \in Tables, u \in Users : rows[u][LastDay] = NoEntry
    /\ Observations \subseteq Observation /\ Lost \notin Nat
    /\ Statuses \cap {"gone", "clients", "count", "allTime", "usage", "latest", "trend"} = {}
    /\ Expiring \subseteq Users /\ {LastDay, MaxSnapshots, MaxEdits, MaxBusy} \subseteq Nat

Present == {u \in Users : status[u] # "gone"}

Reads == [analytics |-> {"clients", "allTime", "trend", "latest"},
          summary |-> {"count", "usage", "latest", "trend"} \cup Statuses]

\* pc, the window asked for, the day the first query is made, and the answers.
Blank == [pc |-> "idle", kind |-> "summary", window |-> TrendDays, day |-> 0,
          got |-> <<>>, view |-> NoReport]

AnalyticsTypeOK ==
    /\ today \in Days
    /\ status \in [Users -> Statuses \cup {"gone"}]
    /\ usage \in [Users -> [Days -> Entry \cup {NoEntry}]]
    /\ report.pc \in {"idle", "primed", "reading", "shown"}
    /\ snapshots \in 0..MaxSnapshots /\ edits \in 0..MaxEdits

AnalyticsInit ==
    /\ today = LastDay - 1
    /\ status = [u \in Users |-> "ACTIVE"]
    /\ usage \in Tables
    /\ report = Blank
    /\ snapshots = 0 /\ edits = 0

-------------------------------------------------------------------------------
(***************************************************************************)
(* The rows of a client.                                                   *)
(***************************************************************************)
HasRow(rows, d) == rows[d] # NoEntry
BytesOf(rows, d) == IF HasRow(rows, d) THEN rows[d].bytes ELSE 0
ConnOf(rows, d) == IF HasRow(rows, d) THEN rows[d].conn ELSE 0
Recorded(rows) == {d \in Days : HasRow(rows, d)}

\* The connections shown for a client: those of its latest row.
LatestConnections(rows) ==
    IF Recorded(rows) = {} THEN 0 ELSE rows[Max(Recorded(rows))].conn
TotalBytes(rows) == SumFunction([d \in Days |-> BytesOf(rows, d)])

-------------------------------------------------------------------------------
(***************************************************************************)
(* The usage snapshot, as far as this table goes.                          *)
(***************************************************************************)
\* The number of addresses a client is online from: GetStatsOnlineIpList, or
\* GetStatsOnline if that fails.
OnlineIpCount(o) ==
    CASE o.online /\ o.addresses # Lost -> o.addresses
      [] o.online /\ o.addresses = Lost /\ o.fallback # Lost -> o.fallback
      [] OTHER -> 0
ActiveConnections(o) == Max({OnlineIpCount(o), IF o.online THEN 1 ELSE 0})

\* Clients the stats or the online list name; a client's counters are listed
\* with no bytes as well.
Named(o) == o.counted \/ o.online
Observed(o) == o.bytes > 0 \/ ActiveConnections(o) > 0

\* A slip: connections of earlier days are not ended.
RowsToday(rows, o) ==
    LET zeroed == IF HasRow(rows, today) THEN [rows EXCEPT ![today].conn = 0] ELSE rows IN
    IF Observed(o)
    THEN [zeroed EXCEPT ![today] = [bytes |-> BytesOf(rows, today) + o.bytes,
                                    conn  |-> ActiveConnections(o)]]
    ELSE zeroed

\* The transaction: today's rows show no connection; a client that is not
\* named but connected in its latest row gets a row of today that says
\* otherwise; then every client that is named is recorded, if it did anything.
RowsAfter(rows, o) ==
    LET zeroed == IF HasRow(rows, today) THEN [rows EXCEPT ![today].conn = 0] ELSE rows IN
    CASE Named(o) /\ Observed(o) ->
            [zeroed EXCEPT ![today] = [bytes |-> BytesOf(rows, today) + o.bytes,
                                       conn  |-> ActiveConnections(o)]]
      [] ~Named(o) /\ LatestConnections(zeroed) # 0 ->
            [zeroed EXCEPT ![today] = [bytes |-> BytesOf(rows, today), conn |-> 0]]
      [] OTHER -> zeroed

Record(seen) ==
    usage' = [u \in Users |-> IF u \in Present THEN RowsAfter(usage[u], seen[u]) ELSE usage[u]]

\* Bound: `n` more snapshots or edits fit beside a report.
Fits(n) == snapshots + edits + n <= MaxBusy
IdleOrFits == report.pc # "idle" => Fits(1)

TakeSnapshot(seen) ==
    /\ snapshots < MaxSnapshots
    /\ snapshots' = snapshots + 1
    /\ Record(seen)

Snapshot(seen) ==
    /\ IdleOrFits /\ TakeSnapshot(seen)
    /\ UNCHANGED <<today, status, report, edits>>

-------------------------------------------------------------------------------
(***************************************************************************)
(* What else changes the tables: the other operations of the panel.        *)
(***************************************************************************)
Edit == edits < MaxEdits /\ IdleOrFits /\ edits' = edits + 1 /\ UNCHANGED <<report, snapshots>>

NoRowsOf(u) == [usage EXCEPT ![u] = NoRows]

ResetUsage(u) ==
    /\ Edit
    /\ u \in Present
    /\ usage' = NoRowsOf(u)
    /\ UNCHANGED <<today, status>>

\* The rows of a client go with it.
RemoveUser(u) ==
    /\ Edit
    /\ u \in Present
    /\ status' = [status EXCEPT ![u] = "gone"]
    /\ usage' = NoRowsOf(u)
    /\ UNCHANGED today

AddUser(u) ==
    /\ Edit
    /\ u \notin Present
    /\ status' = [status EXCEPT ![u] = "ACTIVE"]
    /\ UNCHANGED <<today, usage>>

MarkUser(u, s) ==
    /\ Edit
    /\ u \in Present
    /\ status' = [status EXCEPT ![u] = s]
    /\ UNCHANGED <<today, usage>>

\* An item of an import, for a client that it adds or overwrites: the rows of
\* the client give way to one of today with what the item says, or to none.
ImportUser(u, s, item) ==
    /\ Edit
    /\ status' = [status EXCEPT ![u] = s]
    /\ usage' = [usage EXCEPT ![u] = [NoRows EXCEPT ![today] = item]]
    /\ UNCHANGED today

Midnight ==
    /\ Edit
    /\ today < LastDay
    /\ today' = today + 1
    /\ UNCHANGED <<status, usage>>

-------------------------------------------------------------------------------
(***************************************************************************)
(* A report.  It begins with a snapshot, which may fail, and with marking  *)
(* the clients that have expired.                                          *)
(***************************************************************************)
PrimeDashboardData ==
    /\ report.pc = "idle"
    /\ \/ report' = [Blank EXCEPT !.pc = "primed"]
       \/ \E window \in Windows : report' = [Blank EXCEPT !.pc = "primed", !.kind = "analytics",
                                                         !.window = window]
    /\ UNCHANGED <<today, status, edits>>

Prime(seen) == Fits(1) /\ TakeSnapshot(seen) /\ PrimeDashboardData
PrimeWithoutSnapshot == Fits(0) /\ PrimeDashboardData /\ UNCHANGED <<usage, snapshots>>

StartReport ==
    /\ report.pc = "primed"
    /\ status' = [u \in Users |-> IF u \in Expiring /\ status[u] = "ACTIVE"
                                  THEN "EXPIRED" ELSE status[u]]
    /\ report' = [report EXCEPT !.pc = "reading", !.day = today]
    /\ UNCHANGED <<today, usage, snapshots, edits>>

\* A slip: the bucket of the current day is missing.
BucketDaysBefore(day, window) == {d \in Days : d < day /\ day < d + window}

\* The days of the buckets, and those the first query asks for.
BucketDays(day, window) == {d \in Days : d <= day /\ day < d + window}

\* What one query reads; the rows of a client exist only while it does.
ReadNow(q) ==
    CASE q = "clients" -> [u \in Present |-> status[u]]
      [] q = "count"   -> Cardinality(Present)
      [] q \in Statuses -> Cardinality({u \in Users : status[u] = q})
      [] q = "allTime" -> [u \in Users |-> TotalBytes(usage[u])]
      [] q = "usage"   -> SumFunction([u \in Users |-> TotalBytes(usage[u])])
      [] q = "latest"  -> [u \in Users |-> [conn |-> LatestConnections(usage[u]),
                                            status |-> status[u]]]
      [] q = "trend"   -> [u \in Users |-> [d \in Days |->
                              IF report.day < d + report.window THEN usage[u][d] ELSE NoEntry]]

\* The queries of Promise.all are answered one by one.
ReadQuery(q) ==
    /\ report.pc = "reading"
    /\ q \in Reads[report.kind] \ DOMAIN report.got
    /\ report' = [report EXCEPT !.got = [p \in DOMAIN @ \cup {q} |->
                                            IF p = q THEN ReadNow(q) ELSE @[p]]]
    /\ UNCHANGED <<today, status, usage, snapshots, edits>>

\* buildTrendBuckets: a bucket for each day up to the one that is current when
\* the report is built, with the rows that fall into it.
BucketBytes(trend, d) == SumFunction([u \in Users |-> BytesOf(trend[u], d)])
BucketActive(trend, d) == Cardinality({u \in Users : ConnOf(trend[u], d) > 0})
BytesIn(trend, days) == SumFunction([d \in days |-> BucketBytes(trend, d)])

\* buildDashboardTrends, for the summary.
BuildTrends(trend) ==
    LET days == BucketDays(today, TrendDays)
        recent == BucketDays(today, ComparisonDays)
        busiest == Max({BucketBytes(trend, d) : d \in days})
    IN [trend |-> BytesIn(trend, days), recent |-> BytesIn(trend, recent),
        previous |-> BytesIn(trend, days \ recent),
        average |-> BytesIn(trend, days) \div TrendDays,
        busiest |-> busiest,
        activeToday |-> BucketActive(trend, today),
        peakActive |-> Max({BucketActive(trend, d) : d \in days})]

BuildSummary(got) ==
    [counts |-> [s \in Statuses |-> got[s]], clients |-> got["count"],
     online |-> Cardinality({u \in Users : /\ got["latest"][u].conn > 0
                                           /\ got["latest"][u].status = "ACTIVE"}),
     usage |-> got["usage"], trends |-> BuildTrends(got["trend"])]

\* A client in the analytics: its traffic in the window is that of all the rows
\* that were read, in a bucket or not.
ClientRow(got, u) ==
    LET rows == got["trend"][u] IN
    [status |-> got["clients"][u], conn |-> got["latest"][u].conn,
     total |-> got["allTime"][u], window |-> TotalBytes(rows), today |-> BytesOf(rows, today),
     days |-> Cardinality({d \in Days : BytesOf(rows, d) > 0 \/ ConnOf(rows, d) > 0}),
     peak |-> Max({ConnOf(rows, d) : d \in Days})]

\* The order of the clients, up to their names.
Above(x, y) ==
    \/ x.window > y.window
    \/ x.window = y.window /\ (\/ x.today > y.today
                               \/ x.today = y.today /\ x.total > y.total)

\* buildDashboardAnalytics.
BuildAnalytics(got, window) ==
    LET clients == [u \in DOMAIN got["clients"] |-> ClientRow(got, u)]
        days == BucketDays(today, window)
        busy == {u \in DOMAIN clients : clients[u].window > 0}
    IN [clients |-> clients,
        total |-> SumFunction(got["allTime"]),
        window |-> BytesIn(got["trend"], days),
        average |-> BytesIn(got["trend"], days) \div window,
        today |-> BucketBytes(got["trend"], today),
        activeToday |-> BucketActive(got["trend"], today),
        peakActive |-> Max({BucketActive(got["trend"], d) : d \in days}),
        withTraffic |-> Cardinality(busy),
        online |-> Cardinality({u \in DOMAIN clients : /\ clients[u].conn > 0
                                                       /\ clients[u].status = "ACTIVE"}),
        top |-> {u \in busy : \A v \in busy : ~Above(clients[v], clients[u])}]

BuildReport ==
    /\ report.pc = "reading" /\ DOMAIN report.got = Reads[report.kind]
    /\ report' = [report EXCEPT !.pc = "shown", !.got = <<>>,
                      !.view = IF report.kind = "summary" THEN BuildSummary(report.got)
                               ELSE BuildAnalytics(report.got, report.window)]
    /\ UNCHANGED <<today, status, usage, snapshots, edits>>

SnapshotStep(seen) == Snapshot(seen) \/ Prime(seen)
EditStep ==
    \/ \E u \in Users : \/ ResetUsage(u) \/ RemoveUser(u) \/ AddUser(u)
                        \/ \E s \in Statuses : MarkUser(u, s)
    \/ Midnight
ImportStep(u, item) == \E s \in Statuses : ImportUser(u, s, item)
ReportStep ==
    \/ PrimeWithoutSnapshot \/ StartReport
    \/ \E q \in UNION {Reads[k] : k \in DOMAIN Reads} : ReadQuery(q)
    \/ BuildReport

AnalyticsNext ==
    \/ \E seen \in [Users -> Observations] : SnapshotStep(seen)
    \/ \E u \in Users, item \in Items : ImportStep(u, item)
    \/ EditStep \/ ReportStep

AnalyticsSpec == AnalyticsInit /\ [][AnalyticsNext]_analyticsVars
============================================================================
