------------------------------ MODULE XrayService ------------------------------
(***************************************************************************)
(* The Xray process and the tasks XrayService runs against it: the usage   *)
(* snapshot with its enforcement of quotas and access limits, the full     *)
(* synchronisation, and the periodic check that decides when to run one.   *)
(* Each action is the code between two awaits of a task.                   *)
(***************************************************************************)
EXTENDS ControlState

(***************************************************************************)
(* The environment: time, the Xray process and its traffic, API restarts.  *)
(***************************************************************************)

Tick ==
    /\ now < MaxTime
    /\ now' = now + 1
    /\ uptime' = IF up THEN uptime + 1 ELSE uptime
    /\ UNCHANGED <<dbVars, up, users, counters, memVars, issued, sent, imported,
                   ensure, snap, sync, req, faults>>

\* The rendered configuration has no clients: Xray starts with an empty table.
XrayStart ==
    /\ ~up
    /\ up' = TRUE
    /\ UNCHANGED <<dbVars, users, counters, uptime, memVars, envVars,
                   ensure, snap, sync, req, faults>>

XrayStop ==
    /\ up
    /\ Fault
    /\ up' = FALSE
    /\ users' = {}
    /\ counters' = [c \in Clients |-> 0]
    /\ uptime' = 0
    /\ UNCHANGED <<dbVars, memVars, envVars, ensure, snap, sync, req>>

\* Who may be online and send: the users, and clients whose open connections
\* outlive their user, as a removal closes none.
Connected == users \cup {c \in Lingering : db[c].status # "UNBORN"}

Traffic(c) ==
    /\ up
    /\ c \in Connected
    /\ sent[c] < MaxTraffic
    /\ sent' = [sent EXCEPT ![c] = @ + 1]
    /\ counters' = [counters EXCEPT ![c] = @ + 1]
    /\ UNCHANGED <<dbVars, up, users, uptime, memVars, now, issued, imported,
                   ensure, snap, sync, req, faults>>

\* A new process has the field initialisers; every suspended task is gone.
ApiRestart ==
    /\ Fault
    /\ provisioned' = FALSE
    /\ lastUptime' = Unknown
    /\ ensure' = Unknown
    /\ snap' = IdleSnap
    /\ sync' = IdleSync
    /\ req' = [r \in Requests |-> IdleReq]
    /\ UNCHANGED <<dbVars, xrayVars, envVars>>

-------------------------------------------------------------------------------
(***************************************************************************)
(* captureUsageSnapshot.  A request awaiting the promise continues in the  *)
(* step that settles it: Settled is what each waiter then does.            *)
(***************************************************************************)

\* A slip that never releases the requests that joined.
SettledNobody == req

Settled == [r \in Requests |->
    IF r \notin snap.waiters THEN req[r]
    ELSE IF req[r].op = "list" THEN IdleReq
    ELSE [req[r] EXCEPT !.pc = "write"]]

SnapFail ==
    /\ provisioned' = FALSE
    /\ snap' = IdleSnap
    /\ req' = Settled

\* The interval timer (force: true); requests start one through JoinSnapshot.
SnapTimer ==
    /\ snap.pc = "idle"
    /\ snap' = [snap EXCEPT !.pc = "query"]
    /\ UNCHANGED <<dbVars, xrayVars, memVars, envVars, ensure, sync, req, faults>>

\* QueryStats with reset: true; without the reset, the next one counts again.
DrainNothing == UNCHANGED counters
Drain == counters' = [c \in Clients |-> 0]

\* The drain, together with GetAllOnlineUsers and the online
\* address counts of each user.
SnapQuery ==
    /\ snap.pc = "query"
    /\ up
    /\ \E online \in SUBSET Connected :
         snap' = [snap EXCEPT !.pc    = "clients",
                              !.delta = counters,
                              !.tags  = online \cup {c \in Clients : counters[c] > 0}]
    /\ Drain
    /\ UNCHANGED <<dbVars, up, users, uptime, memVars, envVars, ensure, sync,
                   req, faults>>

\* Either call of the pair fails; the reset may have been carried out.
SnapQueryFails ==
    /\ snap.pc = "query"
    /\ CallFails
    /\ UNCHANGED counters \/ (up /\ Drain)
    /\ SnapFail
    /\ UNCHANGED <<dbVars, up, users, uptime, lastUptime, envVars, ensure, sync>>

\* The clients of the tags; a slip would look for the active ones alone.
FoundActive == {c \in snap.tags : db[c].status = "ACTIVE"}
Found == {c \in snap.tags : Stored(db[c])}

\* findMany of the tags; deviceLimit and ipLimit are compared with the address
\* counts later, on the limits read here: any online client may be over them.
SnapClients ==
    /\ snap.pc = "clients"
    /\ \E over \in SUBSET Found :
         snap' = [snap EXCEPT !.pc     = "record",
                              !.seen   = Found,
                              !.active = {c \in over : db[c].status = "ACTIVE"},
                              !.breach = over]
    /\ UNCHANGED <<dbVars, xrayVars, memVars, envVars, ensure, sync, req, faults>>

\* The upsert increments; slips would decrement, or add the total on top of the
\* two directions.
RecordedTwice == [c \in Clients |->
    IF c \in snap.seen THEN usage[c] + 2 * snap.delta[c] ELSE usage[c]]
RecordedBackwards == [c \in Clients |->
    IF c \in snap.seen THEN usage[c] - snap.delta[c] ELSE usage[c]]
Recorded == [c \in Clients |->
    IF c \in snap.seen THEN usage[c] + snap.delta[c] ELSE usage[c]]

\* The transaction that adds the deltas.  Without tags enforcement is skipped.
SnapRecord ==
    /\ snap.pc = "record"
    /\ \A c \in snap.seen : Stored(db[c])
    /\ usage' = Recorded
    /\ snap' = [snap EXCEPT !.pc    = IF snap.tags = {} THEN "access" ELSE "quota",
                            !.delta = [c \in Clients |-> 0],
                            !.seen  = {}]
    /\ UNCHANGED <<db, xrayVars, memVars, envVars, ensure, sync, req, faults>>

\* A row of `seen` deleted since makes the whole transaction fail, as does the
\* database; the deltas of every client are gone with it.
SnapRecordFails ==
    /\ snap.pc = "record"
    /\ IF \A c \in snap.seen : Stored(db[c]) THEN Fault ELSE UNCHANGED faults
    /\ SnapFail
    /\ UNCHANGED <<dbVars, xrayVars, lastUptime, envVars, ensure, sync>>

\* enforceTrafficQuotas: the limits of the tags, then their summed usage.
SnapQuota ==
    /\ snap.pc = "quota"
    /\ LET limits == [c \in Clients |->
                        IF c \in snap.tags /\ Stored(db[c]) /\ ~db[c].unlimited
                        THEN db[c].limit ELSE NoLimit]
       IN  snap' = [snap EXCEPT
             !.pc    = IF \E c \in Clients : limits[c] # NoLimit THEN "usage" ELSE "access",
             !.quota = limits]
    /\ UNCHANGED <<dbVars, xrayVars, memVars, envVars, ensure, sync, req, faults>>

\* The loop goes on until no client is left.
AfterQuota(over) == IF over = {} THEN "access" ELSE "quotaLoop"

\* Limits are reached at equality; a slip would only see them exceeded.
QuotaExceeded == {c \in Clients : snap.quota[c] # NoLimit /\ usage[c] > snap.quota[c]}
QuotaSpent == {c \in Clients : snap.quota[c] # NoLimit /\ usage[c] >= snap.quota[c]}

SnapUsage ==
    /\ snap.pc = "usage"
    /\ snap' = [snap EXCEPT !.pc = AfterQuota(QuotaSpent), !.over = QuotaSpent,
                            !.quota = [c \in Clients |-> NoLimit]]
    /\ UNCHANGED <<dbVars, xrayVars, memVars, envVars, ensure, sync, req, faults>>

\* The update has no condition on the status: it also turns DISABLED and
\* EXPIRED rows into BLOCKED ones.
SnapQuotaBlock(c) ==
    /\ snap.pc = "quotaLoop"
    /\ c \in snap.over
    /\ Stored(db[c])
    /\ db' = [db EXCEPT ![c].status = "BLOCKED"]
    /\ snap' = [snap EXCEPT !.pc = "quotaDrop", !.cur = c]
    /\ UNCHANGED <<usage, xrayVars, memVars, envVars, ensure, sync, req, faults>>

\* update() of a row deleted since the limits were read throws.
SnapQuotaBlockFails(c) ==
    /\ snap.pc = "quotaLoop"
    /\ c \in snap.over
    /\ ~Stored(db[c])
    /\ SnapFail
    /\ UNCHANGED <<dbVars, xrayVars, lastUptime, envVars, ensure, sync, faults>>

SnapQuotaDrop ==
    /\ snap.pc = "quotaDrop"
    /\ DropUser(snap.cur)
    /\ LET over == snap.over \ {snap.cur}
       IN  snap' = [snap EXCEPT !.pc = AfterQuota(over), !.over = over, !.cur = Nobody]
    /\ UNCHANGED <<dbVars, xrayRest, memVars, envVars, ensure, sync, req>>

\* enforceClientAccessLimits: the guarded update of a client that was ACTIVE
\* when read, then its removal whatever the update found.
SnapAccessBlock(c) ==
    /\ snap.pc = "access"
    /\ c \in snap.breach
    /\ db' = IF c \in snap.active /\ db[c].status = "ACTIVE"
             THEN [db EXCEPT ![c].status = "BLOCKED"] ELSE db
    /\ snap' = [snap EXCEPT !.pc = "accessDrop", !.cur = c]
    /\ UNCHANGED <<usage, xrayVars, memVars, envVars, ensure, sync, req, faults>>

SnapAccessDrop ==
    /\ snap.pc = "accessDrop"
    /\ DropUser(snap.cur)
    /\ snap' = [snap EXCEPT !.pc = "access", !.breach = @ \ {snap.cur}, !.cur = Nobody]
    /\ UNCHANGED <<dbVars, xrayRest, memVars, envVars, ensure, sync, req>>

\* A failing removal ends the snapshot: the clients after it stay unenforced.
SnapDropFails ==
    /\ snap.pc \in {"quotaDrop", "accessDrop"}
    /\ UserCallFails
    /\ SnapFail
    /\ UNCHANGED <<dbVars, xrayRest, lastUptime, envVars, ensure, sync>>

\* Success is taken as a proof that the runtime is provisioned.
SnapEnd ==
    /\ snap.pc = "access"
    /\ snap.breach = {}
    /\ provisioned' = TRUE
    /\ snap' = IdleSnap
    /\ req' = Settled
    /\ UNCHANGED <<dbVars, xrayVars, lastUptime, envVars, ensure, sync, faults>>

SnapStep ==
    \/ SnapQuery \/ SnapQueryFails
    \/ SnapClients
    \/ SnapRecord \/ SnapRecordFails
    \/ SnapQuota \/ SnapUsage
    \/ \E c \in Clients : \/ SnapQuotaBlock(c)
                          \/ SnapQuotaBlockFails(c)
                          \/ SnapAccessBlock(c)
    \/ SnapQuotaDrop \/ SnapAccessDrop \/ SnapDropFails
    \/ SnapEnd

-------------------------------------------------------------------------------
(***************************************************************************)
(* syncAllClients and performSyncAllClients: one read of the whole table,  *)
(* then a call per row of that read.  Ids without a row are never visited. *)
(***************************************************************************)

\* Joining the promise in progress changes nothing.
JoinSync == sync' = IF sync.pc = "idle" THEN [sync EXCEPT !.pc = "read"] ELSE sync

\* The pass ends after the last row; a slip would end it one row early.
SyncDoneEarly(todo) ==
    IF Cardinality(todo) <= 1 THEN IdleSync
    ELSE [sync EXCEPT !.pc = "loop", !.todo = todo, !.cur = Nobody]
SyncDone(todo) ==
    IF todo = {} THEN IdleSync
    ELSE [sync EXCEPT !.pc = "loop", !.todo = todo, !.cur = Nobody]

SyncRead ==
    /\ sync.pc = "read"
    /\ LET found == {c \in Clients : Stored(db[c])}
       IN  /\ sync' = IF found = {} THEN IdleSync
                      ELSE [sync EXCEPT !.pc = "loop", !.rows = db, !.todo = found]
           /\ provisioned' = (provisioned \/ found = {})
    /\ UNCHANGED <<dbVars, xrayVars, lastUptime, envVars, ensure, snap, req, faults>>

SyncAdd(c) ==
    /\ sync.pc = "loop"
    /\ c \in sync.todo
    /\ Servable(sync.rows[c], now)
    /\ \/ /\ AddUser(c)
          /\ sync' = SyncDone(sync.todo \ {c})
          /\ provisioned' = (provisioned \/ sync.todo = {c})
       \/ /\ ReplaceUser(c)
          /\ sync' = [sync EXCEPT !.pc = "readd", !.cur = c]
          /\ UNCHANGED provisioned
    /\ UNCHANGED <<dbVars, xrayRest, lastUptime, envVars, ensure, snap, req>>

SyncReAdd ==
    /\ sync.pc = "readd"
    /\ AddUser(sync.cur)
    /\ sync' = SyncDone(sync.todo \ {sync.cur})
    /\ provisioned' = (provisioned \/ sync.todo = {sync.cur})
    /\ UNCHANGED <<dbVars, xrayRest, lastUptime, envVars, ensure, snap, req>>

SyncDrop(c) ==
    /\ sync.pc = "loop"
    /\ c \in sync.todo
    /\ ~Servable(sync.rows[c], now)
    /\ DropUser(c)
    /\ sync' = SyncDone(sync.todo \ {c})
    /\ provisioned' = (provisioned \/ sync.todo = {c})
    /\ UNCHANGED <<dbVars, xrayRest, lastUptime, envVars, ensure, snap, req>>

\* The pass is abandoned; runtimeProvisioned keeps its value.
SyncFails ==
    /\ \/ sync.pc = "loop" /\ UserCallFails
       \/ sync.pc = "readd" /\ ReAddFails(sync.cur)
    /\ sync' = IdleSync
    /\ UNCHANGED <<dbVars, xrayRest, memVars, envVars, ensure, snap, req>>

SyncStep ==
    \/ SyncRead
    \/ \E c \in Clients : SyncAdd(c) \/ SyncDrop(c)
    \/ SyncReAdd
    \/ SyncFails

-------------------------------------------------------------------------------
(***************************************************************************)
(* ensureRuntimeProvisioned, the periodic reconciler, and the runtime      *)
(* summary it shares with the HTTP endpoints.                              *)
(***************************************************************************)

SummaryFails ==
    /\ CallFails
    /\ provisioned' = FALSE
    /\ UNCHANGED <<dbVars, xrayVars, lastUptime, envVars, ensure, snap, sync, req>>

\* getRuntimeSummary of the profiles, system and dashboard endpoints.
Probe == provisioned /\ SummaryFails

\* The timer fires and Xray answers; the API has yet to resume.
EnsureSample ==
    /\ ensure = Unknown
    /\ \/ /\ up
          /\ ensure' = uptime
          /\ UNCHANGED <<dbVars, xrayVars, memVars, envVars, snap, sync, req, faults>>
       \/ SummaryFails

EnsureDecide ==
    /\ ensure # Unknown
    /\ lastUptime' = ensure
    /\ ensure' = Unknown
    /\ IF ~provisioned \/ (lastUptime # Unknown /\ ensure < lastUptime)
       THEN JoinSync
       ELSE UNCHANGED sync
    /\ UNCHANGED <<dbVars, xrayVars, provisioned, envVars, snap, req, faults>>
===============================================================================
