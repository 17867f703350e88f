---------------------------- MODULE ControlHistory ----------------------------
(***************************************************************************)
(* ControlPlane with history variables, which never influence a step and   *)
(* only record why the client table and the runtime may differ, so that    *)
(* the guarantees the code does give can be stated exactly.                *)
(***************************************************************************)
EXTENDS ControlPlane

VARIABLES
    drift,        \* clients with a known cause for being out of step
    syncTouched,  \* clients others changed since the full sync read them
    snapTouched   \* clients others changed since the snapshot read their quota

historyVars == <<vars, drift, syncTouched, snapTouched>>

\* The tasks that have read c and have something left to do with it.
HeldByRequest(r, c) ==
    \/ req[r].pc # "idle" /\ req[r].c = c /\ req[r].op # "list"
    \/ c \in req[r].todo \/ Stored(req[r].rows[c])
HeldBySnap(c) == c \in snap.tags
HeldBySync(c) == c \in sync.todo

Quiet(c) == /\ \A r \in Requests : ~HeldByRequest(r, c)
            /\ ~HeldBySnap(c)
            /\ ~HeldBySync(c)

\* Two tasks work on c at the same time.
Contended(c) ==
    \/ HeldBySnap(c) /\ HeldBySync(c)
    \/ \E r \in Requests : /\ HeldByRequest(r, c)
                           /\ \/ HeldBySnap(c) \/ HeldBySync(c)
                              \/ \E q \in Requests \ {r} : HeldByRequest(q, c)

\* Reasons for which this step may leave c out of step: a fault or a call to a
\* stopped Xray, the clock reaching its expiry date, two tasks at once, an
\* import that ends with an item that throws after it stored c, an access limit
\* that removes c without blocking it.
CallLost(c) ==
    /\ UNCHANGED users
    /\ \/ \E r \in Requests : /\ req[r].pc \in {"sync", "readd"} /\ req[r].c = c
                              /\ req'[r].pc \notin {"sync", "readd"}
       \/ \E r \in Requests : req[r].pc = "sweep" /\ c \in req[r].todo \ req'[r].todo
       \/ \E r \in Requests : Stored(req[r].rows[c]) /\ ~Stored(req'[r].rows[c])
       \/ snap.cur = c /\ snap'.pc = "idle"
       \/ sync.cur = c /\ sync'.pc = "idle"

Expires(c) == ~IsExpired(db[c], now) /\ IsExpired(db[c], now')

Abandoned(c) == \E r \in Requests : /\ req[r].pc = "importWrite" /\ req'[r].pc = "idle"
                                     /\ Stored(req[r].rows[c])

\* A row marked EXPIRED after its date had moved on is served, and breaches of
\* the access limits block ACTIVE rows alone, but remove any.
Unblocked(c) == /\ SnapAccessDrop /\ snap.cur = c
                /\ db[c].status = "EXPIRED" /\ ~IsExpired(db[c], now)

DriftCause(c) ==
    \/ Abandoned(c) \/ Unblocked(c)
    \/ up' # up \/ faults' # faults
    \/ ~up /\ CallLost(c)
    \/ Expires(c)
    \/ Contended(c) \/ Contended(c)'

Changed(c) == db'[c] # db[c] \/ usage'[c] # usage[c] \/ (c \in users') # (c \in users)

TrackHistory ==
    /\ drift' = {c \in Clients : /\ (c \in drift \/ DriftCause(c))
                                 /\ ~(Quiet(c)' /\ InStep(c)')}
    /\ syncTouched' =
         IF sync'.pc \in {"idle", "read"} \/ sync.pc = "read" THEN {}
         ELSE {c \in Clients : c \in syncTouched \/ Expires(c)
                              \/ (UNCHANGED sync /\ Changed(c))}
    /\ snapTouched' =
         IF snap'.pc \in {"idle", "query", "clients", "record", "quota"} THEN {}
         ELSE {c \in Clients : c \in snapTouched \/ (UNCHANGED snap /\ Changed(c))}

HistoryInit ==
    /\ Init
    /\ drift = {c \in Clients : ~InStep(c)}
    /\ syncTouched = {}
    /\ snapTouched = {}

HistoryNext == Next /\ TrackHistory

HistorySpec == HistoryInit /\ [][HistoryNext]_historyVars

FairHistorySpec == HistorySpec /\ Fairness

-------------------------------------------------------------------------------
\* Table and runtime differ on a client that no task is working on only for a
\* known cause: a fault or lost call, an expiry, two tasks on one client, an import
\* that throws half-way, or an access limit breached by a client that is served
\* though its row says EXPIRED.
\* Every other path through the requests and the enforcement ends in step.
DriftExplained == \A c \in Clients : Quiet(c) /\ ~InStep(c) => c \in drift

\* When a full sync completes, every stored client that nobody else changed
\* since the table was read is served exactly if its row says so.
SyncRepairs ==
    [][(SyncReAdd \/ \E c \in Clients : SyncAdd(c) \/ SyncDrop(c)) /\ sync'.pc = "idle" =>
          \A c \in Clients \ syncTouched : Stored(db[c]) => InStep(c)']_historyVars

\* When a snapshot succeeds, every client it reported traffic or presence of,
\* and that nobody else changed since its quota was read, is blocked and out
\* of Xray if its recorded usage has reached its limit.
QuotaEnforced ==
    [][SnapEnd => \A c \in snap.tags \ snapTouched :
          Stored(db[c]) /\ OverQuota(db[c], usage[c]) =>
             db[c].status = "BLOCKED" /\ c \notin users]_historyVars
===============================================================================
