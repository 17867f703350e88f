----------------------------- MODULE ControlState -----------------------------
(***************************************************************************)
(* The state the control plane is made of: the client rows in PostgreSQL,  *)
(* the user table and traffic counters of the running Xray process, the    *)
(* fields the API process keeps in memory, and what each task of the API   *)
(* has read before its current await.                                      *)
(***************************************************************************)
EXTENDS ClientPolicy, FiniteSets

CONSTANTS
    Clients,        \* client ids; one email tag each
    Lingering,      \* clients whose connections may outlive their user in Xray
    Requests,       \* slots for admin HTTP requests served concurrently
    Nobody,         \* "no client" in a task record
    Unknown,        \* the null of lastKnownXrayUptimeSeconds
    InitialDb,      \* client tables a start of the API may find
    Payloads,       \* update and create payloads the run submits
    ExtendDates,    \* dates an extension may ask for
    Operations,     \* request kinds the run submits
    MaxTime,        \* bound on the clock
    MaxTraffic,     \* bound on the traffic one client sends, or an item brings
    MaxRequests,    \* bound on the requests submitted
    MaxFaults,      \* bound on crashes, restarts and failed calls
    MaxEvents       \* bound on requests and faults together

OperationNames == {"create", "update", "extend", "reset", "remove", "list",
                   "dashboard", "syncAll", "import", "overwrite"}

ASSUME ControlAssumption ==
    /\ Lingering \subseteq Clients
    /\ Nobody \notin Clients
    /\ Unknown \notin Int
    /\ Keep \notin ClientStatus \cup Int \cup BOOLEAN \cup {NoDate, NoLimit}
    /\ InitialDb \subseteq [Clients -> Row]
    /\ Payloads \subseteq Payload
    /\ ExtendDates \subseteq Int
    /\ Operations \subseteq OperationNames
    /\ {MaxTime, MaxTraffic, MaxRequests, MaxFaults, MaxEvents} \subseteq Nat

VARIABLES
    now,          \* the clock both processes share
    db,           \* Client table
    usage,        \* DailyClientUsage, summed per client
    up,           \* Xray answers on its API port
    users,        \* clients in Xray's inbound user table
    counters,     \* traffic Xray counted since the last reset
    uptime,       \* Uptime of GetSysStats
    provisioned,  \* runtimeProvisioned
    lastUptime,   \* lastKnownXrayUptimeSeconds
    ensure,       \* ensureRuntimeProvisioned: the sample it awaits on, or Unknown
    snap,         \* inflightSnapshot and its local variables
    sync,         \* inflightSync and its local variables
    req,          \* the admin requests in progress
    faults,       \* faults so far
    issued,       \* requests so far
    sent,         \* traffic each client ever sent through Xray
    imported      \* traffic that imports put on record beyond what was there

dbVars   == <<db, usage>>
xrayVars == <<up, users, counters, uptime>>
memVars  == <<provisioned, lastUptime>>
envVars  == <<now, issued, sent, imported>>
vars == <<dbVars, xrayVars, memVars, envVars, ensure, snap, sync, req, faults>>

-------------------------------------------------------------------------------
(* Task records.  `pc` names the await the task is suspended at.           *)

SnapPc == {"idle", "query", "clients", "record", "quota", "usage",
           "quotaLoop", "quotaDrop", "access", "accessDrop"}

Snap == [pc      : SnapPc,
         delta   : [Clients -> Nat],       \* traffic drained, not yet recorded
         tags    : SUBSET Clients,         \* emailTags
         seen    : SUBSET Clients,         \* clients found for those tags
         active  : SUBSET Clients,         \* ... over their limits and ACTIVE
         breach  : SUBSET Clients,         \* ... over deviceLimit or ipLimit
         quota   : [Clients -> Limit],     \* trafficLimitBytes, NoLimit: not listed
         over    : SUBSET Clients,         \* clients still to block for quota
         cur     : Clients \cup {Nobody},  \* client whose removal is awaited
         waiters : SUBSET Requests]        \* requests awaiting the same promise

IdleSnap == [pc |-> "idle", delta |-> [c \in Clients |-> 0], tags |-> {},
             seen |-> {}, active |-> {}, breach |-> {},
             quota |-> [c \in Clients |-> NoLimit], over |-> {},
             cur |-> Nobody, waiters |-> {}]

Sync == [pc   : {"idle", "read", "loop", "readd"},
         rows : [Clients -> Row],          \* findMany of performSyncAllClients
         todo : SUBSET Clients,            \* rows not yet applied
         cur  : Clients \cup {Nobody}]     \* user between removal and re-adding

NoRows == [c \in Clients |-> NoRow("UNBORN")]

IdleSync == [pc |-> "idle", rows |-> NoRows, todo |-> {}, cur |-> Nobody]

ReqPc == {"idle", "snap", "await", "write", "reread", "sync", "readd",
          "sweepRead", "sweepWrite", "sweep", "find", "importWrite", "importSync"}

Req == [pc   : ReqPc,
        op   : OperationNames,
        c    : Clients \cup {Nobody},
        row  : Row,                        \* the client as this request read it
        todo : SUBSET Clients,             \* expiredClients; items of an import
        rows : [Clients -> Row]]           \* touchedClients of an import

IdleReq == [pc |-> "idle", op |-> "list", c |-> Nobody,
            row |-> NoRow("UNBORN"), todo |-> {}, rows |-> NoRows]

-------------------------------------------------------------------------------
\* The types of all variables, and that every counter respects its bound.
TypeOK ==
    /\ now \in 0..MaxTime
    /\ db \in [Clients -> Row]
    /\ usage \in [Clients -> Nat]
    /\ up \in BOOLEAN
    /\ users \subseteq Clients
    /\ counters \in [Clients -> Nat]
    /\ uptime \in 0..MaxTime
    /\ provisioned \in BOOLEAN
    /\ lastUptime \in Nat \cup {Unknown}
    /\ ensure \in Nat \cup {Unknown}
    /\ snap \in Snap
    /\ sync \in Sync
    /\ req \in [Requests -> Req]
    /\ faults \in 0..MaxFaults
    /\ issued \in 0..MaxRequests
    /\ sent \in [Clients -> 0..MaxTraffic]
    /\ imported \in [Clients -> Nat]

\* The API is up, Xray (which Docker starts after the API's container) is not yet.
Init ==
    /\ now = 0
    /\ db \in InitialDb
    /\ usage = [c \in Clients |-> 0]
    /\ up = FALSE
    /\ users = {}
    /\ counters = [c \in Clients |-> 0]
    /\ uptime = 0
    /\ provisioned = FALSE
    /\ lastUptime = Unknown
    /\ ensure = Unknown
    /\ snap = IdleSnap
    /\ sync = IdleSync
    /\ req = [r \in Requests |-> IdleReq]
    /\ faults = 0
    /\ issued = 0
    /\ sent = [c \in Clients |-> 0]
    /\ imported = [c \in Clients |-> 0]

-------------------------------------------------------------------------------
WithinBounds == issued + faults < MaxEvents

\* One unit of the fault budget.
Fault == faults < MaxFaults /\ WithinBounds /\ faults' = faults + 1

\* A gRPC call fails when Xray is down (waitForReady gives up) and otherwise
\* only by a fault of the connection.
CallFails == IF up THEN Fault ELSE UNCHANGED faults

\* The four outcomes of addOrReplaceUser's calls for client c: AddUser on a
\* free tag; "already exists" answered by RemoveUser (AddUser comes next);
\* RemoveUser, for which a missing user is no error; a call that fails.
\* KeepUser is a slip: a removal whose error is swallowed removes nobody.
KeepUser(c)   == up /\ UNCHANGED <<users, faults>>
AddUser(c)    == up /\ c \notin users /\ users' = users \cup {c} /\ UNCHANGED faults
DropUser(c)   == up /\ users' = users \ {c} /\ UNCHANGED faults
ReplaceUser(c) == c \in users /\ DropUser(c)
UserCallFails == CallFails /\ UNCHANGED users

\* The second AddUser of a replacement finds the tag taken again: it throws.
ReAddFails(c) == \/ UserCallFails
                 \/ up /\ c \in users /\ UNCHANGED <<users, faults>>

xrayRest == <<up, counters, uptime>>
===============================================================================
