---------------------------- MODULE ClientsService ----------------------------
(***************************************************************************)
(* The admin requests that read or change clients: ClientsService, the     *)
(* priming of the dashboard, and the manual synchronisation endpoint.      *)
(* A request keeps the row it read first and works from it after each      *)
(* await, whatever happened to the stored row meanwhile.                   *)
(***************************************************************************)
EXTENDS XrayService

\* The next state of one request, and the end of one.
Go(r, rec) == req' = [req EXCEPT ![r] = rec]
Finish(r)  == Go(r, IdleReq)

\* What a request leaves alone unless it says otherwise.
taskVars == <<ensure, snap, sync>>

\* A request enters its first await with the row it has just read.
Begin(r, op, c, pc) ==
    Go(r, [op |-> op, c |-> c, pc |-> pc, todo |-> {}, rows |-> NoRows,
           row |-> IF c = Nobody THEN NoRow("UNBORN") ELSE db[c]])

Submit(r, op) ==
    /\ op \in Operations
    /\ req[r].pc = "idle"
    /\ issued < MaxRequests /\ WithinBounds
    /\ issued' = issued + 1

-------------------------------------------------------------------------------
(***************************************************************************)
(* Requests arriving: up to their first await after reading the client.    *)
(***************************************************************************)

\* create: the transaction is the first thing that touches the client.
Create(r, c) ==
    /\ Submit(r, "create")
    /\ db[c].status = "UNBORN"
    /\ \E p \in Payloads :
         /\ db' = [db EXCEPT ![c] = Created(p, now)]
         /\ Go(r, [IdleReq EXCEPT !.op = "create", !.c = c, !.pc = "sync",
                                  !.row = Created(p, now)])
    /\ UNCHANGED <<usage, xrayVars, memVars, now, sent, imported, taskVars, faults>>

\* requireManageableClient of update, extend, resetTraffic and remove.
ReadClient(r, op, c) ==
    /\ op \in {"update", "extend", "reset", "remove"}
    /\ Submit(r, op)
    /\ Stored(db[c])
    /\ Begin(r, op, c, IF op \in {"update", "extend"} THEN "write" ELSE "snap")
    /\ UNCHANGED <<dbVars, xrayVars, memVars, now, sent, imported, taskVars, faults>>

\* list, getById and exportClients begin with expireClients, the dashboard
\* with the snapshot.
ReadClients(r, op) ==
    /\ op \in {"list", "dashboard"}
    /\ Submit(r, op)
    /\ Begin(r, op, Nobody, IF op = "list" THEN "sweepRead" ELSE "snap")
    /\ UNCHANGED <<dbVars, xrayVars, memVars, now, sent, imported, taskVars, faults>>

\* POST of the manual synchronisation; nothing follows the shared promise.
SyncEndpoint(r) ==
    /\ Submit(r, "syncAll")
    /\ JoinSync
    /\ UNCHANGED <<dbVars, xrayVars, memVars, now, sent, imported, ensure, snap, req, faults>>

-------------------------------------------------------------------------------
(***************************************************************************)
(* captureUsageSnapshotBestEffort and the dashboard's own call of it.      *)
(***************************************************************************)

\* All requests that await one promise.
Joined(r) == snap.waiters \cup {r}

JoinSnapshot(r) ==
    /\ req[r].pc = "snap"
    /\ snap' = [snap EXCEPT !.pc = IF @ = "idle" THEN "query" ELSE @,
                            !.waiters = Joined(r)]
    /\ Go(r, [req[r] EXCEPT !.pc = "await"])
    /\ UNCHANGED <<dbVars, xrayVars, memVars, envVars, ensure, sync, faults>>

\* Without force, a snapshot of the last interval is recent enough; how recent
\* the last one is, is left open.
SkipSnapshot(r) ==
    /\ req[r].pc = "snap"
    /\ req[r].op \in {"list", "dashboard"}
    /\ IF req[r].op = "list" THEN Finish(r) ELSE Go(r, [req[r] EXCEPT !.pc = "write"])
    /\ UNCHANGED <<dbVars, xrayVars, memVars, envVars, taskVars, faults>>

-------------------------------------------------------------------------------
(***************************************************************************)
(* The write transactions.                                                 *)
(***************************************************************************)

\* A transaction of op on the client of r, whose row must still exist.
Writes(r, op) == req[r].pc = "write" /\ req[r].op = op /\ Stored(db[req[r].c])

\* A slip that stores the row and leaves Xray as it is.
StoreOnly(r, row) == db' = [db EXCEPT ![req[r].c] = row] /\ Finish(r)
StoreAndSync(r, row) ==
    /\ db' = [db EXCEPT ![req[r].c] = row]
    /\ Go(r, [req[r] EXCEPT !.pc = "sync", !.row = row])

UpdateWrite(r) ==
    /\ Writes(r, "update")
    /\ \E p \in Payloads :
         StoreAndSync(r, Updated(req[r].row, db[req[r].c], p, now))
    /\ UNCHANGED <<usage, xrayVars, memVars, envVars, taskVars, faults>>

\* ACTIVE is stored whatever the status, the new date and the quota are;
\* without days or date, the date stored is the one read before.
ExtendWrite(r) ==
    /\ Writes(r, "extend")
    /\ \E d \in ExtendDates \cup ({req[r].row.expiresAt} \ {NoDate}) :
         StoreAndSync(r, [db[req[r].c] EXCEPT !.expiresAt = d, !.status = "ACTIVE"])
    /\ UNCHANGED <<usage, xrayVars, memVars, envVars, taskVars, faults>>

\* An extension without days or date of a client without expiry only reads.
ExtendNothing(r) ==
    /\ req[r].pc = "write" /\ req[r].op = "extend"
    /\ req[r].row.expiresAt = NoDate
    /\ Go(r, [req[r] EXCEPT !.pc = "sweepRead", !.op = "list"])
    /\ UNCHANGED <<dbVars, xrayVars, memVars, envVars, taskVars, faults>>

ResetWrite(r) ==
    /\ Writes(r, "reset")
    /\ usage' = [usage EXCEPT ![req[r].c] = 0]
    /\ db' = [db EXCEPT ![req[r].c].status = StatusAfterReset(req[r].row, now)]
    /\ Go(r, [req[r] EXCEPT !.pc = "reread"])
    /\ UNCHANGED <<xrayVars, memVars, envVars, taskVars, faults>>

\* Usage rows go with the client; the sync runs on a DISABLED copy of the row.
RemoveWrite(r) ==
    /\ Writes(r, "remove")
    /\ usage' = [usage EXCEPT ![req[r].c] = 0]
    /\ db' = [db EXCEPT ![req[r].c] = NoRow("DELETED")]
    /\ Go(r, [req[r] EXCEPT !.pc = "sync", !.row.status = "DISABLED"])
    /\ UNCHANGED <<xrayVars, memVars, envVars, taskVars, faults>>

\* The row was deleted meanwhile: the transaction, or the second read of a
\* reset, throws.
ClientGone(r) ==
    /\ \/ req[r].pc = "write" /\ req[r].op \in {"update", "extend", "reset", "remove"}
       \/ req[r].pc = "reread"
    /\ ~Stored(db[req[r].c])
    /\ Finish(r)
    /\ UNCHANGED <<dbVars, xrayVars, memVars, envVars, taskVars, faults>>

ResetReread(r) ==
    /\ req[r].pc = "reread"
    /\ Stored(db[req[r].c])
    /\ Go(r, [req[r] EXCEPT !.pc = "sync", !.row = db[req[r].c]])
    /\ UNCHANGED <<dbVars, xrayVars, memVars, envVars, taskVars, faults>>

\* A slip with the comparison turned round.
NotYetDue == {c \in Clients : /\ db[c].status = "ACTIVE"
                              /\ db[c].expiresAt # NoDate
                              /\ db[c].expiresAt > now}

\* ACTIVE rows past their date; `lt`, where the presenter has <=.
Overdue == {c \in Clients : /\ db[c].status = "ACTIVE"
                            /\ db[c].expiresAt # NoDate
                            /\ db[c].expiresAt < now}

MarkExpired(S) ==
    db' = [c \in Clients |->
             IF c \in S /\ Stored(db[c]) THEN [db[c] EXCEPT !.status = "EXPIRED"]
             ELSE db[c]]

\* primeDashboardData: a single updateMany, and no call to Xray.
DashboardPrime(r) ==
    /\ req[r].pc = "write" /\ req[r].op = "dashboard"
    /\ MarkExpired(Overdue)
    /\ Finish(r)
    /\ UNCHANGED <<usage, xrayVars, memVars, envVars, taskVars, faults>>

-------------------------------------------------------------------------------
(***************************************************************************)
(* syncClientBestEffort: XrayService.syncClient on the row the request     *)
(* holds; its errors are swallowed.  resetTraffic goes on with getById.    *)
(***************************************************************************)

AfterSync(r) ==
    Go(r, IF req[r].op = "reset"
          THEN [req[r] EXCEPT !.pc = "sweepRead", !.op = "list"] ELSE IdleReq)

ClientAdd(r) ==
    LET c == req[r].c
    IN  /\ req[r].pc = "sync"
        /\ Servable(req[r].row, now)
        /\ \/ AddUser(c) /\ provisioned' = TRUE /\ AfterSync(r)
           \/ /\ ReplaceUser(c)
              /\ Go(r, [req[r] EXCEPT !.pc = "readd"])
              /\ UNCHANGED provisioned
        /\ UNCHANGED <<dbVars, xrayRest, lastUptime, envVars, taskVars>>

ClientReAdd(r) ==
    /\ req[r].pc = "readd"
    /\ AddUser(req[r].c)
    /\ provisioned' = TRUE
    /\ AfterSync(r)
    /\ UNCHANGED <<dbVars, xrayRest, lastUptime, envVars, taskVars>>

ClientDrop(r) ==
    /\ req[r].pc = "sync"
    /\ ~Servable(req[r].row, now)
    /\ DropUser(req[r].c)
    /\ AfterSync(r)
    /\ UNCHANGED <<dbVars, xrayRest, memVars, envVars, taskVars>>

ClientSyncFails(r) ==
    /\ \/ req[r].pc = "sync" /\ UserCallFails
       \/ req[r].pc = "readd" /\ ReAddFails(req[r].c)
    /\ AfterSync(r)
    /\ UNCHANGED <<dbVars, xrayRest, memVars, envVars, taskVars>>

-------------------------------------------------------------------------------
(***************************************************************************)
(* expireClients: find the overdue rows, mark those ids, and remove them   *)
(* from Xray one by one, ignoring failures.                                *)
(***************************************************************************)

AfterSweep(r) == Go(r, [req[r] EXCEPT !.pc = "snap", !.todo = {}])

SweepRead(r) ==
    /\ req[r].pc = "sweepRead"
    /\ IF Overdue = {} THEN AfterSweep(r)
       ELSE Go(r, [req[r] EXCEPT !.pc = "sweepWrite", !.todo = Overdue])
    /\ UNCHANGED <<dbVars, xrayVars, memVars, envVars, taskVars, faults>>

\* The update goes by id alone: neither status nor date is looked at again.
SweepWrite(r) ==
    /\ req[r].pc = "sweepWrite"
    /\ MarkExpired(req[r].todo)
    /\ Go(r, [req[r] EXCEPT !.pc = "sweep"])
    /\ UNCHANGED <<usage, xrayVars, memVars, envVars, taskVars, faults>>

SweepDrop(r, c) ==
    /\ req[r].pc = "sweep"
    /\ c \in req[r].todo
    /\ DropUser(c) \/ UserCallFails
    /\ IF req[r].todo = {c} THEN AfterSweep(r)
       ELSE Go(r, [req[r] EXCEPT !.todo = @ \ {c}])
    /\ UNCHANGED <<dbVars, xrayRest, memVars, envVars, taskVars>>

-------------------------------------------------------------------------------
Arrive(r) ==
    \/ \E c \in Clients : Create(r, c) \/ \E op \in Operations : ReadClient(r, op, c)
    \/ \E op \in Operations : ReadClients(r, op)
    \/ SyncEndpoint(r)

ReqStep(r) ==
    \/ JoinSnapshot(r) \/ SkipSnapshot(r)
    \/ UpdateWrite(r) \/ ExtendWrite(r) \/ ExtendNothing(r)
    \/ ResetWrite(r) \/ ResetReread(r) \/ RemoveWrite(r)
    \/ ClientGone(r)
    \/ DashboardPrime(r)
    \/ ClientAdd(r) \/ ClientReAdd(r) \/ ClientDrop(r) \/ ClientSyncFails(r)
    \/ SweepRead(r) \/ SweepWrite(r)
    \/ \E c \in Clients : SweepDrop(r, c)
===============================================================================
