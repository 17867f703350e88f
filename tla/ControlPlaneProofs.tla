-------------------------- MODULE ControlPlaneProofs --------------------------
(***************************************************************************)
(* Theorems about ControlPlane for any sets of clients and requests, any   *)
(* payloads and any bounds.                                                *)
(***************************************************************************)
EXTENDS ControlPlane, TLAPS

\* The parts of the assumptions in the form the proofs use them.
LEMMA Bounds == /\ MaxTime \in Nat /\ MaxTraffic \in Nat
                /\ MaxRequests \in Nat /\ MaxFaults \in Nat
  BY ControlAssumption

USE Bounds

\* The rules of ClientPolicy return rows: an update, a creation and a reset
\* never store anything the table's columns cannot hold.
LEMMA EffectiveStatusType ==
    ASSUME NEW row, NEW used, NEW t, row.status \in ClientStatus \cup {"UNBORN", "DELETED"}
    PROVE  EffectiveStatus(row, used, t) \in ClientStatus
  BY DEF EffectiveStatus, ClientStatus

LEMMA UpdatedType ==
    ASSUME NEW existing \in Row, NEW current \in Row, NEW p \in Payload, NEW t
    PROVE  Updated(existing, current, p, t) \in Row
<1> DEFINE unlimited  == Given(p.unlimited, existing.unlimited)
           limitGiven == p.limit # Keep \/ p.unlimited # Keep
           judged == [status    |-> Given(p.status, existing.status),
                      expiresAt |-> Given(p.expiresAt, existing.expiresAt),
                      limit     |-> IF limitGiven THEN ResolveLimit(unlimited, p.limit)
                                    ELSE existing.limit,
                      unlimited |-> unlimited,
                      vless     |-> Given(p.vless, existing.vless)]
<1>1. judged \in Row
  <2>1. /\ judged.status \in ClientStatus \cup {"UNBORN", "DELETED"}
        /\ judged.expiresAt \in Date
        /\ judged.unlimited \in BOOLEAN
        /\ judged.vless \in BOOLEAN
    BY DEF Given, Payload, Row
  <2>2. judged.limit \in Limit
    BY DEF ResolveLimit, Payload, Row, Limit
  <2> QED  BY <2>1, <2>2 DEF Row
<1>2. EffectiveStatus(judged, 0, t) \in ClientStatus
  BY <1>1, EffectiveStatusType DEF Row
<1>3. Updated(existing, current, p, t)
        = [judged EXCEPT !.status = EffectiveStatus(judged, 0, t),
                         !.limit  = IF limitGiven THEN judged.limit ELSE current.limit]
  BY DEF Updated
<1> QED  BY <1>1, <1>2, <1>3 DEF Row

LEMMA CreatedType ==
    ASSUME NEW p \in Payload, NEW t
    PROVE  Created(p, t) \in Row
  BY UpdatedType DEF Created, Row, ClientStatus, Date, Limit

LEMMA ResetStatusType ==
    ASSUME NEW existing \in Row, NEW t
    PROVE  StatusAfterReset(existing, t) \in ClientStatus \cup {"UNBORN", "DELETED"}
<1>1. [existing EXCEPT !.status = "ACTIVE"].status \in ClientStatus
  BY DEF Row, ClientStatus
<1>2. EffectiveStatus([existing EXCEPT !.status = "ACTIVE"], 0, t) \in ClientStatus
  BY <1>1, EffectiveStatusType
<1> QED  BY <1>2 DEF StatusAfterReset, Row

LEMMA NoRowType == NoRow("UNBORN") \in Row /\ NoRow("DELETED") \in Row
  BY DEF NoRow, Row, Date, Limit

LEMMA NoRowsType == NoRows \in [Clients -> Row]
  BY NoRowType DEF NoRows

LEMMA IdleTypes == IdleSnap \in Snap /\ IdleSync \in Sync /\ IdleReq \in Req
  BY NoRowType, NoRowsType DEF IdleSnap, Snap, SnapPc, Limit, IdleSync, Sync, IdleReq, Req, ReqPc,
                   OperationNames

-------------------------------------------------------------------------------
(***************************************************************************)
(* TypeOK is not inductive: a replacement re-adds the client it removed,   *)
(* and a request writes the client it was made for, so both must name one. *)
(* The uptime stays below its bound because it never passes the clock.     *)
(***************************************************************************)
Sweeping  == {"list", "dashboard", "import", "overwrite"}
Importing == {"find", "importWrite", "importSync"}

ReqNamesClient(r) ==
    /\ req[r].op \notin Sweeping => req[r].c \in Clients
    /\ req[r].pc \in {"reread", "sync", "readd"} => req[r].op \notin Sweeping
    /\ req[r].pc \in Importing => req[r].op \in {"import", "overwrite"}
    /\ req[r].pc = "importWrite" => req[r].c \in Clients

TypeInv ==
    /\ TypeOK
    /\ uptime <= now
    /\ sync.pc = "readd" => sync.cur \in Clients
    /\ \A r \in Requests : ReqNamesClient(r)

LEMMA TypeInit == Init => TypeInv
<1> SUFFICES ASSUME Init PROVE TypeInv
  OBVIOUS
<1>1. TypeOK
  <2>1. db \in [Clients -> Row]
    BY ControlAssumption DEF Init
  <2>2. /\ usage \in [Clients -> Nat] /\ counters \in [Clients -> Nat]
        /\ sent \in [Clients -> 0..MaxTraffic] /\ imported \in [Clients -> Nat]
    BY DEF Init
  <2>3. now \in 0..MaxTime /\ faults \in 0..MaxFaults /\ issued \in 0..MaxRequests
    BY DEF Init
  <2>4. snap \in Snap /\ sync \in Sync /\ req \in [Requests -> Req]
    BY IdleTypes DEF Init
  <2> QED  BY <2>1, <2>2, <2>3, <2>4 DEF Init, TypeOK
<1>2. sync.pc # "readd" /\ \A r \in Requests : ReqNamesClient(r)
  BY DEF Init, IdleSync, IdleReq, ReqNamesClient, Sweeping, Importing
<1> QED  BY <1>1, <1>2 DEF Init, TypeInv

\* The environment's steps change no task, or make every task idle.
LEMMA TypeEnvironment == TypeInv /\ Environment => TypeInv'
<1> SUFFICES ASSUME TypeInv, Environment PROVE TypeInv'
  OBVIOUS
<1> USE DEF TypeInv, TypeOK, dbVars, xrayVars, memVars, envVars, ReqNamesClient
<1>1. CASE Tick
  BY <1>1 DEF Tick
<1>2. CASE XrayStart
  BY <1>2 DEF XrayStart
<1>3. CASE XrayStop
  <2>1. faults' \in 0..MaxFaults
    BY <1>3 DEF XrayStop, Fault
  <2>2. counters' \in [Clients -> Nat]
    BY <1>3 DEF XrayStop
  <2>3. \A r \in Requests : ReqNamesClient(r)'
    BY <1>3 DEF XrayStop
  <2>4. up' \in BOOLEAN
    BY <1>3 DEF XrayStop
  <2>5. uptime' = 0 /\ now' \in 0..MaxTime
    BY <1>3 DEF XrayStop
  <2>6. uptime' \in 0..MaxTime /\ uptime' <= now'
    BY <2>5
  <2> QED  BY <1>3, <2>1, <2>2, <2>3, <2>4, <2>6 DEF XrayStop
<1>4. CASE ApiRestart
  <2>1. faults' \in 0..MaxFaults
    BY <1>4 DEF ApiRestart, Fault
  <2>2. snap' \in Snap /\ sync' \in Sync /\ req' \in [Requests -> Req]
    BY <1>4, IdleTypes DEF ApiRestart
  <2>3. sync'.pc # "readd" /\ \A r \in Requests : ReqNamesClient(r)'
    BY <1>4 DEF ApiRestart, IdleSync, IdleReq, Sweeping, Importing
  <2> QED  BY <1>4, <2>1, <2>2, <2>3 DEF ApiRestart
<1>5. ASSUME NEW c \in Clients, Traffic(c) PROVE TypeInv'
  BY <1>5 DEF Traffic
<1> QED  BY <1>1, <1>2, <1>3, <1>4, <1>5 DEF Environment

LEMMA SettledType ==
    ASSUME TypeInv
    PROVE  /\ Settled \in [Requests -> Req]
           /\ \A r \in Requests : ReqNamesClient(r) =>
                /\ Settled[r].op \notin Sweeping => Settled[r].c \in Clients
                /\ Settled[r].pc \in {"reread", "sync", "readd"} =>
                      Settled[r].op \notin Sweeping
                /\ Settled[r].pc \in Importing => Settled[r].op \in {"import", "overwrite"}
                /\ Settled[r].pc = "importWrite" => Settled[r].c \in Clients
<1> USE DEF TypeInv, TypeOK
<1>1. ASSUME NEW r \in Requests
      PROVE  /\ Settled[r] \in Req
             /\ ReqNamesClient(r) =>
                  /\ Settled[r].op \notin Sweeping => Settled[r].c \in Clients
                  /\ Settled[r].pc \in {"reread", "sync", "readd"} =>
                        Settled[r].op \notin Sweeping
                  /\ Settled[r].pc \in Importing => Settled[r].op \in {"import", "overwrite"}
                  /\ Settled[r].pc = "importWrite" => Settled[r].c \in Clients
  <2>1. req[r] \in Req  OBVIOUS
  <2>2. Settled[r] = req[r] \/ Settled[r] = IdleReq \/ Settled[r] = [req[r] EXCEPT !.pc = "write"]
    BY DEF Settled
  <2>3. [req[r] EXCEPT !.pc = "write"] \in Req
    BY <2>1 DEF Req, ReqPc
  <2> QED  BY <2>1, <2>2, <2>3, IdleTypes DEF IdleReq, ReqNamesClient, Req, Sweeping, Importing
<1> QED  BY <1>1 DEF Settled

\* The snapshot task.
LEMMA TypeSnap == TypeInv /\ (SnapTimer \/ SnapStep) => TypeInv'
<1> SUFFICES ASSUME TypeInv, SnapTimer \/ SnapStep PROVE TypeInv'
  OBVIOUS
<1> USE DEF TypeInv, TypeOK, dbVars, xrayVars, xrayRest, memVars, envVars
<1>0. ASSUME SnapFail
      PROVE  provisioned' \in BOOLEAN /\ snap' \in Snap /\ req' \in [Requests -> Req]
             /\ \A r \in Requests : ReqNamesClient(r)'
  BY <1>0, IdleTypes, SettledType DEF SnapFail, ReqNamesClient
<1>a. ASSUME UNCHANGED req PROVE \A r \in Requests : ReqNamesClient(r)'
  BY <1>a DEF ReqNamesClient
<1>b. snap.cur \in Clients \cup {Nobody}
  BY DEF Snap
<1>c. ASSUME CallFails PROVE faults' \in 0..MaxFaults
  BY <1>c DEF CallFails, Fault
<1>1. CASE SnapTimer
  BY <1>1, <1>a DEF SnapTimer, Snap, SnapPc
<1>2. CASE SnapQuery
  <2>1. snap' \in Snap
    <3>1. PICK online \in SUBSET Connected :
            snap' = [snap EXCEPT !.pc    = "clients",
                                 !.delta = counters,
                                 !.tags  = online \cup {c \in Clients : counters[c] > 0}]
      BY <1>2 DEF SnapQuery
    <3>2. online \cup {c \in Clients : counters[c] > 0} \in SUBSET Clients
      BY ControlAssumption DEF Connected
    <3> QED  BY <3>1, <3>2 DEF Snap, SnapPc
  <2> QED  BY <1>2, <1>a, <2>1 DEF SnapQuery, Drain
<1>3. CASE SnapQueryFails
  <2>1. counters' \in [Clients -> Nat]
    BY <1>3 DEF SnapQueryFails, Drain
  <2> QED  BY <1>3, <1>0, <1>c, <2>1 DEF SnapQueryFails
<1>4. CASE SnapClients
  <2>1. snap' \in Snap
    <3>1. PICK over \in SUBSET Found :
            snap' = [snap EXCEPT !.pc     = "record",
                                 !.seen   = Found,
                                 !.active = {c \in over : db[c].status = "ACTIVE"},
                                 !.breach = over]
      BY <1>4 DEF SnapClients
    <3>2. Found \in SUBSET Clients /\ over \in SUBSET Clients
          /\ {c \in over : db[c].status = "ACTIVE"} \in SUBSET Clients
      BY DEF Snap, Found
    <3> QED  BY <3>1, <3>2 DEF Snap, SnapPc
  <2> QED  BY <1>4, <1>a, <2>1 DEF SnapClients
<1>5. CASE SnapRecord
  <2>1. snap' \in Snap
    BY <1>5 DEF SnapRecord, Snap, SnapPc
  <2>2. usage' \in [Clients -> Nat]
    BY <1>5 DEF SnapRecord, Recorded, Snap
  <2> QED  BY <1>5, <1>a, <2>1, <2>2 DEF SnapRecord
<1>6. CASE SnapRecordFails
  <2>1. faults' \in 0..MaxFaults
    BY <1>6 DEF SnapRecordFails, Fault
  <2> QED  BY <1>6, <1>0, <2>1 DEF SnapRecordFails
<1>7. CASE SnapQuota
  <2>1. snap' \in Snap
    BY <1>7 DEF SnapQuota, Snap, SnapPc, Row, Limit
  <2> QED  BY <1>7, <1>a, <2>1 DEF SnapQuota
<1>8. CASE SnapUsage
  <2>1. snap' \in Snap
    BY <1>8 DEF SnapUsage, QuotaSpent, AfterQuota, Snap, SnapPc, Limit
  <2> QED  BY <1>8, <1>a, <2>1 DEF SnapUsage
<1>9. ASSUME NEW c \in Clients, SnapQuotaBlock(c) PROVE TypeInv'
  <2>1. snap' \in Snap
    BY <1>9 DEF SnapQuotaBlock, Snap, SnapPc
  <2>2. db' \in [Clients -> Row]
    BY <1>9 DEF SnapQuotaBlock, Row, ClientStatus
  <2> QED  BY <1>9, <1>a, <2>1, <2>2 DEF SnapQuotaBlock
<1>10. ASSUME NEW c \in Clients, SnapQuotaBlockFails(c) PROVE TypeInv'
  BY <1>10, <1>0 DEF SnapQuotaBlockFails
<1>11. ASSUME NEW c \in Clients, SnapAccessBlock(c) PROVE TypeInv'
  <2>1. snap' \in Snap
    BY <1>11 DEF SnapAccessBlock, Snap, SnapPc
  <2>2. db' \in [Clients -> Row]
    BY <1>11 DEF SnapAccessBlock, Row, ClientStatus
  <2> QED  BY <1>11, <1>a, <2>1, <2>2 DEF SnapAccessBlock
<1>12. CASE SnapQuotaDrop
  <2>1. snap' \in Snap
    BY <1>12 DEF SnapQuotaDrop, AfterQuota, Snap, SnapPc
  <2> QED  BY <1>12, <1>a, <2>1 DEF SnapQuotaDrop, DropUser
<1>13. CASE SnapAccessDrop
  <2>1. snap' \in Snap
    BY <1>13 DEF SnapAccessDrop, Snap, SnapPc
  <2> QED  BY <1>13, <1>a, <2>1 DEF SnapAccessDrop, DropUser
<1>14. CASE SnapDropFails
  BY <1>14, <1>0, <1>c DEF SnapDropFails, UserCallFails
<1>15. CASE SnapEnd
  BY <1>15, IdleTypes, SettledType DEF SnapEnd, ReqNamesClient
<1> QED  BY <1>1, <1>2, <1>3, <1>4, <1>5, <1>6, <1>7, <1>8, <1>9, <1>10, <1>11, <1>12,
            <1>13, <1>14, <1>15 DEF SnapStep

\* The full synchronisation and the reconciler.
LEMMA CallTypes ==
    ASSUME TypeInv
    PROVE  /\ CallFails => faults' \in 0..MaxFaults
           /\ UserCallFails => users' \subseteq Clients /\ faults' \in 0..MaxFaults
           /\ \A c : ReAddFails(c) => users' \subseteq Clients /\ faults' \in 0..MaxFaults
           /\ \A c : DropUser(c) => users' \subseteq Clients /\ faults' \in 0..MaxFaults
           /\ \A c : ReplaceUser(c) => users' \subseteq Clients /\ faults' \in 0..MaxFaults
           /\ \A c \in Clients : AddUser(c) => users' \subseteq Clients /\ faults' \in 0..MaxFaults
<1> USE DEF TypeInv, TypeOK
<1>1. CallFails => faults' \in 0..MaxFaults
  BY DEF CallFails, Fault
<1>2. UserCallFails => users' \subseteq Clients /\ faults' \in 0..MaxFaults
  BY <1>1 DEF UserCallFails
<1> QED  BY <1>1, <1>2 DEF ReAddFails, DropUser, ReplaceUser, AddUser

LEMMA SyncDoneType ==
    ASSUME TypeInv, NEW todo \in SUBSET Clients
    PROVE  SyncDone(todo) \in Sync /\ SyncDone(todo).pc # "readd"
<1>1. sync \in Sync
  BY DEF TypeInv, TypeOK
<1>2. [sync EXCEPT !.pc = "loop", !.todo = todo, !.cur = Nobody] \in Sync
  BY <1>1 DEF Sync
<1>3. [sync EXCEPT !.pc = "loop", !.todo = todo, !.cur = Nobody].pc = "loop"
  BY <1>1 DEF Sync
<1> QED  BY <1>2, <1>3, IdleTypes DEF SyncDone, IdleSync

LEMMA TypeSync ==
    TypeInv /\ (SyncStep \/ EnsureSample \/ EnsureDecide \/ Probe) => TypeInv'
<1> SUFFICES ASSUME TypeInv, SyncStep \/ EnsureSample \/ EnsureDecide \/ Probe PROVE TypeInv'
  OBVIOUS
<1> USE DEF TypeInv, TypeOK, dbVars, xrayVars, xrayRest, memVars, envVars
<1>a. ASSUME UNCHANGED req PROVE \A r \in Requests : ReqNamesClient(r)'
  BY <1>a DEF ReqNamesClient
<1>b. \A c : sync.todo \ {c} \in SUBSET Clients
  BY DEF Sync
<1>1. CASE SyncRead
  <2>1. sync' \in Sync /\ sync'.pc # "readd"
    <3> DEFINE found == {c \in Clients : Stored(db[c])}
    <3>1. [sync EXCEPT !.pc = "loop", !.rows = db, !.todo = found] \in Sync
      BY DEF Sync
    <3>2. [sync EXCEPT !.pc = "loop", !.rows = db, !.todo = found].pc = "loop"
      BY DEF Sync
    <3> QED  BY <1>1, <3>1, <3>2, IdleTypes DEF SyncRead, IdleSync
  <2>2. provisioned' \in BOOLEAN
    BY <1>1 DEF SyncRead
  <2> QED  BY <1>1, <1>a, <2>1, <2>2 DEF SyncRead
<1>2. ASSUME NEW c \in Clients, SyncAdd(c) PROVE TypeInv'
  <2>1. users' \subseteq Clients /\ faults' \in 0..MaxFaults
    BY <1>2, CallTypes DEF SyncAdd
  <2>2. sync' \in Sync /\ (sync'.pc = "readd" => sync'.cur \in Clients)
    <3>1. [sync EXCEPT !.pc = "readd", !.cur = c] \in Sync
          /\ [sync EXCEPT !.pc = "readd", !.cur = c].cur = c
      BY DEF Sync
    <3>2. \/ sync' = SyncDone(sync.todo \ {c})
          \/ sync' = [sync EXCEPT !.pc = "readd", !.cur = c]
      BY <1>2 DEF SyncAdd
    <3>3. SyncDone(sync.todo \ {c}) \in Sync /\ SyncDone(sync.todo \ {c}).pc # "readd"
      BY <1>b, SyncDoneType
    <3> QED  BY <3>1, <3>2, <3>3
  <2>3. provisioned' \in BOOLEAN
    BY <1>2 DEF SyncAdd
  <2> QED  BY <1>2, <1>a, <2>1, <2>2, <2>3 DEF SyncAdd
<1>3. ASSUME NEW c \in Clients, SyncDrop(c) PROVE TypeInv'
  <2>1. users' \subseteq Clients /\ faults' \in 0..MaxFaults
    BY <1>3, CallTypes DEF SyncDrop
  <2>2. sync' \in Sync /\ sync'.pc # "readd"
    BY <1>3, <1>b, SyncDoneType DEF SyncDrop
  <2>3. provisioned' \in BOOLEAN
    BY <1>3 DEF SyncDrop
  <2> QED  BY <1>3, <1>a, <2>1, <2>2, <2>3 DEF SyncDrop
<1>4. CASE SyncReAdd
  <2>1. users' \subseteq Clients /\ faults' \in 0..MaxFaults
    BY <1>4, CallTypes DEF SyncReAdd
  <2>2. sync' \in Sync /\ sync'.pc # "readd"
    BY <1>4, <1>b, SyncDoneType DEF SyncReAdd
  <2>3. provisioned' \in BOOLEAN
    BY <1>4 DEF SyncReAdd
  <2> QED  BY <1>4, <1>a, <2>1, <2>2, <2>3 DEF SyncReAdd
<1>5. CASE SyncFails
  <2>1. users' \subseteq Clients /\ faults' \in 0..MaxFaults
    BY <1>5, CallTypes DEF SyncFails
  <2>2. sync' \in Sync /\ sync'.pc # "readd"
    BY <1>5, IdleTypes DEF SyncFails, IdleSync
  <2> QED  BY <1>5, <1>a, <2>1, <2>2 DEF SyncFails
<1>6. ASSUME SummaryFails PROVE TypeInv'
  <2>1. faults' \in 0..MaxFaults
    BY <1>6, CallTypes DEF SummaryFails
  <2> QED  BY <1>6, <1>a, <2>1 DEF SummaryFails
<1>7. CASE EnsureSample
  <2>1. CASE SummaryFails
    BY <2>1, <1>6
  <2>2. CASE ensure' = uptime /\ UNCHANGED <<dbVars, xrayVars, memVars, envVars, snap, sync, req, faults>>
    BY <2>2, <1>a
  <2> QED  BY <1>7, <2>1, <2>2 DEF EnsureSample
<1>8. CASE EnsureDecide
  <2>1. sync' \in Sync /\ (sync'.pc = "readd" => sync'.cur \in Clients)
    <3>1. [sync EXCEPT !.pc = "read"] \in Sync /\ [sync EXCEPT !.pc = "read"].pc = "read"
      BY DEF Sync
    <3>2. sync' = sync \/ sync' = [sync EXCEPT !.pc = "read"]
      BY <1>8 DEF EnsureDecide, JoinSync
    <3>3. "read" # "readd"
      OBVIOUS
    <3> QED  BY <3>1, <3>2, <3>3
  <2> QED  BY <1>8, <1>a, <2>1 DEF EnsureDecide
<1> QED  BY <1>1, <1>2, <1>3, <1>4, <1>5, <1>6, <1>7, <1>8 DEF SyncStep, Probe

\* The requests.
LEMMA TypeGo ==
    ASSUME TypeInv, NEW r \in Requests, NEW rec \in Req, Go(r, rec),
           rec.op \notin Sweeping => rec.c \in Clients,
           rec.pc \in {"reread", "sync", "readd"} => rec.op \notin Sweeping,
           rec.pc \in Importing => rec.op \in {"import", "overwrite"},
           rec.pc = "importWrite" => rec.c \in Clients
    PROVE  req' \in [Requests -> Req] /\ \A q \in Requests : ReqNamesClient(q)'
<1> USE DEF TypeInv, TypeOK
<1>1. req' \in [Requests -> Req]
  BY DEF Go
<1>2. ASSUME NEW q \in Requests PROVE ReqNamesClient(q)'
  <2>1. CASE q = r
    BY <2>1 DEF Go, ReqNamesClient
  <2>2. CASE q # r
    BY <2>2 DEF Go, ReqNamesClient
  <2> QED  BY <2>1, <2>2
<1> QED  BY <1>1, <1>2

\* Moving a request on: it keeps its client, and its kind or becomes a list.
LEMMA TypeMove ==
    ASSUME TypeInv, NEW r \in Requests, NEW rec \in Req, Go(r, rec),
           rec.c = req[r].c, rec.op \in {req[r].op, "list"},
           rec.pc \in {"reread", "sync", "readd"} => rec.op \notin Sweeping,
           rec.pc \notin Importing
    PROVE  req' \in [Requests -> Req] /\ \A q \in Requests : ReqNamesClient(q)'
<1>1. ReqNamesClient(r)
  BY DEF TypeInv
<1>2. rec.op \notin Sweeping => rec.c \in Clients
  BY <1>1 DEF ReqNamesClient, Sweeping, Importing
<1> QED  BY <1>2, TypeGo DEF Importing

LEMMA TypeFinish ==
    ASSUME TypeInv, NEW r \in Requests, Finish(r)
    PROVE  req' \in [Requests -> Req] /\ \A q \in Requests : ReqNamesClient(q)'
  BY TypeGo, IdleTypes DEF Finish, IdleReq, Sweeping, Importing

LEMMA TypeArrive == ASSUME NEW r \in Requests PROVE TypeInv /\ Arrive(r) => TypeInv'
<1> SUFFICES ASSUME TypeInv, Arrive(r) PROVE TypeInv'
  OBVIOUS
<1> USE DEF TypeInv, TypeOK, dbVars, xrayVars, memVars, envVars, taskVars, Sweeping, Importing
<1>a. ASSUME NEW op, Submit(r, op) PROVE issued' \in 0..MaxRequests /\ op \in OperationNames
  BY <1>a, ControlAssumption DEF Submit
<1>b. ASSUME NEW op \in OperationNames, NEW c \in Clients, NEW pc \in {"write", "snap"},
             Begin(r, op, c, pc)
      PROVE  req' \in [Requests -> Req] /\ \A q \in Requests : ReqNamesClient(q)'
  <2> DEFINE rec == [op |-> op, c |-> c, pc |-> pc, todo |-> {}, rows |-> NoRows,
             row |-> db[c]]
  <2>1. Go(r, rec)
    BY <1>b, ControlAssumption DEF Begin
  <2>2. rec \in Req
    BY NoRowsType DEF Req, ReqPc
  <2> QED  BY <2>1, <2>2, TypeGo
<1>1. ASSUME NEW c \in Clients, Create(r, c) PROVE TypeInv'
  <2>1. PICK p \in Payloads :
          /\ db' = [db EXCEPT ![c] = Created(p, now)]
          /\ Go(r, [IdleReq EXCEPT !.op = "create", !.c = c, !.pc = "sync",
                                   !.row = Created(p, now)])
    BY <1>1 DEF Create
  <2> DEFINE rec == [IdleReq EXCEPT !.op = "create", !.c = c, !.pc = "sync",
                                    !.row = Created(p, now)]
  <2>2. Created(p, now) \in Row
    BY CreatedType, ControlAssumption
  <2>3. rec \in Req /\ rec.op = "create" /\ rec.c = c /\ rec.pc = "sync"
    BY <2>2, IdleTypes DEF Req, ReqPc, OperationNames
  <2>4. req' \in [Requests -> Req] /\ \A q \in Requests : ReqNamesClient(q)'
    BY <2>1, <2>3, TypeGo
  <2>5. db' \in [Clients -> Row]
    BY <2>1, <2>2
  <2> QED  BY <1>1, <1>a, <2>4, <2>5 DEF Create
<1>2. ASSUME NEW op \in Operations, NEW c \in Clients, ReadClient(r, op, c) PROVE TypeInv'
  <2>1. req' \in [Requests -> Req] /\ \A q \in Requests : ReqNamesClient(q)'
    BY <1>2, <1>a, <1>b DEF ReadClient
  <2> QED  BY <1>2, <1>a, <2>1 DEF ReadClient
<1>3. ASSUME NEW op \in Operations, ReadClients(r, op) PROVE TypeInv'
  <2> DEFINE pc == IF op = "list" THEN "sweepRead" ELSE "snap"
             rec == [op |-> op, c |-> Nobody, pc |-> pc, todo |-> {}, rows |-> NoRows,
             row |-> NoRow("UNBORN")]
  <2>1. Go(r, rec) /\ op \in {"list", "dashboard"}
    BY <1>3 DEF ReadClients, Begin
  <2>2. rec \in Req
    BY <1>3, <1>a, NoRowType, NoRowsType DEF ReadClients, Req, ReqPc
  <2>3. req' \in [Requests -> Req] /\ \A q \in Requests : ReqNamesClient(q)'
    BY <2>1, <2>2, TypeGo
  <2> QED  BY <1>3, <1>a, <2>3 DEF ReadClients
<1>4. CASE SyncEndpoint(r)
  <2>1. sync' \in Sync /\ (sync'.pc = "readd" => sync'.cur \in Clients)
    <3>1. [sync EXCEPT !.pc = "read"] \in Sync /\ [sync EXCEPT !.pc = "read"].pc = "read"
      BY DEF Sync
    <3>2. sync' = sync \/ sync' = [sync EXCEPT !.pc = "read"]
      BY <1>4 DEF SyncEndpoint, JoinSync
    <3>3. "read" # "readd"
      OBVIOUS
    <3> QED  BY <3>1, <3>2, <3>3
  <2>2. \A q \in Requests : ReqNamesClient(q)'
    BY <1>4 DEF SyncEndpoint, ReqNamesClient
  <2> QED  BY <1>4, <1>a, <2>1, <2>2 DEF SyncEndpoint
<1> QED  BY <1>1, <1>2, <1>3, <1>4 DEF Arrive

\* The steps of a request between its first await and its end.
LEMMA TypeReqStep == ASSUME NEW r \in Requests PROVE TypeInv /\ ReqStep(r) => TypeInv'
<1> SUFFICES ASSUME TypeInv, ReqStep(r) PROVE TypeInv'
  OBVIOUS
<1> USE DEF Sweeping, Importing
<1> DEFINE ReqOK == req' \in [Requests -> Req] /\ \A q \in Requests : ReqNamesClient(q)'
           old == req[r]
<1>f. old \in Req /\ ReqNamesClient(r) /\ db \in [Clients -> Row]
  BY DEF TypeInv, TypeOK
<1>e. Finish(r) => ReqOK
  BY TypeFinish
<1>s. AfterSync(r) => ReqOK
  <2>1. CASE old.op = "reset"
    <3> DEFINE rec == [old EXCEPT !.pc = "sweepRead", !.op = "list"]
    <3>1. rec \in Req /\ rec.c = old.c /\ rec.op = "list" /\ rec.pc = "sweepRead"
      BY <1>f DEF Req, ReqPc, OperationNames
    <3>2. AfterSync(r) => Go(r, rec)
      BY <2>1 DEF AfterSync
    <3> QED  BY <3>1, <3>2, TypeMove
  <2>2. CASE old.op # "reset"
    BY <2>2, <1>e DEF AfterSync, Finish
  <2> QED  BY <2>1, <2>2
<1>w. AfterSweep(r) => ReqOK
  <2> DEFINE rec == [old EXCEPT !.pc = "snap", !.todo = {}]
  <2>1. rec \in Req /\ rec.c = old.c /\ rec.op = old.op /\ rec.pc = "snap"
    BY <1>f DEF Req, ReqPc
  <2>2. AfterSweep(r) => Go(r, rec)
    BY DEF AfterSweep
  <2> QED  BY <2>1, <2>2, TypeMove
\* Moving on to await pc, in the same request.
<1>m. ASSUME NEW pc \in ReqPc \ Importing, Go(r, [old EXCEPT !.pc = pc]),
             pc \in {"reread", "sync", "readd"} => old.op \notin Sweeping
      PROVE  ReqOK
  <2> DEFINE rec == [old EXCEPT !.pc = pc]
  <2>1. rec \in Req /\ rec.c = old.c /\ rec.op = old.op /\ rec.pc = pc
    BY <1>f DEF Req
  <2> HIDE DEF rec
  <2>2. Go(r, rec)
    BY <1>m DEF rec
  <2> QED  BY <1>m, <2>1, <2>2, TypeMove
<1>p. {"write", "sweepRead", "sweepWrite", "sweep", "await", "snap", "idle", "reread",
       "sync", "readd"} \subseteq ReqPc \ Importing
  BY DEF ReqPc
\* A row written for the client of r, and the row then synchronised.
<1>r. ASSUME NEW row \in Row, old.op \notin Sweeping, StoreAndSync(r, row)
      PROVE  ReqOK /\ db' \in [Clients -> Row]
  <2> DEFINE rec == [old EXCEPT !.pc = "sync", !.row = row]
  <2>1. rec \in Req /\ rec.c = old.c /\ rec.op = old.op /\ rec.pc = "sync"
    BY <1>f DEF Req, ReqPc
  <2>2. Go(r, rec)
    BY <1>r DEF StoreAndSync
  <2>3. db' \in [Clients -> Row]
    BY <1>r, <1>f DEF StoreAndSync
  <2> QED  BY <1>r, <2>1, <2>2, <2>3, TypeMove
<1>d. ASSUME NEW S, MarkExpired(S) PROVE db' \in [Clients -> Row]
  <2>1. \A c \in Clients : [db[c] EXCEPT !.status = "EXPIRED"] \in Row
    BY <1>f DEF Row, ClientStatus
  <2> QED  BY <1>d, <2>1, <1>f DEF MarkExpired
<1>c. old.op \notin Sweeping => old.c \in Clients /\ db[old.c] \in Row
  BY <1>f DEF ReqNamesClient
<1>o. Overdue \in SUBSET Clients
  BY DEF Overdue
<1> USE DEF TypeInv, TypeOK, dbVars, xrayVars, xrayRest, memVars, envVars, taskVars
<1> HIDE DEF ReqOK
<1>1. CASE JoinSnapshot(r)
  <2>1. snap' \in Snap
    BY <1>1 DEF JoinSnapshot, Joined, Snap, SnapPc
  <2>2. ReqOK
    BY <1>1, <1>m, <1>p DEF JoinSnapshot, Joined
  <2> QED  BY <1>1, <2>1, <2>2 DEF JoinSnapshot, ReqOK
<1>2. CASE SkipSnapshot(r)
  <2>1. ReqOK
    BY <1>2, <1>m, <1>p, <1>e DEF SkipSnapshot
  <2> QED  BY <1>2, <2>1 DEF SkipSnapshot, ReqOK
<1>3. CASE UpdateWrite(r)
  <2>1. PICK p \in Payloads : StoreAndSync(r, Updated(old.row, db[old.c], p, now))
    BY <1>3 DEF UpdateWrite
  <2>2. old.op \notin Sweeping
    BY <1>3 DEF UpdateWrite, Writes
  <2>3. Updated(old.row, db[old.c], p, now) \in Row
    <3>1. old.row \in Row
      BY <1>f DEF Req
    <3> QED  BY <3>1, <2>2, <1>c, UpdatedType, ControlAssumption
  <2>4. ReqOK /\ db' \in [Clients -> Row]
    BY <2>1, <2>2, <2>3, <1>r
  <2> QED  BY <1>3, <2>4 DEF UpdateWrite, ReqOK
<1>4. CASE ExtendWrite(r)
  <2>1. PICK d \in ExtendDates \cup ({old.row.expiresAt} \ {NoDate}) :
          StoreAndSync(r, [db[old.c] EXCEPT !.expiresAt = d, !.status = "ACTIVE"])
    BY <1>4 DEF ExtendWrite
  <2>2. old.op \notin Sweeping
    BY <1>4 DEF ExtendWrite, Writes
  <2>3. d \in Date
    BY ControlAssumption, <1>f DEF Date, Req, Row
  <2>4. [db[old.c] EXCEPT !.expiresAt = d, !.status = "ACTIVE"] \in Row
    BY <2>2, <2>3, <1>c DEF Row, ClientStatus
  <2>5. ReqOK /\ db' \in [Clients -> Row]
    BY <2>1, <2>2, <2>4, <1>r
  <2> QED  BY <1>4, <2>5 DEF ExtendWrite, ReqOK
<1>5. CASE ExtendNothing(r)
  <2> DEFINE rec == [old EXCEPT !.pc = "sweepRead", !.op = "list"]
  <2>1. rec \in Req /\ rec.c = old.c /\ rec.op = "list" /\ rec.pc = "sweepRead"
    BY <1>f DEF Req, ReqPc, OperationNames
  <2>2. ReqOK
    BY <1>5, <2>1, TypeMove DEF ExtendNothing, ReqOK
  <2> QED  BY <1>5, <2>2 DEF ExtendNothing, ReqOK
<1>6. CASE ResetWrite(r)
  <2>1. usage' \in [Clients -> Nat]
    BY <1>6 DEF ResetWrite
  <2>2. StatusAfterReset(old.row, now) \in ClientStatus \cup {"UNBORN", "DELETED"}
    BY <1>f, ResetStatusType DEF Req
  <2>3. db' \in [Clients -> Row]
    BY <1>6, <2>2 DEF ResetWrite, Row
  <2>4. ReqOK
    BY <1>6, <1>m, <1>p DEF ResetWrite, Writes
  <2> QED  BY <1>6, <2>1, <2>3, <2>4 DEF ResetWrite, ReqOK
<1>7. CASE ResetReread(r)
  <2> DEFINE rec == [old EXCEPT !.pc = "sync", !.row = db[old.c]]
  <2>1. old.op \notin Sweeping
    BY <1>7, <1>f DEF ResetReread, ReqNamesClient
  <2>2. rec \in Req /\ rec.c = old.c /\ rec.op = old.op /\ rec.pc = "sync"
    BY <2>1, <1>c, <1>f DEF Req, ReqPc
  <2>3. ReqOK
    BY <1>7, <2>1, <2>2, TypeMove DEF ResetReread, ReqOK
  <2> QED  BY <1>7, <2>3 DEF ResetReread, ReqOK
<1>8. CASE RemoveWrite(r)
  <2> DEFINE rec == [old EXCEPT !.pc = "sync", !.row.status = "DISABLED"]
  <2>1. old.op = "remove"
    BY <1>8 DEF RemoveWrite, Writes
  <2>2. rec \in Req /\ rec.c = old.c /\ rec.op = old.op /\ rec.pc = "sync"
    BY <1>f DEF Req, ReqPc, Row, ClientStatus
  <2>3. ReqOK
    BY <1>8, <2>1, <2>2, TypeMove DEF RemoveWrite, ReqOK
  <2>4. usage' \in [Clients -> Nat] /\ db' \in [Clients -> Row]
    BY <1>8, NoRowType DEF RemoveWrite
  <2> QED  BY <1>8, <2>3, <2>4 DEF RemoveWrite, ReqOK
<1>9. CASE ClientGone(r)
  BY <1>9, <1>e DEF ClientGone, ReqOK
<1>10. CASE DashboardPrime(r)
  BY <1>10, <1>e, <1>d DEF DashboardPrime, ReqOK
<1>11. CASE ClientAdd(r)
  <2>1. old.op \notin Sweeping
    BY <1>11, <1>f DEF ClientAdd, ReqNamesClient
  <2>2. users' \subseteq Clients /\ faults' \in 0..MaxFaults
    BY <1>11, <2>1, <1>c, CallTypes DEF ClientAdd
  <2>3. ReqOK
    BY <1>11, <2>1, <1>m, <1>p, <1>s DEF ClientAdd
  <2>4. provisioned' \in BOOLEAN
    BY <1>11 DEF ClientAdd
  <2> QED  BY <1>11, <2>2, <2>3, <2>4 DEF ClientAdd, ReqOK
<1>12. CASE ClientReAdd(r)
  <2>1. old.op \notin Sweeping
    BY <1>12, <1>f DEF ClientReAdd, ReqNamesClient
  <2>2. users' \subseteq Clients /\ faults' \in 0..MaxFaults
    BY <1>12, <2>1, <1>c, CallTypes DEF ClientReAdd
  <2> QED  BY <1>12, <2>2, <1>s DEF ClientReAdd, ReqOK
<1>13. CASE ClientDrop(r)
  <2>1. users' \subseteq Clients /\ faults' \in 0..MaxFaults
    BY <1>13, CallTypes DEF ClientDrop
  <2> QED  BY <1>13, <2>1, <1>s DEF ClientDrop, ReqOK
<1>14. CASE ClientSyncFails(r)
  <2>1. users' \subseteq Clients /\ faults' \in 0..MaxFaults
    BY <1>14, CallTypes DEF ClientSyncFails
  <2> QED  BY <1>14, <2>1, <1>s DEF ClientSyncFails, ReqOK
<1>15. CASE SweepRead(r)
  <2> DEFINE rec == [old EXCEPT !.pc = "sweepWrite", !.todo = Overdue]
  <2>1. rec \in Req /\ rec.c = old.c /\ rec.op = old.op /\ rec.pc = "sweepWrite"
    BY <1>f, <1>o DEF Req, ReqPc
  <2> HIDE DEF rec
  <2>2. AfterSweep(r) \/ Go(r, rec)
    BY <1>15 DEF SweepRead, rec
  <2>3. ReqOK
    BY <2>1, <2>2, <1>w, TypeMove DEF ReqOK
  <2> QED  BY <1>15, <2>3 DEF SweepRead, ReqOK
<1>16. CASE SweepWrite(r)
  <2>1. ReqOK
    BY <1>16, <1>m, <1>p DEF SweepWrite
  <2> QED  BY <1>16, <2>1, <1>d DEF SweepWrite, ReqOK
<1>17. ASSUME NEW c \in Clients, SweepDrop(r, c) PROVE TypeInv'
  <2> DEFINE rec == [old EXCEPT !.todo = @ \ {c}]
  <2>1. users' \subseteq Clients /\ faults' \in 0..MaxFaults
    BY <1>17, CallTypes DEF SweepDrop
  <2>2. rec \in Req /\ rec.c = old.c /\ rec.op = old.op /\ rec.pc = "sweep"
    BY <1>17, <1>f DEF SweepDrop, Req
  <2>3. AfterSweep(r) \/ Go(r, rec)
    BY <1>17 DEF SweepDrop
  <2>4. ReqOK
    BY <2>2, <2>3, <1>w, TypeMove DEF ReqOK
  <2> QED  BY <1>17, <2>1, <2>4 DEF SweepDrop, ReqOK
<1> QED  BY <1>1, <1>2, <1>3, <1>4, <1>5, <1>6, <1>7, <1>8, <1>9, <1>10, <1>11, <1>12,
            <1>13, <1>14, <1>15, <1>16, <1>17 DEF ReqStep

\* The row of an item is one the table can hold, and never a deleted one.
LEMMA ImportedType ==
    ASSUME NEW p \in Payload, NEW used, NEW t
    PROVE  Imported(p, used, t) \in Row /\ Stored(Imported(p, used, t))
<1> DEFINE row == [Created(p, t) EXCEPT !.limit = Given(p.limit, NoLimit)]
<1>1. row \in Row
  <2>1. Given(p.limit, NoLimit) \in Limit
    BY DEF Given, Payload, Limit
  <2> QED  BY <2>1, CreatedType DEF Row
<1>2. EffectiveStatus(row, used, t) \in ClientStatus
  BY <1>1, EffectiveStatusType DEF Row
<1>3. Imported(p, used, t) = [row EXCEPT !.status = EffectiveStatus(row, used, t)]
  BY DEF Imported
<1> HIDE DEF row
<1> QED  BY <1>1, <1>2, <1>3 DEF Row, Stored

LEMMA TypeImport ==
    ASSUME NEW r \in Requests
    PROVE  TypeInv /\ (ImportStep(r) \/ \E op \in Operations : Import(r, op)) => TypeInv'
<1> SUFFICES ASSUME TypeInv, ImportStep(r) \/ \E op \in Operations : Import(r, op)
             PROVE  TypeInv'
  OBVIOUS
<1> USE DEF Sweeping, Importing
<1> DEFINE ReqOK == req' \in [Requests -> Req] /\ \A q \in Requests : ReqNamesClient(q)'
           old == req[r]
<1>f. old \in Req /\ ReqNamesClient(r) /\ db \in [Clients -> Row] /\ usage \in [Clients -> Nat]
  BY DEF TypeInv, TypeOK
<1>e. Finish(r) => ReqOK
  BY TypeFinish
<1>o. old.pc \in Importing => old.op \in {"import", "overwrite"}
  BY <1>f DEF ReqNamesClient
\* Going on with an import, at an await that names no client.
<1>g. ASSUME NEW rec \in Req, rec.op \in {"import", "overwrite"}, Go(r, rec),
             rec.pc \in {"find", "importSync"}
      PROVE  ReqOK
  BY <1>g, TypeGo
<1>n. ASSUME NEW rec \in Req, rec.op \in {"import", "overwrite"}, NextItem(r, rec) PROVE ReqOK
  <2>1. /\ [rec EXCEPT !.pc = "find"] \in Req /\ [rec EXCEPT !.pc = "find"].op = rec.op
        /\ [rec EXCEPT !.pc = "find"].pc = "find"
        /\ [rec EXCEPT !.pc = "importSync"] \in Req /\ [rec EXCEPT !.pc = "importSync"].op = rec.op
        /\ [rec EXCEPT !.pc = "importSync"].pc = "importSync"
    BY DEF Req, ReqPc
  <2>2. \/ Go(r, [rec EXCEPT !.pc = "find"]) \/ Go(r, [rec EXCEPT !.pc = "importSync"])
        \/ Finish(r)
    BY <1>n DEF NextItem, Finish
  <2> QED  BY <2>1, <2>2, <1>e, <1>g, <1>n
<1>a. ASSUME NEW c \in Clients, old.pc = "importSync", Applied(r, c) PROVE ReqOK
  <2> DEFINE rec == [old EXCEPT !.todo = @ \ {c}, !.rows[c] = NoRow("UNBORN")]
  <2>1. rec \in Req /\ rec.pc = "importSync" /\ rec.op = old.op
    BY <1>a, <1>f, NoRowType DEF Req
  <2>2. Go(r, rec) \/ Finish(r)
    BY <1>a DEF Applied, Finish
  <2> HIDE DEF rec
  <2> QED  BY <2>1, <2>2, <1>a, <1>e, <1>g, <1>o
<1> USE DEF TypeInv, TypeOK, dbVars, xrayVars, xrayRest, memVars, envVars, taskVars
<1> HIDE DEF ReqOK
<1>1. ASSUME NEW op \in Operations, Import(r, op) PROVE TypeInv'
  <2>1. op \in OperationNames /\ op \in {"import", "overwrite"}
    <3>1. op \in {"import", "overwrite"}
      BY <1>1 DEF Import
    <3> QED  BY <3>1 DEF OperationNames
  <2>i. issued' \in 0..MaxRequests
    <3>1. issued < MaxRequests /\ issued' = issued + 1
      BY <1>1 DEF Import, Submit
    <3> QED  BY <3>1
  <2>2. PICK items \in SUBSET Clients :
          Go(r, [IdleReq EXCEPT !.op = op, !.pc = "find", !.todo = items])
    BY <1>1 DEF Import
  <2> DEFINE rec == [IdleReq EXCEPT !.op = op, !.pc = "find", !.todo = items]
  <2>3. rec \in Req /\ rec.op = op /\ rec.pc = "find"
    BY <2>1, IdleTypes DEF Req, ReqPc
  <2> HIDE DEF rec
  <2>4. ReqOK
    BY <2>1, <2>2, <2>3, <1>g DEF rec
  <2> QED  BY <1>1, <2>i, <2>4 DEF Import, ReqOK
<1>2. ASSUME NEW c \in Clients, ImportFind(r, c) PROVE TypeInv'
  <2>o. old.op \in {"import", "overwrite"}
    BY <1>2, <1>o DEF ImportFind
  <2> DEFINE skipped == [old EXCEPT !.todo = @ \ {c}]
             chosen  == [old EXCEPT !.pc = "importWrite", !.c = c, !.row = db[c]]
  <2>1. skipped \in Req /\ skipped.op = old.op
    BY <1>f DEF Req
  <2>2. /\ chosen \in Req /\ chosen.op = old.op /\ chosen.pc = "importWrite"
        /\ chosen.c = c
    BY <1>f DEF Req, ReqPc
  <2>3. NextItem(r, skipped) \/ Go(r, chosen)
    BY <1>2 DEF ImportFind
  <2> HIDE DEF skipped, chosen
  <2>4. Go(r, chosen) => ReqOK
    BY <2>2, <2>o, TypeGo DEF ReqOK
  <2>5. ReqOK
    BY <2>o, <2>1, <2>3, <2>4, <1>n
  <2> QED  BY <1>2, <2>5 DEF ImportFind, ReqOK
<1>3. CASE ImportWrite(r)
  <2>o. old.op \in {"import", "overwrite"} /\ old.c \in Clients
    BY <1>3, <1>f, <1>o DEF ImportWrite, ReqNamesClient
  <2>1. PICK p \in Payloads, used \in 0..MaxTraffic :
          /\ WriteItem(r, old.c, Imported(p, used, now))
          /\ usage' = [usage EXCEPT ![old.c] = used]
          /\ imported' = [imported EXCEPT ![old.c] = @ + Surplus(old.c, used)]
    BY <1>3 DEF ImportWrite
  <2> DEFINE row == Imported(p, used, now)
             rec == [old EXCEPT !.c = Nobody, !.todo = @ \ {old.c}, !.rows[old.c] = row]
  <2>2. row \in Row
    BY ImportedType, ControlAssumption
  <2> HIDE DEF row
  <2>3. rec \in Req /\ rec.op = old.op
    BY <1>f, <2>2, <2>o DEF Req
  <2>4. NextItem(r, rec) /\ db' = [db EXCEPT ![old.c] = row]
    BY <2>1 DEF WriteItem, row
  <2> HIDE DEF rec
  <2>5. ReqOK
    BY <2>o, <2>3, <2>4, <1>n
  <2>6. db' \in [Clients -> Row]
    BY <2>2, <2>4, <1>f
  <2>u. used \in Nat
    BY <2>1, ControlAssumption
  <2>7. usage' \in [Clients -> Nat]
    BY <2>1, <2>u, <1>f
  <2>8. imported' \in [Clients -> Nat]
    <3>1. Surplus(old.c, used) \in Nat
      BY <2>o, <2>u, <1>f DEF Surplus
    <3> QED  BY <2>1, <2>o, <3>1, <1>f
  <2> QED  BY <1>3, <2>5, <2>6, <2>7, <2>8 DEF ImportWrite, ReqOK
<1>4. CASE ImportThrows(r)
  BY <1>4, <1>e DEF ImportThrows, ReqOK
<1>5. ASSUME NEW c \in Clients, ImportAdd(r, c) PROVE TypeInv'
  <2>1. users' \subseteq Clients /\ faults' \in 0..MaxFaults
    BY <1>5, CallTypes DEF ImportAdd
  <2> DEFINE rec == [old EXCEPT !.todo = @ \cup {c}]
  <2>2. old.pc = "importSync" /\ old.op \in {"import", "overwrite"}
    BY <1>5, <1>o DEF ImportAdd, Waits
  <2>3. rec \in Req /\ rec.op = old.op /\ rec.pc = old.pc
    BY <1>f DEF Req
  <2>4. Applied(r, c) \/ Go(r, rec)
    BY <1>5 DEF ImportAdd
  <2> HIDE DEF rec
  <2>5. ReqOK
    BY <2>2, <2>3, <2>4, <1>a, <1>g
  <2>6. provisioned' \in BOOLEAN
    BY <1>5 DEF ImportAdd
  <2> QED  BY <1>5, <2>1, <2>5, <2>6 DEF ImportAdd, ReqOK
<1>6. ASSUME NEW c \in Clients, ImportReAdd(r, c) PROVE TypeInv'
  <2>1. users' \subseteq Clients /\ faults' \in 0..MaxFaults
    BY <1>6, CallTypes DEF ImportReAdd
  <2>2. ReqOK
    BY <1>6, <1>a DEF ImportReAdd
  <2> QED  BY <1>6, <2>1, <2>2 DEF ImportReAdd, ReqOK
<1>7. ASSUME NEW c \in Clients, ImportDrop(r, c) PROVE TypeInv'
  <2>1. users' \subseteq Clients /\ faults' \in 0..MaxFaults
    BY <1>7, CallTypes DEF ImportDrop
  <2>2. ReqOK
    BY <1>7, <1>a DEF ImportDrop, Waits
  <2> QED  BY <1>7, <2>1, <2>2 DEF ImportDrop, ReqOK
<1>8. ASSUME NEW c \in Clients, ImportSyncFails(r, c) PROVE TypeInv'
  <2>1. users' \subseteq Clients /\ faults' \in 0..MaxFaults
    BY <1>8, CallTypes DEF ImportSyncFails
  <2>2. ReqOK
    BY <1>8, <1>a DEF ImportSyncFails, Waits
  <2> QED  BY <1>8, <2>1, <2>2 DEF ImportSyncFails, ReqOK
<1> QED  BY <1>1, <1>2, <1>3, <1>4, <1>5, <1>6, <1>7, <1>8 DEF ImportStep

\* The inductive form: every step of every task keeps the types, the bounds and
\* the two facts the tasks rely on.
LEMMA TypeInvCorrect == Spec => []TypeInv
<1>1. Init => TypeInv
  BY TypeInit
<1>2. TypeInv /\ [Next]_vars => TypeInv'
  <2> SUFFICES ASSUME TypeInv, [Next]_vars PROVE TypeInv'
    OBVIOUS
  <2>1. CASE Environment
    BY <2>1, TypeEnvironment
  <2>2. CASE Background
    BY <2>2, TypeSnap, TypeSync DEF Background
  <2>3. ASSUME NEW r \in Requests, Arrive(r) \/ ReqStep(r) PROVE TypeInv'
    BY <2>3, TypeArrive, TypeReqStep
  <2>5. ASSUME NEW r \in Requests, ImportStep(r) \/ \E op \in Operations : Import(r, op)
        PROVE  TypeInv'
    BY <2>5, TypeImport
  <2>4. CASE UNCHANGED vars
    BY <2>4 DEF vars, TypeInv, TypeOK, dbVars, xrayVars, memVars, envVars, ReqNamesClient
  <2> QED  BY <2>1, <2>2, <2>3, <2>4, <2>5 DEF Next
<1> QED  BY <1>1, <1>2, PTL DEF Spec

\* Every reachable state is well typed and within its bounds, for any number of
\* clients and of concurrent requests.
THEOREM TypeCorrect == Spec => []TypeOK
<1>1. TypeInv => TypeOK
  BY DEF TypeInv
<1> QED  BY <1>1, TypeInvCorrect, PTL
===============================================================================
