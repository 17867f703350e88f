----------------------------- MODULE TrafficProofs -----------------------------
(***************************************************************************)
(* The accounting of traffic, for any sets of clients and requests and any *)
(* bounds: bytes move from Xray's counters through a snapshot to the usage *)
(* table and are never counted twice on the way.                           *)
(***************************************************************************)
EXTENDS ControlPlaneProofs

USE Bounds

\* The steps of an import, its arrival included.
ImportAct(r) == ImportStep(r) \/ \E op \in Operations : Import(r, op)

\* A step that takes no client's traffic up anywhere, but by what it imports, and
\* lets nothing be sent.
NotRaised(c) ==
    /\ usage'[c] > usage[c] => imported'[c] = imported[c] + (usage'[c] - usage[c])
    /\ usage'[c] <= usage[c] => imported'[c] = imported[c]
    /\ snap'.delta[c] <= snap.delta[c]
    /\ counters'[c] <= counters[c]
    /\ sent'[c] = sent[c]

Same(c) ==
    /\ usage'[c] = usage[c]
    /\ snap'.delta[c] = snap.delta[c]
    /\ counters'[c] = counters[c]
    /\ sent'[c] = sent[c]

LEMMA Amounts ==
    ASSUME TypeOK, NEW c \in Clients
    PROVE  /\ usage[c] \in Nat /\ counters[c] \in Nat
           /\ sent[c] \in Nat /\ imported[c] \in Nat
           /\ snap.delta \in [Clients -> Nat] /\ snap.delta[c] \in Nat
<1>1. snap.delta \in [Clients -> Nat]
  BY DEF TypeOK, Snap
<1> QED  BY <1>1 DEF TypeOK

LEMMA NotRaisedKeeps ==
    ASSUME TypeOK, TypeOK', NoDoubleCounting, \A c \in Clients : NotRaised(c)
    PROVE  NoDoubleCounting'
<1> SUFFICES ASSUME NEW c \in Clients PROVE (Pending(c) <= Due(c))'
  BY DEF NoDoubleCounting
<1>1. /\ usage[c] \in Nat /\ counters[c] \in Nat /\ snap.delta[c] \in Nat
      /\ sent[c] \in Nat /\ imported[c] \in Nat
  BY Amounts
<1>2. usage'[c] \in Nat /\ counters'[c] \in Nat /\ snap'.delta[c] \in Nat
  <2>1. snap'.delta \in [Clients -> Nat]
    BY DEF TypeOK, Snap
  <2> QED  BY <2>1 DEF TypeOK
<1>3. usage[c] + snap.delta[c] + counters[c] <= sent[c] + imported[c]
  BY DEF NoDoubleCounting, Pending, Due
<1> QED  BY <1>1, <1>2, <1>3 DEF NotRaised, Pending, Due

\* A snapshot that gives up drops what it drained.
LEMMA IdleHoldsNothing ==
    ASSUME TypeOK, snap' = IdleSnap, UNCHANGED <<usage, sent, imported>>, NEW c \in Clients,
           counters'[c] <= counters[c]
    PROVE  /\ NotRaised(c)
           /\ UNCHANGED counters /\ snap.delta[c] = 0 => Same(c)
<1>1. snap'.delta[c] = 0
  BY DEF IdleSnap
<1> QED  BY <1>1, Amounts DEF NotRaised, Same

\* Every snapshot step but the drain and the record.
LEMMA CountSnapRest ==
    ASSUME TypeOK, SnapTimer \/ (SnapStep /\ ~SnapQuery /\ ~SnapRecord)
    PROVE  \A c \in Clients :
             /\ NotRaised(c)
             /\ \/ Same(c)
                \/ LosesTraffic(c)
                \/ snap.delta[c] > 0 /\ snap.pc \notin {"clients", "record"}
<1> DEFINE Claim(c) == /\ NotRaised(c)
                       /\ \/ Same(c)
                          \/ LosesTraffic(c)
                          \/ snap.delta[c] > 0 /\ snap.pc \notin {"clients", "record"}
<1> SUFFICES ASSUME NEW c \in Clients PROVE Claim(c)
  OBVIOUS
<1> USE DEF dbVars, xrayVars, xrayRest, envVars
<1>a. /\ usage[c] \in Nat /\ counters[c] \in Nat /\ snap.delta[c] \in Nat
      /\ sent[c] \in Nat /\ imported[c] \in Nat
  BY Amounts
<1>b. snap \in Snap
  BY DEF TypeOK
<1>k. ASSUME UNCHANGED <<usage, counters, sent, imported>>, snap'.delta = snap.delta PROVE Claim(c)
  BY <1>a, <1>k DEF NotRaised, Same
<1>1. CASE SnapQueryFails
  <2>1. LosesTraffic(c)
    BY <1>1 DEF LosesTraffic
  <2>2. NotRaised(c)
    BY <1>1, <1>a, IdleHoldsNothing DEF SnapQueryFails, SnapFail, Drain
  <2> QED  BY <2>1, <2>2
<1>2. CASE SnapRecordFails
  <2>1. LosesTraffic(c)
    BY <1>2 DEF LosesTraffic
  <2>2. NotRaised(c)
    BY <1>2, <1>a, IdleHoldsNothing DEF SnapRecordFails, SnapFail
  <2> QED  BY <2>1, <2>2
<1>3. ASSUME NEW d \in Clients, SnapQuotaBlockFails(d) PROVE Claim(c)
  BY <1>3, <1>a, IdleHoldsNothing DEF SnapQuotaBlockFails, SnapFail
<1>4. CASE SnapDropFails
  BY <1>4, <1>a, IdleHoldsNothing DEF SnapDropFails, SnapFail
<1>5. CASE SnapEnd
  BY <1>5, <1>a, IdleHoldsNothing DEF SnapEnd
<1>6. CASE SnapTimer \/ SnapClients
  BY <1>6, <1>b, <1>k DEF SnapTimer, SnapClients, Snap
<1>7. CASE SnapQuota
  BY <1>7, <1>b, <1>k DEF SnapQuota, Snap
<1>8. CASE SnapUsage
  BY <1>8, <1>b, <1>k DEF SnapUsage, Snap
<1>9. ASSUME NEW d \in Clients, SnapQuotaBlock(d) \/ SnapAccessBlock(d) PROVE Claim(c)
  BY <1>9, <1>b, <1>k DEF SnapQuotaBlock, SnapAccessBlock, Snap
<1>10. CASE SnapQuotaDrop \/ SnapAccessDrop
  BY <1>10, <1>b, <1>k DEF SnapQuotaDrop, SnapAccessDrop, Snap
<1> QED  BY <1>1, <1>2, <1>3, <1>4, <1>5, <1>6, <1>7, <1>8, <1>9, <1>10 DEF SnapStep

\* The steps of everything else.
LEMMA CountRest ==
    ASSUME TypeOK, TypeOK',
           \/ Tick \/ XrayStart \/ XrayStop \/ ApiRestart
           \/ SyncStep \/ EnsureSample \/ EnsureDecide \/ Probe
           \/ \E r \in Requests : Arrive(r) \/ ReqStep(r) \/ ImportAct(r)
           \/ UNCHANGED vars
    PROVE  \A c \in Clients : NotRaised(c) /\ (Same(c) \/ LosesTraffic(c))
<1> DEFINE Claim(c) == NotRaised(c) /\ (Same(c) \/ LosesTraffic(c))
<1> SUFFICES ASSUME NEW c \in Clients PROVE Claim(c)
  OBVIOUS
<1> USE DEF dbVars, xrayVars, xrayRest, memVars, envVars, taskVars
<1>a. /\ usage[c] \in Nat /\ counters[c] \in Nat /\ snap.delta[c] \in Nat
      /\ sent[c] \in Nat /\ imported[c] \in Nat
  BY Amounts
<1>k. ASSUME UNCHANGED <<usage, counters, sent, imported, snap>> PROVE Claim(c)
  BY <1>a, <1>k DEF NotRaised, Same
<1>1. CASE Tick \/ XrayStart \/ UNCHANGED vars
  BY <1>1, <1>k DEF Tick, XrayStart, vars
<1>2. CASE XrayStop
  BY <1>2, <1>a DEF XrayStop, NotRaised, LosesTraffic
<1>3. CASE ApiRestart
  BY <1>3, <1>a, IdleHoldsNothing DEF ApiRestart, LosesTraffic
<1>4. CASE SyncStep
  BY <1>4, <1>k DEF SyncStep, SyncRead, SyncAdd, SyncReAdd, SyncDrop, SyncFails
<1>5. CASE EnsureSample \/ EnsureDecide \/ Probe
  BY <1>5, <1>k DEF EnsureSample, EnsureDecide, Probe, SummaryFails
<1>6. ASSUME NEW r \in Requests, Arrive(r) PROVE Claim(c)
  BY <1>6, <1>k DEF Arrive, Create, ReadClient, ReadClients, SyncEndpoint
<1>7. ASSUME NEW r \in Requests, ReqStep(r) PROVE Claim(c)
  <2>1. CASE JoinSnapshot(r)
    <3>1. snap'.delta = snap.delta
      BY <2>1 DEF JoinSnapshot, Joined, TypeOK, Snap
    <3> QED  BY <2>1, <3>1, <1>a DEF JoinSnapshot, Joined, NotRaised, Same
  <2>2. CASE ResetWrite(r) \/ RemoveWrite(r)
    <3>1. usage'[c] = usage[c] \/ (usage'[c] = 0 /\ req[r].c = c)
      BY <2>2 DEF ResetWrite, RemoveWrite, TypeOK
    <3>2. UNCHANGED <<counters, sent, imported, snap>>
      BY <2>2 DEF ResetWrite, RemoveWrite
    <3> QED  BY <2>2, <3>1, <3>2, <1>a DEF NotRaised, Same, LosesTraffic
  <2>3. CASE \/ SkipSnapshot(r) \/ UpdateWrite(r) \/ ExtendWrite(r) \/ ExtendNothing(r)
             \/ ResetReread(r) \/ ClientGone(r) \/ DashboardPrime(r) \/ SweepRead(r)
             \/ SweepWrite(r)
    BY <2>3, <1>k DEF SkipSnapshot, UpdateWrite, ExtendWrite, ExtendNothing, ResetReread,
                      ClientGone, DashboardPrime, SweepRead, SweepWrite
  <2>4. CASE ClientAdd(r) \/ ClientReAdd(r) \/ ClientDrop(r) \/ ClientSyncFails(r)
    BY <2>4, <1>k DEF ClientAdd, ClientReAdd, ClientDrop, ClientSyncFails
  <2>5. ASSUME NEW d \in Clients, SweepDrop(r, d) PROVE Claim(c)
    BY <2>5, <1>k DEF SweepDrop
  <2> QED  BY <1>7, <2>1, <2>2, <2>3, <2>4, <2>5 DEF ReqStep
<1>8. ASSUME NEW r \in Requests, ImportAct(r) PROVE Claim(c)
  <2>1. CASE ImportWrite(r)
    <3> DEFINE d == req[r].c
    <3>1. PICK used \in 0..MaxTraffic :
            /\ usage' = [usage EXCEPT ![d] = used]
            /\ imported' = [imported EXCEPT ![d] = @ + Surplus(d, used)]
      BY <2>1 DEF ImportWrite
    <3>2. UNCHANGED <<counters, sent, snap>>
      BY <2>1 DEF ImportWrite
    <3>u. used \in Nat
      BY <3>1, ControlAssumption
    <3>3. CASE d = c
      <4>1. usage'[c] = used /\ imported'[c] = imported[c] + Surplus(c, used)
        BY <3>1, <3>3 DEF TypeOK
      <4>2. NotRaised(c)
        BY <4>1, <3>2, <3>u, <1>a DEF NotRaised, Surplus
      <4> QED  BY <2>1, <3>3, <4>2 DEF LosesTraffic
    <3>4. CASE d # c
      <4>1. usage'[c] = usage[c] /\ imported'[c] = imported[c]
        BY <3>1, <3>4 DEF TypeOK
      <4> QED  BY <4>1, <3>2, <1>a DEF NotRaised, Same
    <3> QED  BY <3>3, <3>4
  <2>2. ASSUME NEW op, Import(r, op) PROVE Claim(c)
    BY <2>2, <1>k DEF Import
  <2>3. CASE ImportThrows(r)
    BY <2>3, <1>k DEF ImportThrows
  <2>4. ASSUME NEW d \in Clients,
               ImportFind(r, d) \/ ImportAdd(r, d) \/ ImportReAdd(r, d) \/ ImportDrop(r, d)
                 \/ ImportSyncFails(r, d)
        PROVE  Claim(c)
    BY <2>4, <1>k DEF ImportFind, ImportAdd, ImportReAdd, ImportDrop, ImportSyncFails
  <2> QED  BY <1>8, <2>1, <2>2, <2>3, <2>4 DEF ImportAct, ImportStep
<1> QED  BY <1>1, <1>2, <1>3, <1>4, <1>5, <1>6, <1>7, <1>8

\* The three steps that move traffic: sending, draining, recording.
LEMMA CountMoves ==
    ASSUME TypeOK, NoDoubleCounting,
           (\E c \in Clients : Traffic(c)) \/ SnapQuery \/ SnapRecord
    PROVE  NoDoubleCounting'
<1> SUFFICES ASSUME NEW c \in Clients PROVE (Pending(c) <= Due(c))'
  BY DEF NoDoubleCounting
<1>a. /\ usage[c] \in Nat /\ counters[c] \in Nat /\ snap.delta[c] \in Nat
      /\ sent[c] \in Nat /\ imported[c] \in Nat
  BY Amounts
<1>b. usage[c] + snap.delta[c] + counters[c] <= sent[c] + imported[c]
  BY DEF NoDoubleCounting, Pending, Due
<1>1. ASSUME NEW d \in Clients, Traffic(d) PROVE (Pending(c) <= Due(c))'
  <2>1. usage' = usage /\ snap' = snap /\ imported' = imported
    BY <1>1 DEF Traffic, dbVars
  <2>2. CASE c = d
    BY <1>1, <1>a, <1>b, <2>1, <2>2 DEF Traffic, TypeOK, Pending, Due
  <2>3. CASE c # d
    BY <1>1, <1>a, <1>b, <2>1, <2>3 DEF Traffic, TypeOK, Pending, Due
  <2> QED  BY <2>2, <2>3
<1>2. CASE SnapQuery
  <2>1. snap'.delta = counters
    BY <1>2 DEF SnapQuery, TypeOK, Snap
  <2>2. counters'[c] = 0 /\ usage' = usage /\ sent' = sent /\ imported' = imported
    BY <1>2 DEF SnapQuery, Drain, dbVars, envVars
  <2> QED  BY <1>a, <1>b, <2>1, <2>2 DEF Pending, Due
<1>3. CASE SnapRecord
  <2>1. snap'.delta[c] = 0
    BY <1>3 DEF SnapRecord, TypeOK, Snap
  <2>2. counters' = counters /\ sent' = sent /\ imported' = imported
    BY <1>3 DEF SnapRecord, xrayVars, envVars
  <2>3. usage'[c] = usage[c] + snap.delta[c] \/ usage'[c] = usage[c]
    BY <1>3 DEF SnapRecord, Recorded
  <2> QED  BY <1>a, <1>b, <2>1, <2>2, <2>3 DEF Pending, Due
<1> QED  BY <1>1, <1>2, <1>3

\* Bytes are recorded at most once, whatever snapshots, resets, crashes and
\* failed calls interleave: the count needs only the types to be inductive.
THEOREM CountedOnce == Spec => []NoDoubleCounting
<1> DEFINE Inv == TypeInv /\ NoDoubleCounting
<1>1. Init => Inv
  <2>1. ASSUME Init PROVE NoDoubleCounting
    BY <2>1 DEF Init, IdleSnap, NoDoubleCounting, Pending, Due
  <2> QED  BY <2>1, TypeInit
<1>2. Inv /\ TypeInv' /\ [Next]_vars => Inv'
  <2> SUFFICES ASSUME Inv, TypeInv', [Next]_vars PROVE NoDoubleCounting'
    OBVIOUS
  <2>1. TypeOK /\ TypeOK' /\ NoDoubleCounting
    BY DEF TypeInv
  <2>2. CASE (\E c \in Clients : Traffic(c)) \/ SnapQuery \/ SnapRecord
    BY <2>1, <2>2, CountMoves
  <2>3. CASE SnapTimer \/ (SnapStep /\ ~SnapQuery /\ ~SnapRecord)
    BY <2>1, <2>3, CountSnapRest, NotRaisedKeeps
  <2>4. CASE \/ Tick \/ XrayStart \/ XrayStop \/ ApiRestart
             \/ SyncStep \/ EnsureSample \/ EnsureDecide \/ Probe
             \/ \E r \in Requests : Arrive(r) \/ ReqStep(r) \/ ImportAct(r)
             \/ UNCHANGED vars
    BY <2>1, <2>4, CountRest, NotRaisedKeeps
  <2> QED  BY <2>2, <2>3, <2>4 DEF Next, Environment, Background, ImportAct
<1> QED  BY <1>1, <1>2, TypeInvCorrect, PTL DEF Spec

-------------------------------------------------------------------------------
(***************************************************************************)
(* That traffic is kept needs to know where drained traffic can be: only   *)
(* in a snapshot between its drain and its transaction, and there only on  *)
(* clients the transaction will write, unless their row is gone.  A client *)
(* created in between is no exception because an id without a past row has *)
(* no user in Xray, hence no traffic; that in turn rests on requests and   *)
(* synchronisations only ever holding rows that were stored.               *)
(***************************************************************************)
Unborn(c) == db[c].status = "UNBORN"

Drained ==
    \A c \in Clients : snap.delta[c] > 0 =>
        /\ snap.pc \in {"clients", "record"}
        /\ c \in snap.tags
        /\ snap.pc = "record" /\ Stored(db[c]) => c \in snap.seen

Traceless ==
    \A c \in Clients : Unborn(c) =>
        /\ c \notin users
        /\ counters[c] = 0
        /\ snap.delta[c] = 0
        /\ c \notin sync.todo
        /\ c # sync.cur

\* Clients an import has still to synchronise, or is re-adding.
ImportHolds(r, c) == \/ Stored(req[r].rows[c])
                     \/ req[r].pc = "importSync" /\ c \in req[r].todo

HoldsRow(r) ==
    /\ req[r].c \in Clients /\ req[r].op \notin {"import", "overwrite"} =>
          Stored(req[r].row) /\ ~Unborn(req[r].c)
    /\ \A c \in Clients : ImportHolds(r, c) => ~Unborn(c)
HeldRows == \A r \in Requests : HoldsRow(r)

KeptInv == TypeInv /\ Drained /\ Traceless /\ HeldRows

\* Where a row may go: no row is forgotten to have existed, and none comes
\* back after its deletion.
RowLife(c) ==
    /\ Unborn(c)' => Unborn(c)
    /\ Stored(db[c])' => Stored(db[c]) \/ Unborn(c)

\* The steps that write the client table.
DbSteps ==
    \/ \E c \in Clients : SnapQuotaBlock(c) \/ SnapAccessBlock(c)
    \/ \E r \in Requests :
         \/ \E c \in Clients : Create(r, c)
         \/ UpdateWrite(r) \/ ExtendWrite(r) \/ ResetWrite(r) \/ RemoveWrite(r)
         \/ DashboardPrime(r) \/ SweepWrite(r) \/ ImportWrite(r)

LEMMA DbWriters == [Next]_vars => db' = db \/ DbSteps
<1> SUFFICES ASSUME [Next]_vars, db' # db PROVE DbSteps
  OBVIOUS
<1> USE DEF dbVars, vars
<1>1. ~Environment
  BY DEF Environment, Tick, XrayStart, XrayStop, ApiRestart, Traffic
<1>2. Background => DbSteps
  BY DEF Background, SnapTimer, SnapStep, SnapQuery, SnapQueryFails, SnapClients, SnapRecord,
         SnapRecordFails, SnapQuota, SnapUsage, SnapQuotaBlockFails, SnapQuotaDrop,
         SnapAccessDrop, SnapDropFails, SnapEnd, SyncStep, SyncRead, SyncAdd, SyncReAdd,
         SyncDrop, SyncFails, EnsureSample, EnsureDecide, Probe, SummaryFails, DbSteps
<1>3. ASSUME NEW r \in Requests, Arrive(r) PROVE DbSteps
  BY <1>3 DEF Arrive, ReadClient, ReadClients, SyncEndpoint, DbSteps
<1>4. ASSUME NEW r \in Requests, ReqStep(r) PROVE DbSteps
  BY <1>4 DEF ReqStep, JoinSnapshot, SkipSnapshot, ExtendNothing, ResetReread, ClientGone,
              ClientAdd, ClientReAdd, ClientDrop, ClientSyncFails, SweepRead, SweepDrop, DbSteps
<1>5. ASSUME NEW r \in Requests, ImportAct(r) PROVE DbSteps
  BY <1>5 DEF ImportAct, ImportStep, Import, ImportFind, ImportThrows, ImportAdd, ImportReAdd,
              ImportDrop, ImportSyncFails, DbSteps
<1> QED  BY <1>1, <1>2, <1>3, <1>4, <1>5 DEF Next, ImportAct

LEMMA UpdatedStored ==
    ASSUME NEW existing \in Row, NEW current \in Row, NEW p \in Payload, NEW t
    PROVE  Stored(Updated(existing, current, p, t))
<1> DEFINE unlimited  == Given(p.unlimited, existing.unlimited)
           limitGiven == p.limit # Keep \/ p.unlimited # Keep
           judged == [status    |-> Given(p.status, existing.status),
                      expiresAt |-> Given(p.expiresAt, existing.expiresAt),
                      limit     |-> IF limitGiven THEN ResolveLimit(unlimited, p.limit)
                                    ELSE existing.limit,
                      unlimited |-> unlimited,
                      vless     |-> Given(p.vless, existing.vless)]
<1>1. judged.status \in ClientStatus \cup {"UNBORN", "DELETED"}
  BY DEF Given, Payload, Row
<1>2. EffectiveStatus(judged, 0, t) \in ClientStatus
  BY <1>1, EffectiveStatusType
<1>3. Updated(existing, current, p, t).status = EffectiveStatus(judged, 0, t)
  BY DEF Updated
<1> QED  BY <1>2, <1>3 DEF Stored

LEMMA CreatedStored ==
    ASSUME NEW p \in Payload, NEW t
    PROVE  Stored(Created(p, t))
  BY UpdatedStored DEF Created, Row, ClientStatus, Date, Limit

LEMMA RowsLive ==
    ASSUME TypeInv, HeldRows, [Next]_vars, NEW c \in Clients
    PROVE  RowLife(c)
<1> USE DEF TypeInv, TypeOK
<1>s. \A row : Stored(row) => row.status # "UNBORN" /\ row.status # "DELETED"
  BY DEF Stored, ClientStatus
\* A step that leaves c alone, or stores a row over a stored one.
<1>k. ASSUME db'[c] = db[c] \/ (Stored(db[c]) /\ Stored(db'[c])) PROVE RowLife(c)
  BY <1>k, <1>s DEF RowLife, Unborn
<1>e. ASSUME NEW S, MarkExpired(S) PROVE RowLife(c)
  <2>1. db'[c] = db[c] \/ (Stored(db[c]) /\ db'[c] = [db[c] EXCEPT !.status = "EXPIRED"])
    BY <1>e DEF MarkExpired
  <2> QED  BY <2>1, <1>k DEF Stored, Row, ClientStatus
<1>1. CASE db' = db
  BY <1>1, <1>k
<1>2. ASSUME NEW d \in Clients, SnapQuotaBlock(d) \/ SnapAccessBlock(d) PROVE RowLife(c)
  <2>1. \/ db'[c] = db[c]
        \/ db[c].status \in ClientStatus /\ db'[c] = [db[c] EXCEPT !.status = "BLOCKED"]
    BY <1>2 DEF SnapQuotaBlock, SnapAccessBlock, Stored, ClientStatus
  <2> QED  BY <2>1, <1>k DEF Stored, Row, ClientStatus
<1>3. ASSUME NEW r \in Requests, NEW d \in Clients, Create(r, d) PROVE RowLife(c)
  <2>1. CASE c = d
    BY <1>3, <2>1 DEF Create, RowLife, Unborn
  <2>2. CASE c # d
    BY <1>3, <2>2, <1>k DEF Create
  <2> QED  BY <2>1, <2>2
<1>4. ASSUME NEW r \in Requests, UpdateWrite(r) PROVE RowLife(c)
  <2>1. PICK p \in Payloads :
          db' = [db EXCEPT ![req[r].c] = Updated(req[r].row, db[req[r].c], p, now)]
    BY <1>4 DEF UpdateWrite, StoreAndSync
  <2>2. CASE c = req[r].c
    <3>1. Stored(db[c]) /\ req[r].row \in Row
      BY <1>4, <2>2 DEF UpdateWrite, Writes, Req
    <3>2. Stored(db'[c])
      BY <2>1, <2>2, <3>1, UpdatedStored, ControlAssumption
    <3> QED  BY <3>1, <3>2, <1>k
  <2>3. CASE c # req[r].c
    BY <2>1, <2>3, <1>k
  <2> QED  BY <2>2, <2>3
<1>5. ASSUME NEW r \in Requests, ExtendWrite(r) PROVE RowLife(c)
  <2>1. PICK d \in ExtendDates \cup ({req[r].row.expiresAt} \ {NoDate}) :
          db' = [db EXCEPT ![req[r].c] =
                   [db[req[r].c] EXCEPT !.expiresAt = d, !.status = "ACTIVE"]]
    BY <1>5 DEF ExtendWrite, StoreAndSync
  <2>2. CASE c = req[r].c
    <3>1. Stored(db[c])
      BY <1>5, <2>2 DEF ExtendWrite, Writes
    <3>2. Stored(db'[c])
      BY <2>1, <2>2 DEF Stored, Row, ClientStatus
    <3> QED  BY <3>1, <3>2, <1>k
  <2>3. CASE c # req[r].c
    BY <2>1, <2>3, <1>k
  <2> QED  BY <2>2, <2>3
<1>6. ASSUME NEW r \in Requests, ResetWrite(r) PROVE RowLife(c)
  <2>1. db' = [db EXCEPT ![req[r].c].status = StatusAfterReset(req[r].row, now)]
    BY <1>6 DEF ResetWrite
  <2>2. CASE c = req[r].c
    <3>1. Stored(db[c]) /\ Stored(req[r].row)
      BY <1>6, <2>2 DEF ResetWrite, Writes, HeldRows, HoldsRow
    <3>2. StatusAfterReset(req[r].row, now) \in ClientStatus
      <4>1. [req[r].row EXCEPT !.status = "ACTIVE"].status \in ClientStatus
        BY DEF Req, Row, ClientStatus
      <4>2. EffectiveStatus([req[r].row EXCEPT !.status = "ACTIVE"], 0, now) \in ClientStatus
        BY <4>1, EffectiveStatusType
      <4> QED  BY <3>1, <4>2 DEF StatusAfterReset, Stored
    <3>3. Stored(db'[c])
      BY <2>1, <2>2, <3>2 DEF Stored, Row
    <3> QED  BY <3>1, <3>3, <1>k
  <2>3. CASE c # req[r].c
    BY <2>1, <2>3, <1>k
  <2> QED  BY <2>2, <2>3
<1>7. ASSUME NEW r \in Requests, RemoveWrite(r) PROVE RowLife(c)
  <2>1. db' = [db EXCEPT ![req[r].c] = NoRow("DELETED")]
    BY <1>7 DEF RemoveWrite
  <2>2. CASE c = req[r].c
    <3>1. db'[c].status = "DELETED"
      BY <2>1, <2>2 DEF NoRow
    <3> QED  BY <3>1 DEF RowLife, Unborn, Stored, ClientStatus
  <2>3. CASE c # req[r].c
    BY <2>1, <2>3, <1>k
  <2> QED  BY <2>2, <2>3
<1>8. ASSUME NEW r \in Requests, DashboardPrime(r) \/ SweepWrite(r) PROVE RowLife(c)
  BY <1>8, <1>e DEF DashboardPrime, SweepWrite
<1>9. ASSUME NEW r \in Requests, ImportWrite(r) PROVE RowLife(c)
  <2>1. PICK p \in Payloads, used \in 0..MaxTraffic : db' = [db EXCEPT ![req[r].c] = Imported(p, used, now)]
    BY <1>9 DEF ImportWrite, WriteItem
  <2>2. CASE c = req[r].c
    <3>1. Stored(db[c]) \/ Unborn(c)
      BY <1>9, <2>2 DEF ImportWrite, AsFound, Unborn
    <3>2. Stored(db'[c])
      BY <2>1, <2>2, ImportedType, ControlAssumption
    <3> QED  BY <3>1, <3>2, <1>s DEF RowLife, Unborn
  <2>3. CASE c # req[r].c
    BY <2>1, <2>3, <1>k
  <2> QED  BY <2>2, <2>3
<1> QED  BY <1>1, <1>2, <1>3, <1>4, <1>5, <1>6, <1>7, <1>8, <1>9, DbWriters DEF DbSteps

LEMMA NoneImported == \A c \in Clients : ~Stored(NoRows[c])
  BY DEF NoRows, NoRow, Stored, ClientStatus

\* What an import holds was stored by it, and a row stored is never unborn again.
LEMMA ImportsHold ==
    ASSUME TypeInv, TypeInv', HeldRows, [Next]_vars, NEW r \in Requests, ImportAct(r)
    PROVE  HeldRows'
<1> DEFINE old == req[r]
           HoldsAfter(rec) ==
             /\ rec.op \in {"import", "overwrite"}
             /\ \A c \in Clients :
                  Stored(rec.rows[c]) \/ (rec.pc = "importSync" /\ c \in rec.todo) =>
                     db'[c].status # "UNBORN"
<1>l. \A c \in Clients : RowLife(c)
  BY RowsLive
<1>n. Nobody \notin Clients
  BY ControlAssumption
<1>f. old \in Req /\ ReqNamesClient(r) /\ HoldsRow(r)
  BY DEF TypeInv, TypeOK, HeldRows
<1>g. ASSUME NEW rec, Go(r, rec), HoldsAfter(rec) \/ rec = IdleReq PROVE HeldRows'
  <2> SUFFICES ASSUME NEW q \in Requests PROVE HoldsRow(q)'
    BY DEF HeldRows
  <2>1. CASE q = r
    <3>1. req'[q] = rec
      BY <1>g, <2>1 DEF Go, TypeInv, TypeOK
    <3>2. CASE HoldsAfter(rec)
      BY <3>1, <3>2 DEF HoldsRow, ImportHolds, Unborn
    <3>3. CASE rec = IdleReq
      BY <3>1, <3>3, <1>n, NoneImported DEF HoldsRow, ImportHolds, IdleReq
    <3> QED  BY <1>g, <3>2, <3>3
  <2>2. CASE q # r
    <3>1. req'[q] = req[q]
      BY <1>g, <2>2 DEF Go, TypeInv, TypeOK
    <3> QED  BY <3>1, <1>l DEF HeldRows, HoldsRow, ImportHolds, RowLife, Unborn
  <2> QED  BY <2>1, <2>2
\* After an item: nothing is between removal and re-adding yet.
<1>i. ASSUME NEW rec \in Req, rec.op \in {"import", "overwrite"}, NextItem(r, rec),
             \A c \in Clients : Stored(rec.rows[c]) => db'[c].status # "UNBORN"
      PROVE  HeldRows'
  <2> DEFINE finding == [rec EXCEPT !.pc = "find"]
             syncing == [rec EXCEPT !.pc = "importSync"]
  <2>1. HoldsAfter(finding)
    BY <1>i DEF Req
  <2>2. rec.todo = {} => HoldsAfter(syncing)
    BY <1>i DEF Req
  <2>3. Go(r, finding) \/ (rec.todo = {} /\ Go(r, syncing)) \/ Go(r, IdleReq)
    BY <1>i DEF NextItem
  <2> HIDE DEF finding, syncing, HoldsAfter
  <2> QED  BY <2>1, <2>2, <2>3, <1>g
<1>s. ASSUME NEW c \in Clients, old.pc = "importSync", Applied(r, c) PROVE HeldRows'
  <2> DEFINE rec == [old EXCEPT !.todo = @ \ {c}, !.rows[c] = NoRow("UNBORN")]
  <2>1. rec.op = old.op /\ rec.pc = old.pc /\ rec.todo \subseteq old.todo
    BY <1>f DEF Req
  <2>2. \A d \in Clients : Stored(rec.rows[d]) => Stored(old.rows[d])
    BY <1>f DEF Req, NoRow, Stored, ClientStatus
  <2>3. Go(r, rec) \/ Go(r, IdleReq)
    BY <1>s DEF Applied
  <2> HIDE DEF rec
  <2>4. HoldsAfter(rec)
    BY <1>s, <1>f, <1>l, <2>1, <2>2
       DEF HoldsRow, ImportHolds, RowLife, Unborn, ReqNamesClient, Importing
  <2> HIDE DEF HoldsAfter
  <2> QED  BY <2>3, <2>4, <1>g
<1>o. old.pc \in Importing => old.op \in {"import", "overwrite"}
  BY <1>f DEF ReqNamesClient
<1>h. \A c \in Clients : Stored(old.rows[c]) => db'[c].status # "UNBORN"
  BY <1>f, <1>l DEF HoldsRow, ImportHolds, RowLife, Unborn
<1>1. ASSUME NEW op \in Operations, Import(r, op) PROVE HeldRows'
  <2>1. PICK items \in SUBSET Clients :
          Go(r, [IdleReq EXCEPT !.op = op, !.pc = "find", !.todo = items])
    BY <1>1 DEF Import
  <2> DEFINE rec == [IdleReq EXCEPT !.op = op, !.pc = "find", !.todo = items]
  <2>2. HoldsAfter(rec)
    BY <1>1, NoneImported DEF Import, IdleReq
  <2> HIDE DEF rec, HoldsAfter
  <2> QED  BY <2>1, <2>2, <1>g DEF rec
<1>2. ASSUME NEW c \in Clients, ImportFind(r, c) PROVE HeldRows'
  <2>o. old.op \in {"import", "overwrite"}
    BY <1>2, <1>o DEF ImportFind, Importing
  <2> DEFINE skipped == [old EXCEPT !.todo = @ \ {c}]
             chosen  == [old EXCEPT !.pc = "importWrite", !.c = c, !.row = db[c]]
  <2>1. skipped \in Req /\ skipped.op = old.op /\ skipped.rows = old.rows
    BY <1>f DEF Req
  <2>2. chosen.op = old.op /\ chosen.rows = old.rows /\ chosen.pc = "importWrite"
    BY <1>f DEF Req
  <2>3. NextItem(r, skipped) \/ Go(r, chosen)
    BY <1>2 DEF ImportFind
  <2> HIDE DEF skipped, chosen
  <2>4. HoldsAfter(chosen)
    BY <2>2, <2>o, <1>h
  <2> HIDE DEF HoldsAfter
  <2> QED  BY <2>o, <2>1, <2>3, <2>4, <1>g, <1>h, <1>i
<1>3. CASE ImportWrite(r)
  <2>o. old.op \in {"import", "overwrite"} /\ old.c \in Clients
    BY <1>3, <1>f, <1>o DEF ImportWrite, ReqNamesClient, Importing
  <2>1. PICK p \in Payloads, used \in 0..MaxTraffic : WriteItem(r, old.c, Imported(p, used, now))
    BY <1>3 DEF ImportWrite
  <2> DEFINE row == Imported(p, used, now)
             rec == [old EXCEPT !.c = Nobody, !.todo = @ \ {old.c}, !.rows[old.c] = row]
  <2>2. row \in Row /\ Stored(row)
    BY ImportedType, ControlAssumption
  <2>3. NextItem(r, rec) /\ db' = [db EXCEPT ![old.c] = row]
    BY <2>1 DEF WriteItem
  <2> HIDE DEF row
  <2>4. rec \in Req /\ rec.op = old.op /\ rec.rows = [old.rows EXCEPT ![old.c] = row]
    BY <1>f, <2>2, <2>o DEF Req
  <2> HIDE DEF rec
  <2>5. \A c \in Clients : Stored(rec.rows[c]) => db'[c].status # "UNBORN"
    <3> SUFFICES ASSUME NEW c \in Clients, Stored(rec.rows[c]) PROVE db'[c].status # "UNBORN"
      OBVIOUS
    <3>1. CASE c = old.c
      BY <2>2, <2>3, <3>1 DEF TypeInv, TypeOK, Stored, ClientStatus
    <3>2. CASE c # old.c
      BY <2>4, <3>2, <1>f, <1>h DEF Req
    <3> QED  BY <3>1, <3>2
  <2> QED  BY <2>o, <2>3, <2>4, <2>5, <1>i
<1>4. CASE ImportThrows(r)
  BY <1>4, <1>g DEF ImportThrows, Finish
<1>5. ASSUME NEW c \in Clients, ImportAdd(r, c) PROVE HeldRows'
  <2> DEFINE rec == [old EXCEPT !.todo = @ \cup {c}]
  <2>1. old.pc = "importSync" /\ Stored(old.rows[c])
    BY <1>5 DEF ImportAdd, Waits, Unapplied
  <2>2. /\ rec.op = old.op /\ rec.pc = old.pc /\ rec.rows = old.rows
        /\ rec.todo = old.todo \cup {c}
    BY <1>f DEF Req
  <2>3. Applied(r, c) \/ Go(r, rec)
    BY <1>5 DEF ImportAdd
  <2> HIDE DEF rec
  <2>4. HoldsAfter(rec)
    BY <2>1, <2>2, <1>f, <1>l, <1>o
       DEF HoldsRow, ImportHolds, RowLife, Unborn, Importing
  <2> HIDE DEF HoldsAfter
  <2> QED  BY <2>1, <2>3, <2>4, <1>g, <1>s
<1>6. ASSUME NEW c \in Clients,
             ImportReAdd(r, c) \/ ImportDrop(r, c) \/ ImportSyncFails(r, c)
      PROVE  HeldRows'
  BY <1>6, <1>s DEF ImportReAdd, ImportDrop, ImportSyncFails, Waits
<1> QED  BY <1>1, <1>2, <1>3, <1>4, <1>5, <1>6 DEF ImportAct, ImportStep

\* Requests only hold rows that were stored.
LEMMA RequestsHold ==
    ASSUME TypeInv, TypeInv', HeldRows, [Next]_vars
    PROVE  HeldRows'
<1> USE DEF TypeInv, TypeOK, vars, dbVars, xrayVars, xrayRest, memVars, envVars, taskVars
<1>n. Nobody \notin Clients
  BY ControlAssumption
<1>l. \A c \in Clients : RowLife(c)
  BY RowsLive
\* What one request may do to what it holds.
<1>h. ASSUME NEW r \in Requests,
             \/ req'[r] = req[r]
             \/ req'[r] = IdleReq
             \/ /\ req'[r].c = req[r].c
                /\ req'[r].op = req[r].op \/ req[r].op \notin {"import", "overwrite"}
                /\ req'[r].row = req[r].row \/ Stored(req'[r].row)
                /\ req'[r].rows = req[r].rows /\ req'[r].pc # "importSync"
      PROVE  HoldsRow(r)'
  <2>1. CASE req'[r] = req[r]
    BY <2>1, <1>l DEF HeldRows, HoldsRow, ImportHolds, RowLife, Unborn
  <2>2. CASE req'[r] = IdleReq
    BY <2>2, <1>n, NoneImported DEF HoldsRow, ImportHolds, IdleReq
  <2>3. CASE /\ req'[r].c = req[r].c
             /\ req'[r].op = req[r].op \/ req[r].op \notin {"import", "overwrite"}
             /\ req'[r].row = req[r].row \/ Stored(req'[r].row)
             /\ req'[r].rows = req[r].rows /\ req'[r].pc # "importSync"
    BY <2>3, <1>l DEF HeldRows, HoldsRow, ImportHolds, RowLife, Unborn
  <2> QED  BY <1>h, <2>1, <2>2, <2>3
<1>1. CASE UNCHANGED req
  BY <1>1, <1>h DEF HeldRows
<1>2. CASE ApiRestart
  BY <1>2, <1>h DEF ApiRestart, HeldRows
<1>3. CASE req' = Settled
  <2> SUFFICES ASSUME NEW r \in Requests PROVE HoldsRow(r)'
    BY DEF HeldRows
  <2>1. req'[r] = req[r] \/ req'[r] = IdleReq \/ req'[r] = [req[r] EXCEPT !.pc = "write"]
    BY <1>3 DEF Settled
  <2> DEFINE rec == [req[r] EXCEPT !.pc = "write"]
  <2>2. /\ rec.c = req[r].c /\ rec.row = req[r].row /\ rec.op = req[r].op
        /\ rec.rows = req[r].rows /\ rec.pc # "importSync"
    BY DEF Req
  <2> QED  BY <2>1, <2>2, <1>h
\* The steps of one request.
<1>g. ASSUME NEW r \in Requests, NEW rec, Go(r, rec),
             \/ rec = IdleReq
             \/ /\ rec.c = req[r].c
                /\ rec.op = req[r].op \/ req[r].op \notin {"import", "overwrite"}
                /\ rec.row = req[r].row \/ Stored(rec.row)
                /\ rec.rows = req[r].rows /\ rec.pc # "importSync"
             \/ /\ rec.c \in Clients => Stored(rec.row) /\ ~Unborn(rec.c)'
                /\ rec.rows = NoRows /\ rec.pc # "importSync"
      PROVE  HeldRows'
  <2> SUFFICES ASSUME NEW q \in Requests PROVE HoldsRow(q)'
    BY DEF HeldRows
  <2>1. CASE q = r
    <3>1. req'[q] = rec
      BY <1>g, <2>1 DEF Go
    <3>2. CASE /\ rec.c \in Clients => Stored(rec.row) /\ ~Unborn(rec.c)'
               /\ rec.rows = NoRows /\ rec.pc # "importSync"
      BY <2>1, <3>1, <3>2, NoneImported DEF HoldsRow, ImportHolds, Unborn
    <3>3. CASE \/ rec = IdleReq
               \/ /\ rec.c = req[r].c
                  /\ rec.op = req[r].op \/ req[r].op \notin {"import", "overwrite"}
                  /\ rec.row = req[r].row \/ Stored(rec.row)
                  /\ rec.rows = req[r].rows /\ rec.pc # "importSync"
      BY <2>1, <3>1, <3>3, <1>h
    <3> QED  BY <1>g, <3>2, <3>3
  <2>2. CASE q # r
    BY <1>g, <1>h, <2>2 DEF Go
  <2> QED  BY <2>1, <2>2
\* Moving on with the same client and row.
<1>m. ASSUME NEW r \in Requests, NEW rec, Go(r, rec),
             rec.c = req[r].c, rec.row = req[r].row, rec.rows = req[r].rows,
             rec.op = req[r].op \/ req[r].op \notin {"import", "overwrite"},
             rec.pc # "importSync"
      PROVE  HeldRows'
  BY <1>m, <1>g
<1>f. ASSUME NEW r \in Requests, Finish(r) PROVE HeldRows'
  BY <1>f, <1>g DEF Finish
<1>p. ASSUME NEW r \in Requests, NEW pc, pc # "importSync",
             Go(r, [req[r] EXCEPT !.pc = pc])
      PROVE  HeldRows'
  <2> DEFINE rec == [req[r] EXCEPT !.pc = pc]
  <2>1. /\ rec.c = req[r].c /\ rec.row = req[r].row /\ rec.rows = req[r].rows
        /\ rec.op = req[r].op /\ rec.pc # "importSync"
    BY <1>p DEF Req
  <2>2. Go(r, rec)
    BY <1>p
  <2> HIDE DEF rec
  <2> QED  BY <2>1, <2>2, <1>m
<1>o. ASSUME NEW r \in Requests, NEW pc, NEW op, pc # "importSync",
             req[r].op \notin {"import", "overwrite"},
             Go(r, [req[r] EXCEPT !.pc = pc, !.op = op])
      PROVE  HeldRows'
  <2> DEFINE rec == [req[r] EXCEPT !.pc = pc, !.op = op]
  <2>1. /\ rec.c = req[r].c /\ rec.row = req[r].row /\ rec.rows = req[r].rows
        /\ rec.pc # "importSync"
    BY <1>o DEF Req
  <2>2. Go(r, rec)
    BY <1>o
  <2> HIDE DEF rec
  <2> QED  BY <2>1, <2>2, <1>m, <1>o
<1>t. ASSUME NEW r \in Requests, NEW pc, NEW todo, pc # "importSync",
             Go(r, [req[r] EXCEPT !.pc = pc, !.todo = todo])
      PROVE  HeldRows'
  <2> DEFINE rec == [req[r] EXCEPT !.pc = pc, !.todo = todo]
  <2>1. /\ rec.c = req[r].c /\ rec.row = req[r].row /\ rec.rows = req[r].rows
        /\ rec.op = req[r].op /\ rec.pc # "importSync"
    BY <1>t DEF Req
  <2>2. Go(r, rec)
    BY <1>t
  <2> HIDE DEF rec
  <2> QED  BY <2>1, <2>2, <1>m
<1>a. ASSUME NEW r \in Requests, AfterSync(r) PROVE HeldRows'
  BY <1>a, <1>o, <1>f DEF AfterSync, Finish
\* A new row for the client held.
<1>r. ASSUME NEW r \in Requests, NEW row, Stored(row),
             Go(r, [req[r] EXCEPT !.pc = "sync", !.row = row])
      PROVE  HeldRows'
  <2> DEFINE rec == [req[r] EXCEPT !.pc = "sync", !.row = row]
  <2>1. /\ rec.c = req[r].c /\ rec.row = row /\ rec.op = req[r].op
        /\ rec.rows = req[r].rows /\ rec.pc # "importSync"
    BY DEF Req
  <2>2. Go(r, rec)
    BY <1>r
  <2> HIDE DEF rec
  <2> QED  BY <2>1, <2>2, <1>r, <1>g
<1>4. ASSUME NEW r \in Requests, Arrive(r) PROVE HeldRows'
  <2>1. ASSUME NEW c \in Clients, Create(r, c) PROVE HeldRows'
    <3>1. PICK p \in Payloads :
            /\ db' = [db EXCEPT ![c] = Created(p, now)]
            /\ Go(r, [IdleReq EXCEPT !.op = "create", !.c = c, !.pc = "sync",
                                     !.row = Created(p, now)])
      BY <2>1 DEF Create
    <3> DEFINE rec == [IdleReq EXCEPT !.op = "create", !.c = c, !.pc = "sync",
                                      !.row = Created(p, now)]
    <3>2. Stored(Created(p, now))
      BY CreatedStored, ControlAssumption
    <3>3. ~Unborn(c)'
      BY <3>1, <3>2 DEF Unborn, Stored, ClientStatus
    <3>4. rec.c = c /\ rec.row = Created(p, now) /\ rec.rows = NoRows /\ rec.pc = "sync"
      BY DEF IdleReq
    <3>5. Go(r, rec)
      BY <3>1
    <3> HIDE DEF rec
    <3> QED  BY <3>2, <3>3, <3>4, <3>5, <1>g
  <2>2. ASSUME NEW op \in Operations, NEW c \in Clients, ReadClient(r, op, c) PROVE HeldRows'
    <3> DEFINE pc == IF op \in {"update", "extend"} THEN "write" ELSE "snap"
               rec == [op |-> op, c |-> c, pc |-> pc, todo |-> {}, rows |-> NoRows,
                       row |-> db[c]]
    <3>1. Go(r, rec) /\ Stored(db[c])
      BY <2>2, <1>n DEF ReadClient, Begin
    <3>2. ~Unborn(c)'
      BY <3>1, <1>l DEF Stored, RowLife, Unborn, ClientStatus
    <3>3. rec.c = c /\ rec.row = db[c] /\ rec.rows = NoRows /\ rec.pc # "importSync"
      OBVIOUS
    <3> HIDE DEF rec
    <3> QED  BY <3>1, <3>2, <3>3, <1>g
  <2>3. ASSUME NEW op \in Operations, ReadClients(r, op) PROVE HeldRows'
    <3> DEFINE pc == IF op = "list" THEN "sweepRead" ELSE "snap"
               rec == [op |-> op, c |-> Nobody, pc |-> pc, todo |-> {}, rows |-> NoRows,
                       row |-> NoRow("UNBORN")]
    <3>1. Go(r, rec)
      BY <2>3 DEF ReadClients, Begin
    <3>2. rec.c \notin Clients /\ rec.rows = NoRows /\ rec.pc # "importSync"
      BY <1>n
    <3> HIDE DEF rec
    <3> QED  BY <3>1, <3>2, <1>g
  <2>4. CASE SyncEndpoint(r)
    BY <2>4, <1>1 DEF SyncEndpoint
  <2> QED  BY <1>4, <2>1, <2>2, <2>3, <2>4 DEF Arrive
<1>5. ASSUME NEW r \in Requests, ReqStep(r) PROVE HeldRows'
  <2>1. CASE JoinSnapshot(r) \/ SkipSnapshot(r) \/ SweepWrite(r)
    BY <2>1, <1>p, <1>f DEF JoinSnapshot, SkipSnapshot, SweepWrite
  <2>2. CASE ClientGone(r) \/ DashboardPrime(r)
    BY <2>2, <1>f DEF ClientGone, DashboardPrime
  <2>3. CASE ExtendNothing(r)
    BY <2>3, <1>o DEF ExtendNothing
  <2>4. CASE ResetWrite(r)
    BY <2>4, <1>p DEF ResetWrite
  <2>5. CASE ClientAdd(r) \/ ClientReAdd(r) \/ ClientDrop(r) \/ ClientSyncFails(r)
    BY <2>5, <1>p, <1>a DEF ClientAdd, ClientReAdd, ClientDrop, ClientSyncFails
  <2>6. CASE SweepRead(r)
    BY <2>6, <1>t DEF SweepRead, AfterSweep
  <2>7. ASSUME NEW c \in Clients, SweepDrop(r, c) PROVE HeldRows'
    <3> DEFINE rec == [req[r] EXCEPT !.todo = @ \ {c}]
    <3>1. /\ rec.c = req[r].c /\ rec.row = req[r].row /\ rec.rows = req[r].rows
          /\ rec.op = req[r].op /\ rec.pc # "importSync"
      BY <2>7 DEF Req, SweepDrop
    <3>2. AfterSweep(r) \/ Go(r, rec)
      BY <2>7 DEF SweepDrop
    <3> HIDE DEF rec
    <3> QED  BY <3>1, <3>2, <1>m, <1>t DEF AfterSweep
  <2>8. CASE UpdateWrite(r)
    <3>1. PICK p \in Payloads : StoreAndSync(r, Updated(req[r].row, db[req[r].c], p, now))
      BY <2>8 DEF UpdateWrite
    <3>2. req[r].row \in Row /\ req[r].c \in Clients
      BY <2>8 DEF UpdateWrite, Writes, ReqNamesClient, Sweeping, Req
    <3>3. Stored(Updated(req[r].row, db[req[r].c], p, now))
      BY <3>2, UpdatedStored, ControlAssumption
    <3> QED  BY <3>1, <3>3, <1>r DEF StoreAndSync
  <2>9. CASE ExtendWrite(r)
    <3>1. PICK d \in ExtendDates \cup ({req[r].row.expiresAt} \ {NoDate}) :
            StoreAndSync(r, [db[req[r].c] EXCEPT !.expiresAt = d, !.status = "ACTIVE"])
      BY <2>9 DEF ExtendWrite
    <3>2. req[r].c \in Clients
      BY <2>9 DEF ExtendWrite, Writes, ReqNamesClient, Sweeping
    <3>3. Stored([db[req[r].c] EXCEPT !.expiresAt = d, !.status = "ACTIVE"])
      BY <3>2 DEF Stored, Row, ClientStatus
    <3> QED  BY <3>1, <3>3, <1>r DEF StoreAndSync
  <2>10. CASE ResetReread(r)
    BY <2>10, <1>r DEF ResetReread
  <2>11. CASE RemoveWrite(r)
    <3> DEFINE rec == [req[r] EXCEPT !.pc = "sync", !.row.status = "DISABLED"]
    <3>1. /\ rec.c = req[r].c /\ rec.row.status = "DISABLED" /\ rec.op = req[r].op
          /\ rec.rows = req[r].rows /\ rec.pc # "importSync"
      BY DEF Req, Row
    <3>2. Go(r, rec)
      BY <2>11 DEF RemoveWrite
    <3>3. Stored(rec.row)
      BY <3>1 DEF Stored, ClientStatus
    <3> HIDE DEF rec
    <3> QED  BY <3>1, <3>2, <3>3, <1>g
  <2> QED  BY <1>5, <2>1, <2>2, <2>3, <2>4, <2>5, <2>6, <2>7, <2>8, <2>9, <2>10, <2>11
           DEF ReqStep
<1>6. CASE Environment
  BY <1>6, <1>1, <1>2 DEF Environment, Tick, XrayStart, XrayStop, Traffic
<1>7. CASE Background
  BY <1>7, <1>1, <1>3 DEF Background, SnapTimer, SnapStep, SnapQuery, SnapQueryFails,
     SnapClients, SnapRecord, SnapRecordFails, SnapQuota, SnapUsage, SnapQuotaBlock,
     SnapQuotaBlockFails, SnapQuotaDrop, SnapAccessBlock, SnapAccessDrop, SnapDropFails,
     SnapEnd, SnapFail, SyncStep, SyncRead, SyncAdd, SyncReAdd, SyncDrop, SyncFails,
     EnsureSample, EnsureDecide, Probe, SummaryFails
<1>8. ASSUME NEW r \in Requests, ImportAct(r) PROVE HeldRows'
  BY <1>8, ImportsHold
<1> QED  BY <1>1, <1>4, <1>5, <1>6, <1>7, <1>8 DEF Next, ImportAct

\* A user enters Xray's table through a synchronisation or a request for it.
LEMMA UsersGain ==
    ASSUME TypeInv, [Next]_vars, NEW c \in Clients, c \in users'
    PROVE  \/ c \in users \/ c \in sync.todo \/ c = sync.cur
           \/ \E r \in Requests : \/ req[r].c = c /\ req[r].pc \in {"sync", "readd"}
                                 \/ ImportHolds(r, c)
<1> USE DEF TypeInv, TypeOK, vars, dbVars, xrayVars, xrayRest, memVars, envVars, taskVars,
        DropUser, UserCallFails, ReplaceUser, ReAddFails
<1>1. CASE UNCHANGED users \/ users' = {}
  BY <1>1
<1>2. CASE Environment
  BY <1>2 DEF Environment, Tick, XrayStart, XrayStop, ApiRestart, Traffic
<1>3. CASE SnapTimer \/ SnapStep
  BY <1>3 DEF SnapTimer, SnapStep, SnapQuery, SnapQueryFails, SnapClients, SnapRecord,
     SnapRecordFails, SnapQuota, SnapUsage, SnapQuotaBlock, SnapQuotaBlockFails, SnapQuotaDrop,
     SnapAccessBlock, SnapAccessDrop, SnapDropFails, SnapEnd, SnapFail
<1>4. CASE SyncStep
  <2>1. CASE SyncRead \/ SyncFails
    BY <2>1 DEF SyncRead, SyncFails
  <2>2. ASSUME NEW d \in Clients, SyncAdd(d) \/ SyncDrop(d)
        PROVE  c \in users \/ c \in sync.todo
    BY <2>2 DEF SyncAdd, SyncDrop, AddUser
  <2>3. CASE SyncReAdd
    BY <2>3 DEF SyncReAdd, AddUser
  <2> QED  BY <1>4, <2>1, <2>2, <2>3 DEF SyncStep
<1>5. CASE EnsureSample \/ EnsureDecide \/ Probe
  BY <1>5 DEF EnsureSample, EnsureDecide, Probe, SummaryFails
<1>6. ASSUME NEW r \in Requests, Arrive(r) PROVE c \in users
  BY <1>6 DEF Arrive, Create, ReadClient, ReadClients, SyncEndpoint
<1>7. ASSUME NEW r \in Requests, ReqStep(r)
      PROVE  c \in users \/ (req[r].c = c /\ req[r].pc \in {"sync", "readd"})
  BY <1>7 DEF ReqStep, JoinSnapshot, SkipSnapshot, UpdateWrite, ExtendWrite, ExtendNothing,
     ResetWrite, ResetReread, RemoveWrite, ClientGone, DashboardPrime, ClientAdd, ClientReAdd,
     ClientDrop, ClientSyncFails, SweepRead, SweepWrite, SweepDrop, AddUser
<1>8. ASSUME NEW r \in Requests, ImportAct(r) PROVE c \in users \/ ImportHolds(r, c)
  <2>1. ASSUME NEW op, Import(r, op) PROVE UNCHANGED users
    BY <2>1 DEF Import
  <2>2. CASE ImportWrite(r) \/ ImportThrows(r)
    BY <2>2 DEF ImportWrite, ImportThrows
  <2>3. ASSUME NEW d \in Clients, ImportFind(r, d) \/ ImportDrop(r, d) \/ ImportSyncFails(r, d)
        PROVE  c \in users
    BY <2>3 DEF ImportFind, ImportDrop, ImportSyncFails
  <2>4. ASSUME NEW d \in Clients, ImportAdd(r, d) PROVE c \in users \/ ImportHolds(r, c)
    <3>1. users' \subseteq users \cup {d} /\ Stored(req[r].rows[d])
      BY <2>4 DEF ImportAdd, Waits, Unapplied, AddUser
    <3> QED  BY <3>1 DEF ImportHolds
  <2>5. ASSUME NEW d \in Clients, ImportReAdd(r, d) PROVE c \in users \/ ImportHolds(r, c)
    <3>1. users' = users \cup {d} /\ req[r].pc = "importSync" /\ d \in req[r].todo
      BY <2>5 DEF ImportReAdd, AddUser
    <3> QED  BY <3>1 DEF ImportHolds
  <2> QED  BY <1>8, <2>1, <2>2, <2>3, <2>4, <2>5 DEF ImportAct, ImportStep
<1> QED  BY <1>1, <1>2, <1>3, <1>4, <1>5, <1>6, <1>7, <1>8 DEF Next, Background, ImportAct

\* A synchronisation works on the rows it found stored.
LEMMA SyncGain ==
    ASSUME TypeInv, [Next]_vars, NEW c \in Clients, c \in sync'.todo \/ c = sync'.cur
    PROVE  c \in sync.todo \/ c = sync.cur \/ Stored(db[c])
<1> USE DEF TypeInv, TypeOK, vars, dbVars, xrayVars, xrayRest, memVars, envVars, taskVars
<1>n. Nobody \notin Clients
  BY ControlAssumption
<1>k. sync' # IdleSync
  BY <1>n DEF IdleSync
<1>d. ASSUME NEW todo \in SUBSET sync.todo, sync' = SyncDone(todo)
      PROVE  c \in sync.todo
  BY <1>d, <1>k, <1>n DEF SyncDone, Sync
<1>1. CASE UNCHANGED sync
  BY <1>1
<1>2. CASE SyncStep
  <2>1. CASE SyncRead
    <3>1. sync' = [sync EXCEPT !.pc = "loop", !.rows = db,
                               !.todo = {d \in Clients : Stored(db[d])}]
      BY <2>1, <1>k DEF SyncRead
    <3> QED  BY <3>1 DEF Sync
  <2>2. ASSUME NEW d \in Clients, SyncAdd(d) \/ SyncDrop(d)
        PROVE  c \in sync.todo
    <3>1. \/ sync' = SyncDone(sync.todo \ {d})
          \/ sync' = [sync EXCEPT !.pc = "readd", !.cur = d] /\ d \in sync.todo
      BY <2>2 DEF SyncAdd, SyncDrop
    <3> QED  BY <3>1, <1>d DEF Sync
  <2>3. CASE SyncReAdd
    <3>1. sync' = SyncDone(sync.todo \ {sync.cur})
      BY <2>3 DEF SyncReAdd
    <3> QED  BY <3>1, <1>d
  <2>4. CASE SyncFails
    BY <2>4, <1>k DEF SyncFails
  <2> QED  BY <1>2, <2>1, <2>2, <2>3, <2>4 DEF SyncStep
<1>3. CASE JoinSync
  BY <1>3 DEF JoinSync, Sync
<1>4. CASE Environment
  BY <1>1, <1>4, <1>k DEF Environment, Tick, XrayStart, XrayStop, ApiRestart, Traffic
<1>5. CASE SnapTimer \/ SnapStep
  BY <1>1, <1>5 DEF SnapTimer, SnapStep, SnapQuery, SnapQueryFails, SnapClients, SnapRecord,
     SnapRecordFails, SnapQuota, SnapUsage, SnapQuotaBlock, SnapQuotaBlockFails, SnapQuotaDrop,
     SnapAccessBlock, SnapAccessDrop, SnapDropFails, SnapEnd
<1>6. CASE EnsureSample \/ EnsureDecide \/ Probe
  BY <1>1, <1>3, <1>6 DEF EnsureSample, EnsureDecide, Probe, SummaryFails
<1>7. ASSUME NEW r \in Requests, Arrive(r)
      PROVE  c \in sync.todo \/ c = sync.cur \/ Stored(db[c])
  BY <1>1, <1>3, <1>7 DEF Arrive, Create, ReadClient, ReadClients, SyncEndpoint
<1>8. ASSUME NEW r \in Requests, ReqStep(r)
      PROVE  c \in sync.todo \/ c = sync.cur \/ Stored(db[c])
  BY <1>1, <1>8 DEF ReqStep, JoinSnapshot, SkipSnapshot, UpdateWrite, ExtendWrite, ExtendNothing,
     ResetWrite, ResetReread, RemoveWrite, ClientGone, DashboardPrime, ClientAdd, ClientReAdd,
     ClientDrop, ClientSyncFails, SweepRead, SweepWrite, SweepDrop
<1>9. ASSUME NEW r \in Requests, ImportAct(r) PROVE UNCHANGED sync
  BY <1>9 DEF ImportAct, ImportStep, Import, ImportFind, ImportWrite, ImportThrows, ImportAdd,
     ImportReAdd, ImportDrop, ImportSyncFails
<1> QED  BY <1>1, <1>2, <1>4, <1>5, <1>6, <1>7, <1>8, <1>9 DEF Next, Background, ImportAct

\* The groups of steps the counting lemmas speak of make up Next.
LEMMA StepGroups ==
    ASSUME [Next]_vars
    PROVE  \/ (\E c \in Clients : Traffic(c)) \/ SnapQuery \/ SnapRecord
           \/ SnapTimer \/ (SnapStep /\ ~SnapQuery /\ ~SnapRecord)
           \/ Tick \/ XrayStart \/ XrayStop \/ ApiRestart
           \/ SyncStep \/ EnsureSample \/ EnsureDecide \/ Probe
           \/ \E r \in Requests : Arrive(r) \/ ReqStep(r) \/ ImportAct(r)
           \/ UNCHANGED vars
  BY DEF Next, Environment, Background, ImportAct

LEMMA StaysTraceless ==
    ASSUME KeptInv, TypeInv', [Next]_vars
    PROVE  Traceless'
<1> USE DEF KeptInv
<1> SUFFICES ASSUME NEW c \in Clients, Unborn(c)'
             PROVE  (/\ c \notin users /\ counters[c] = 0 /\ snap.delta[c] = 0
                     /\ c \notin sync.todo /\ c # sync.cur)'
  BY DEF Traceless
<1>t. TypeOK /\ TypeOK'
  BY DEF TypeInv
<1>1. Unborn(c) /\ ~Stored(db[c])
  BY RowsLive DEF RowLife, Unborn, Stored, ClientStatus
<1>2. /\ c \notin users /\ counters[c] = 0 /\ snap.delta[c] = 0
      /\ c \notin sync.todo /\ c # sync.cur
  BY <1>1 DEF Traceless
<1>3. \A r \in Requests : /\ req[r].c # c \/ req[r].pc \notin {"sync", "readd"}
                          /\ ~ImportHolds(r, c)
  BY <1>1 DEF HeldRows, HoldsRow, TypeInv, ReqNamesClient, Sweeping
<1>4. c \notin users'
  BY <1>2, <1>3, UsersGain
<1>5. c \notin sync'.todo /\ c # sync'.cur
  BY <1>1, <1>2, SyncGain
<1>6. counters'[c] = 0 /\ snap'.delta[c] = 0
  <2>1. counters'[c] \in Nat /\ snap'.delta[c] \in Nat
    BY <1>t DEF TypeOK, Snap
  <2>2. CASE NotRaised(c)
    BY <2>1, <2>2, <1>2 DEF NotRaised
  <2>3. ASSUME NEW d \in Clients, Traffic(d)
        PROVE  counters'[c] = 0 /\ snap'.delta[c] = 0
    <3>1. d # c
      BY <2>3, <1>1, <1>2 DEF Traffic, Connected, Unborn
    <3> QED  BY <2>3, <3>1, <1>2 DEF Traffic
  <2>4. CASE SnapQuery
    BY <2>4, <1>t, <1>2 DEF SnapQuery, Drain, TypeOK, Snap
  <2>5. CASE SnapRecord
    BY <2>5, <1>t, <1>2 DEF SnapRecord, xrayVars, TypeOK, Snap
  <2> QED  BY <2>2, <2>3, <2>4, <2>5, <1>t, StepGroups, CountSnapRest, CountRest
<1> QED  BY <1>4, <1>5, <1>6

LEMMA StaysDrained ==
    ASSUME KeptInv, TypeInv', [Next]_vars
    PROVE  Drained'
<1> USE DEF KeptInv, dbVars, xrayVars, xrayRest, memVars, envVars, taskVars, vars
<1> SUFFICES ASSUME NEW c \in Clients, snap'.delta[c] > 0
             PROVE  /\ snap'.pc \in {"clients", "record"}
                    /\ c \in snap'.tags
                    /\ snap'.pc = "record" /\ Stored(db'[c]) => c \in snap'.seen
  BY DEF Drained
<1>t. snap \in Snap /\ snap.delta[c] \in Nat /\ counters[c] \in Nat
  BY DEF TypeInv, TypeOK, Snap
<1>i. snap' # IdleSnap
  BY DEF IdleSnap
<1>d. snap.delta[c] > 0 =>
        /\ snap.pc \in {"clients", "record"}
        /\ c \in snap.tags
        /\ snap.pc = "record" /\ Stored(db[c]) => c \in snap.seen
  BY DEF Drained
\* The snapshot stays where it is: a client stored meanwhile was never born.
<1>s. ASSUME snap'.delta = snap.delta, snap'.tags = snap.tags, snap'.seen = snap.seen,
             snap'.pc = snap.pc \/ snap.pc = "idle"
      PROVE  /\ snap'.pc \in {"clients", "record"}
             /\ c \in snap'.tags
             /\ snap'.pc = "record" /\ Stored(db'[c]) => c \in snap'.seen
  <2>1. snap.delta[c] > 0
    BY <1>s
  <2>2. Stored(db'[c]) => Stored(db[c])
    <3>1. RowLife(c)
      BY RowsLive
    <3>2. ~Unborn(c)
      BY <2>1 DEF Traceless
    <3> QED  BY <3>1, <3>2 DEF RowLife
  <2> QED  BY <2>1, <2>2, <1>s, <1>d
<1>u. ASSUME UNCHANGED snap
      PROVE  /\ snap'.pc \in {"clients", "record"}
             /\ c \in snap'.tags
             /\ snap'.pc = "record" /\ Stored(db'[c]) => c \in snap'.seen
  BY <1>u, <1>s
<1>1. CASE SnapQuery
  <2>1. PICK online \in SUBSET Connected :
          snap' = [snap EXCEPT !.pc    = "clients",
                               !.delta = counters,
                               !.tags  = online \cup {d \in Clients : counters[d] > 0}]
    BY <1>1 DEF SnapQuery
  <2>2. /\ snap'.pc = "clients" /\ snap'.delta = counters
        /\ snap'.tags = online \cup {d \in Clients : counters[d] > 0}
    BY <2>1, <1>t DEF Snap
  <2> QED  BY <2>2
<1>2. CASE SnapClients
  <2>1. /\ snap'.pc = "record" /\ snap'.delta = snap.delta /\ snap'.tags = snap.tags
        /\ snap'.seen = {d \in snap.tags : Stored(db[d])} /\ db' = db
    BY <1>2, <1>t DEF SnapClients, Found, Snap
  <2> QED  BY <2>1, <1>d
<1>3. CASE SnapRecord
  <2>1. snap'.delta[c] = 0
    BY <1>3, <1>t DEF SnapRecord, Snap
  <2> QED  BY <2>1
<1>4. CASE \/ SnapQueryFails \/ SnapRecordFails \/ SnapDropFails \/ SnapEnd
           \/ \E d \in Clients : SnapQuotaBlockFails(d)
  BY <1>4, <1>i DEF SnapQueryFails, SnapRecordFails, SnapDropFails, SnapEnd, SnapQuotaBlockFails,
     SnapFail
<1>5. CASE snap.pc \notin {"clients", "record"} /\ snap'.delta = snap.delta
  BY <1>5, <1>d
<1>6. CASE SnapQuota \/ SnapUsage
  BY <1>5, <1>6, <1>t DEF SnapQuota, SnapUsage, Snap
<1>7. CASE SnapQuotaDrop \/ SnapAccessDrop \/ SnapTimer
  BY <1>5, <1>7, <1>t DEF SnapQuotaDrop, SnapAccessDrop, SnapTimer, Snap
<1>8. ASSUME NEW d \in Clients, SnapQuotaBlock(d) \/ SnapAccessBlock(d)
      PROVE  snap.pc \notin {"clients", "record"} /\ snap'.delta = snap.delta
  BY <1>8, <1>t DEF SnapQuotaBlock, SnapAccessBlock, Snap
<1>9. CASE SnapStep
  BY <1>1, <1>2, <1>3, <1>4, <1>5, <1>6, <1>7, <1>8, <1>9 DEF SnapStep
<1>10. CASE Environment
  BY <1>10, <1>u, <1>i DEF Environment, Tick, XrayStart, XrayStop, ApiRestart, Traffic
<1>11. CASE SyncStep \/ EnsureSample \/ EnsureDecide \/ Probe
  BY <1>11, <1>u DEF SyncStep, SyncRead, SyncAdd, SyncReAdd, SyncDrop, SyncFails, EnsureSample,
     EnsureDecide, Probe, SummaryFails
<1>12. ASSUME NEW r \in Requests, Arrive(r) PROVE UNCHANGED snap
  BY <1>12 DEF Arrive, Create, ReadClient, ReadClients, SyncEndpoint
<1>13. ASSUME NEW r \in Requests, JoinSnapshot(r)
       PROVE  /\ snap'.delta = snap.delta /\ snap'.tags = snap.tags /\ snap'.seen = snap.seen
              /\ snap'.pc = snap.pc \/ snap.pc = "idle"
  BY <1>13, <1>t DEF JoinSnapshot, Joined, Snap
<1>14. ASSUME NEW r \in Requests, ReqStep(r), ~JoinSnapshot(r) PROVE UNCHANGED snap
  BY <1>14 DEF ReqStep, SkipSnapshot, UpdateWrite, ExtendWrite, ExtendNothing,
     ResetWrite, ResetReread, RemoveWrite, ClientGone, DashboardPrime, ClientAdd, ClientReAdd,
     ClientDrop, ClientSyncFails, SweepRead, SweepWrite, SweepDrop
<1>15. ASSUME NEW r \in Requests, ImportAct(r) PROVE UNCHANGED snap
  BY <1>15 DEF ImportAct, ImportStep, Import, ImportFind, ImportWrite, ImportThrows, ImportAdd,
     ImportReAdd, ImportDrop, ImportSyncFails
<1> QED  BY <1>7, <1>9, <1>10, <1>11, <1>12, <1>13, <1>14, <1>15, <1>s, <1>u
         DEF Next, Background, ImportAct

LEMMA KeptInductive == Spec => []KeptInv
<1>1. Init => KeptInv
  <2> SUFFICES ASSUME Init PROVE KeptInv
    OBVIOUS
  <2>1. Drained /\ Traceless
    <3>1. \A c \in Clients : snap.delta[c] = 0 /\ c \notin users /\ counters[c] = 0
                             /\ c \notin sync.todo /\ c # sync.cur
      BY ControlAssumption DEF Init, IdleSnap, IdleSync
    <3> QED  BY <3>1 DEF Drained, Traceless
  <2>2. HeldRows
    BY ControlAssumption, NoneImported DEF Init, IdleReq, HeldRows, HoldsRow, ImportHolds
  <2> QED  BY <2>1, <2>2, TypeInit DEF KeptInv
<1>2. KeptInv /\ TypeInv' /\ [Next]_vars => KeptInv'
  BY RequestsHold, StaysTraceless, StaysDrained DEF KeptInv
<1> QED  BY <1>1, <1>2, TypeInvCorrect, PTL DEF Spec

\* No successful step loses traffic: in every behaviour, what a stored client
\* sent reaches the usage table unless a fault, a deleted row in its snapshot's
\* transaction or a reset of that very client takes it.
THEOREM NothingLost == Spec => TrafficKept
<1> DEFINE Step == \A c \in Clients :
                     Stored(db[c]) /\ Pending(c)' < Pending(c) => LosesTraffic(c)
<1>1. KeptInv /\ TypeInv' /\ [Next]_vars => [Step]_vars
  <2> SUFFICES ASSUME KeptInv, TypeInv', [Next]_vars, NEW c \in Clients,
                      Stored(db[c]), Pending(c)' < Pending(c)
               PROVE  LosesTraffic(c)
    OBVIOUS
  <2> USE DEF KeptInv
  <2>t. TypeOK /\ TypeOK'
    BY DEF TypeInv
  <2>a. usage[c] \in Nat /\ counters[c] \in Nat /\ sent[c] \in Nat /\ snap.delta[c] \in Nat
    BY <2>t, Amounts
  <2>d. /\ snap.delta[c] > 0 => snap.pc \in {"clients", "record"}
        /\ snap.delta[c] > 0 /\ snap.pc = "record" => c \in snap.seen
    BY DEF Drained
  <2>1. ~Same(c)
    BY <2>a DEF Same, Pending
  <2>2. ASSUME NEW d \in Clients, Traffic(d) PROVE FALSE
    <3>1. usage' = usage /\ snap' = snap
      BY <2>2 DEF Traffic, dbVars
    <3>2. counters'[c] = counters[c] \/ counters'[c] = counters[c] + 1
      BY <2>2, <2>t DEF Traffic, TypeOK
    <3> QED  BY <3>1, <3>2, <2>a DEF Pending
  <2>3. ~SnapQuery
    <3> SUFFICES ASSUME SnapQuery PROVE FALSE
      OBVIOUS
    <3>1. snap'.delta = counters
      BY <2>t DEF SnapQuery, TypeOK, Snap
    <3>2. counters'[c] = 0 /\ usage' = usage /\ snap.delta[c] = 0
      BY <2>d, <2>a DEF SnapQuery, Drain, dbVars
    <3> QED  BY <3>1, <3>2, <2>a DEF Pending
  <2>4. ~SnapRecord
    <3> SUFFICES ASSUME SnapRecord PROVE FALSE
      OBVIOUS
    <3>1. snap'.delta[c] = 0
      BY <2>t DEF SnapRecord, TypeOK, Snap
    <3>2. counters' = counters
      BY DEF SnapRecord, xrayVars
    <3>3. usage'[c] = usage[c] + snap.delta[c]
      BY <2>a, <2>d DEF SnapRecord, Recorded
    <3> QED  BY <3>1, <3>2, <3>3, <2>a DEF Pending
  <2>5. CASE SnapTimer \/ (SnapStep /\ ~SnapQuery /\ ~SnapRecord)
    BY <2>t, <2>1, <2>5, <2>d, CountSnapRest
  <2>6. CASE \/ Tick \/ XrayStart \/ XrayStop \/ ApiRestart
             \/ SyncStep \/ EnsureSample \/ EnsureDecide \/ Probe
             \/ \E r \in Requests : Arrive(r) \/ ReqStep(r) \/ ImportAct(r)
             \/ UNCHANGED vars
    BY <2>t, <2>1, <2>6, CountRest
  <2> QED  BY <2>2, <2>3, <2>4, <2>5, <2>6, StepGroups
<1> QED  BY <1>1, TypeInvCorrect, KeptInductive, PTL DEF Spec, TrafficKept

-------------------------------------------------------------------------------
(***************************************************************************)
(* The refinement: every step is one of the account, or leaves it alone.   *)
(***************************************************************************)
InTransit == [c \in Clients |-> snap.delta[c] + counters[c]]
Dues      == [c \in Clients |-> Due(c)]

\* What takes traffic out of the usage table again, or puts some in.
Clears(r) == ResetWrite(r) \/ RemoveWrite(r) \/ ImportWrite(r)

LEMMA UsageWriters ==
    [Next]_vars => usage' = usage \/ SnapRecord \/ \E r \in Requests : Clears(r)
<1> SUFFICES ASSUME [Next]_vars, usage' # usage, ~SnapRecord
             PROVE  \E r \in Requests : Clears(r)
  OBVIOUS
<1> USE DEF dbVars, vars
<1>1. ~Environment
  BY DEF Environment, Tick, XrayStart, XrayStop, ApiRestart, Traffic
<1>2. ~Background
  BY DEF Background, SnapTimer, SnapStep, SnapQuery, SnapQueryFails, SnapClients,
         SnapRecordFails, SnapQuota, SnapUsage, SnapQuotaBlock, SnapQuotaBlockFails, SnapQuotaDrop,
         SnapAccessBlock, SnapAccessDrop, SnapDropFails, SnapEnd, SyncStep, SyncRead, SyncAdd,
         SyncReAdd, SyncDrop, SyncFails, EnsureSample, EnsureDecide, Probe, SummaryFails
<1>3. ASSUME NEW r \in Requests, Arrive(r) PROVE FALSE
  BY <1>3 DEF Arrive, Create, ReadClient, ReadClients, SyncEndpoint
<1>4. ASSUME NEW r \in Requests, ReqStep(r) PROVE Clears(r)
  BY <1>4 DEF ReqStep, JoinSnapshot, SkipSnapshot, UpdateWrite, ExtendWrite, ExtendNothing,
              ResetReread, ClientGone, DashboardPrime, ClientAdd, ClientReAdd, ClientDrop,
              ClientSyncFails, SweepRead, SweepWrite, SweepDrop, Clears
<1>5. ASSUME NEW r \in Requests, ImportAct(r) PROVE Clears(r)
  BY <1>5 DEF ImportAct, ImportStep, Import, ImportFind, ImportThrows, ImportAdd, ImportReAdd,
              ImportDrop, ImportSyncFails, Clears
<1> QED  BY <1>1, <1>2, <1>3, <1>4, <1>5 DEF Next, ImportAct

\* A step that records nothing more and raises nothing settles.
LEMMA SettledByLess ==
    ASSUME TypeOK, TypeOK', usage' = usage, \A c \in Clients : NotRaised(c)
    PROVE  Ledger!Settle
<1> SUFFICES ASSUME NEW c \in Clients
             PROVE  /\ usage'[c] >= usage[c]
                    /\ usage'[c] + (snap'.delta[c] + counters'[c])
                         <= usage[c] + (snap.delta[c] + counters[c])
                    /\ sent'[c] = sent[c] /\ imported'[c] = imported[c]
  BY DEF Ledger!Settle, Due
<1>1. usage[c] \in Nat /\ counters[c] \in Nat /\ snap.delta[c] \in Nat
  BY Amounts
<1>2. counters'[c] \in Nat /\ snap'.delta[c] \in Nat
  <2>1. snap'.delta \in [Clients -> Nat]
    BY DEF TypeOK, Snap
  <2> QED  BY <2>1 DEF TypeOK
<1> QED  BY <1>1, <1>2 DEF NotRaised

\* The three steps that move traffic, and those that clear some.
LEMMA MovesLikeLedger ==
    ASSUME TypeOK, TypeOK',
           \/ \E c \in Clients : Traffic(c)
           \/ SnapQuery \/ SnapRecord
           \/ \E r \in Requests : Clears(r)
    PROVE  Ledger!LedgerNext \/ UNCHANGED <<usage, InTransit, Dues>>
<1>a. /\ usage \in [Clients -> Nat] /\ counters \in [Clients -> Nat]
      /\ snap.delta \in [Clients -> Nat]
      /\ sent \in [Clients -> Nat] /\ imported \in [Clients -> Nat]
  BY DEF TypeOK, Snap
<1>1. ASSUME NEW d \in Clients, Traffic(d) PROVE Ledger!Send(d)
  <2>1. usage' = usage /\ snap' = snap /\ counters' = [counters EXCEPT ![d] = @ + 1]
    BY <1>1 DEF Traffic, dbVars
  <2>2. [c \in Clients |-> snap'.delta[c] + counters'[c]]
          = [InTransit EXCEPT ![d] = @ + 1]
    <3>1. ASSUME NEW c \in Clients
          PROVE  snap'.delta[c] + counters'[c] = [InTransit EXCEPT ![d] = @ + 1][c]
      <4>1. CASE c = d
        BY <1>a, <2>1, <4>1 DEF InTransit
      <4>2. CASE c # d
        BY <1>a, <2>1, <4>2 DEF InTransit
      <4> QED  BY <4>1, <4>2
    <3>2. [InTransit EXCEPT ![d] = @ + 1] = [c \in Clients |-> [InTransit EXCEPT ![d] = @ + 1][c]]
      BY DEF InTransit
    <3> QED  BY <3>1, <3>2, Zenon
  <2>3. [c \in Clients |-> sent'[c] + imported'[c]] = [Dues EXCEPT ![d] = @ + 1]
    <3>1. ASSUME NEW c \in Clients
          PROVE  sent'[c] + imported'[c] = [Dues EXCEPT ![d] = @ + 1][c]
      <4>0. sent' = [sent EXCEPT ![d] = @ + 1] /\ imported' = imported
        BY <1>1 DEF Traffic
      <4>1. CASE c = d
        BY <1>a, <4>0, <4>1 DEF Dues, Due
      <4>2. CASE c # d
        BY <1>a, <4>0, <4>2 DEF Dues, Due
      <4> QED  BY <4>1, <4>2
    <3>2. [Dues EXCEPT ![d] = @ + 1] = [c \in Clients |-> [Dues EXCEPT ![d] = @ + 1][c]]
      BY DEF Dues
    <3> QED  BY <3>1, <3>2, Zenon
  <2> QED  BY <2>1, <2>2, <2>3 DEF Ledger!Send, InTransit, Dues, Due
<1>2. CASE SnapQuery
  <2>1. snap'.delta = counters /\ usage' = usage
    BY <1>2 DEF SnapQuery, TypeOK, Snap, dbVars
  <2>2. \A c \in Clients : counters'[c] = 0
    BY <1>2 DEF SnapQuery, Drain
  <2>3. ASSUME NEW c \in Clients
        PROVE  /\ usage'[c] >= usage[c]
               /\ usage'[c] + (snap'.delta[c] + counters'[c])
                    <= usage[c] + (snap.delta[c] + counters[c])
    BY <1>a, <2>1, <2>2
  <2>4. UNCHANGED <<sent, imported>>
    BY <1>2 DEF SnapQuery, envVars
  <2> QED  BY <2>3, <2>4 DEF Ledger!Settle, Ledger!LedgerNext, Due
<1>3. CASE SnapRecord
  <2>1. \A c \in Clients : snap'.delta[c] = 0
    BY <1>3 DEF SnapRecord, TypeOK, Snap
  <2>2. counters' = counters
    BY <1>3 DEF SnapRecord, xrayVars
  <2>3. ASSUME NEW c \in Clients
        PROVE  /\ usage'[c] >= usage[c]
               /\ usage'[c] + (snap'.delta[c] + counters'[c])
                    <= usage[c] + (snap.delta[c] + counters[c])
    <3>1. usage'[c] = usage[c] + snap.delta[c] \/ usage'[c] = usage[c]
      BY <1>3 DEF SnapRecord, Recorded
    <3> QED  BY <1>a, <2>1, <2>2, <3>1
  <2>4. UNCHANGED <<sent, imported>>
    BY <1>3 DEF SnapRecord, envVars
  <2> QED  BY <2>3, <2>4 DEF Ledger!Settle, Ledger!LedgerNext, Due
<1>4. ASSUME NEW r \in Requests, ResetWrite(r) \/ RemoveWrite(r)
      PROVE  Ledger!LedgerNext \/ UNCHANGED <<usage, InTransit, Dues>>
  <2>1. UNCHANGED <<counters, snap, sent, imported>>
    BY <1>4 DEF ResetWrite, RemoveWrite, xrayVars, taskVars, envVars
  <2>2. UNCHANGED <<InTransit, Dues>>
    BY <2>1 DEF InTransit, Dues, Due
  <2>3. CASE req[r].c \in Clients
    <3>1. \E n \in 0..usage[req[r].c] : usage' = [usage EXCEPT ![req[r].c] = n]
      <4>1. 0 \in 0..usage[req[r].c]
        BY <1>a, <2>3
      <4> QED  BY <1>4, <4>1 DEF ResetWrite, RemoveWrite
    <3>2. Ledger!Clear(req[r].c)
      BY <2>2, <3>1 DEF Ledger!Clear, InTransit, Dues
    <3> QED  BY <2>3, <3>2 DEF Ledger!LedgerNext
  <2>4. CASE req[r].c \notin Clients
    <3>1. usage' = [usage EXCEPT ![req[r].c] = 0]
      BY <1>4 DEF ResetWrite, RemoveWrite
    <3>2. usage' = usage
      BY <1>a, <2>4, <3>1
    <3> QED  BY <2>2, <3>2
  <2> QED  BY <2>3, <2>4
<1>5. ASSUME NEW r \in Requests, ImportWrite(r)
      PROVE  Ledger!LedgerNext \/ UNCHANGED <<usage, InTransit, Dues>>
  <2>c. PICK d : d = req[r].c
    OBVIOUS
  <2>0. PICK used \in 0..MaxTraffic :
          /\ usage' = [usage EXCEPT ![d] = used]
          /\ imported' = [imported EXCEPT ![d] = @ + Surplus(d, used)]
    BY <1>5, <2>c DEF ImportWrite
  <2>u. used \in Nat
    BY <2>0, ControlAssumption
  <2>1. UNCHANGED <<counters, snap, sent>>
    BY <1>5 DEF ImportWrite, xrayVars, taskVars
  <2>2. UNCHANGED InTransit
    BY <2>1 DEF InTransit
  <2>3. CASE d \notin Clients
    <3>1. usage' = usage /\ imported' = imported
      BY <1>a, <2>0, <2>3
    <3>2. UNCHANGED Dues
      BY <2>1, <3>1 DEF Dues, Due
    <3> QED  BY <2>2, <3>1, <3>2
  <2>4. CASE d \in Clients /\ used <= usage[d]
    <3>1. imported' = imported
      <4>1. Surplus(d, used) = 0
        BY <1>a, <2>4, <2>u DEF Surplus
      <4> QED  BY <1>a, <2>0, <2>4, <4>1
    <3>2. UNCHANGED Dues
      BY <2>1, <3>1 DEF Dues, Due
    <3>3. used \in 0..usage[d]
      BY <1>a, <2>4, <2>u
    <3>4. Ledger!Clear(d)
      BY <2>0, <2>2, <3>2, <3>3 DEF Ledger!Clear, InTransit, Dues
    <3> QED  BY <2>4, <3>4 DEF Ledger!LedgerNext
  <2>5. CASE d \in Clients /\ ~(used <= usage[d])
    <3> DEFINE n == usage'[d] - usage[d]
    <3>1. usage'[d] = used /\ n > 0 /\ n \in Nat /\ Surplus(d, used) = n
      BY <1>a, <2>0, <2>5, <2>u DEF Surplus
    <3>2. usage' = [usage EXCEPT ![d] = @ + n]
      <4>1. used = usage[d] + n
        BY <1>a, <2>5, <2>u, <3>1
      <4> HIDE DEF n
      <4> QED  BY <2>0, <4>1
    <3> HIDE DEF n
    <3>3. [c \in Clients |-> sent'[c] + imported'[c]] = [Dues EXCEPT ![d] = @ + n]
      <4>1. ASSUME NEW c \in Clients
            PROVE  sent'[c] + imported'[c] = [Dues EXCEPT ![d] = @ + n][c]
        <5>1. CASE c = d
          BY <1>a, <2>0, <2>1, <3>1, <5>1 DEF Dues, Due
        <5>2. CASE c # d
          BY <1>a, <2>0, <2>1, <5>2 DEF Dues, Due
        <5> QED  BY <5>1, <5>2
      <4>2. [Dues EXCEPT ![d] = @ + n] = [c \in Clients |-> [Dues EXCEPT ![d] = @ + n][c]]
        BY DEF Dues
      <4> QED  BY <4>1, <4>2, Zenon
    <3>4. Ledger!Credit(d)
      BY <2>2, <3>1, <3>2, <3>3 DEF Ledger!Credit, InTransit, Dues, Due, n
    <3> QED  BY <2>5, <3>4 DEF Ledger!LedgerNext
  <2> QED  BY <2>3, <2>4, <2>5
<1> QED  BY <1>1, <1>2, <1>3, <1>4, <1>5 DEF Ledger!LedgerNext, Clears

\* Usage table, snapshots and counters implement the account of TrafficLedger,
\* for any clients and requests: recorded traffic grows only by what ceases to
\* be pending or by what an import credits, and is cleared or credited for one
\* client at a time.
THEOREM LedgerImplemented == Spec => AccountsLikeLedger
<1>1. Init => Ledger!LedgerInit
  BY DEF Init, IdleSnap, Ledger!LedgerInit, Due
<1>2. TypeInv /\ TypeInv' /\ [Next]_vars => [Ledger!LedgerNext]_(Ledger!ledger)
  <2> SUFFICES ASSUME TypeOK, TypeOK', [Next]_vars
               PROVE  Ledger!LedgerNext \/ UNCHANGED <<usage, InTransit, Dues>>
    BY DEF TypeInv, Ledger!ledger, InTransit, Dues
  <2>1. CASE \/ (\E c \in Clients : Traffic(c)) \/ SnapQuery \/ SnapRecord
             \/ \E r \in Requests : Clears(r)
    BY <2>1, MovesLikeLedger
  <2>2. CASE ~ \/ (\E c \in Clients : Traffic(c)) \/ SnapQuery \/ SnapRecord
               \/ \E r \in Requests : Clears(r)
    <3>1. usage' = usage
      BY <2>2, UsageWriters
    <3>2. \A c \in Clients : NotRaised(c)
      <4>1. CASE SnapTimer \/ (SnapStep /\ ~SnapQuery /\ ~SnapRecord)
        BY <4>1, CountSnapRest
      <4>2. CASE \/ Tick \/ XrayStart \/ XrayStop \/ ApiRestart
                 \/ SyncStep \/ EnsureSample \/ EnsureDecide \/ Probe
                 \/ \E r \in Requests : Arrive(r) \/ ReqStep(r) \/ ImportAct(r)
                 \/ UNCHANGED vars
        BY <4>2, CountRest
      <4> QED  BY <2>2, <4>1, <4>2, StepGroups
    <3> QED  BY <3>1, <3>2, SettledByLess DEF Ledger!LedgerNext
  <2> QED  BY <2>1, <2>2
<1> QED  BY <1>1, <1>2, TypeInvCorrect, PTL DEF Spec, AccountsLikeLedger, Ledger!LedgerSpec
===============================================================================
