--------------------------- MODULE EnforcementProofs ---------------------------
(***************************************************************************)
(* Quotas, synchronisation and drift, for any clients, requests, payloads, *)
(* faults and bounds: what a snapshot or a full synchronisation that       *)
(* succeeds has done for the clients nobody else changed meanwhile, and    *)
(* why the table and Xray may differ on a client no task is working on.    *)
(***************************************************************************)
EXTENDS ControlHistory, TrafficProofs

-------------------------------------------------------------------------------
(* The snapshot.                                                           *)

AtItsLimit(c) == Stored(db[c]) /\ OverQuota(db[c], usage[c])
CutOff(c) == db[c].status = "BLOCKED" /\ c \notin users

\* The limits a snapshot has read are still those of the clients nobody else
\* changed; later on, such a client at its limit is among those still to block,
\* or blocked and out of Xray.
QuotaForm ==
    /\ snap.pc = "usage" => \A c \in snap.tags \ snapTouched :
          Stored(db[c]) /\ ~db[c].unlimited => snap.quota[c] = db[c].limit
    /\ snap.pc \in {"quotaLoop", "quotaDrop", "access", "accessDrop"} =>
          \A c \in snap.tags \ snapTouched : AtItsLimit(c) => c \in snap.over \/ CutOff(c)
    /\ snap.pc = "quotaDrop" =>
          /\ snap.cur \in snap.over
          /\ snap.cur \in snapTouched \/ db[snap.cur].status = "BLOCKED"
    /\ snap.pc \notin {"quotaLoop", "quotaDrop"} => snap.over = {}

\* Who writes the record of the snapshot.
LEMMA SnapWriters ==
    [Next]_vars => \/ UNCHANGED snap \/ SnapTimer \/ SnapStep \/ ApiRestart
                   \/ \E r \in Requests : JoinSnapshot(r)
<1> SUFFICES ASSUME [Next]_vars, snap' # snap, ~SnapTimer, ~SnapStep, ~ApiRestart
             PROVE  \E r \in Requests : JoinSnapshot(r)
  OBVIOUS
<1> USE DEF taskVars, vars
<1>1. ~Environment
  BY DEF Environment, Tick, XrayStart, XrayStop, Traffic
<1>2. ~Background
  BY DEF Background, SyncStep, SyncRead, SyncAdd, SyncReAdd, SyncDrop, SyncFails,
         EnsureSample, EnsureDecide, Probe, SummaryFails
<1>3. ASSUME NEW r \in Requests, Arrive(r) PROVE FALSE
  BY <1>3 DEF Arrive, Create, ReadClient, ReadClients, SyncEndpoint
<1>4. ASSUME NEW r \in Requests, ReqStep(r) PROVE JoinSnapshot(r)
  BY <1>4 DEF ReqStep, SkipSnapshot, UpdateWrite, ExtendWrite, ExtendNothing, ResetWrite,
              ResetReread, RemoveWrite, ClientGone, DashboardPrime, ClientAdd, ClientReAdd,
              ClientDrop, ClientSyncFails, SweepRead, SweepWrite, SweepDrop
<1>5. ASSUME NEW r \in Requests, ImportAct(r) PROVE FALSE
  BY <1>5 DEF ImportAct, ImportStep, Import, ImportFind, ImportWrite, ImportThrows, ImportAdd,
              ImportReAdd, ImportDrop, ImportSyncFails
<1> QED  BY <1>1, <1>2, <1>3, <1>4, <1>5 DEF Next, ImportAct

\* What a step of the snapshot leaves of a client that is not its own.
LEMMA QuotaKept ==
    ASSUME TypeOK, QuotaForm, UNCHANGED snap, TrackHistory
    PROVE  QuotaForm'
<1>1. ASSUME NEW c \in Clients, c \notin snapTouched',
             snap.pc \in {"usage", "quotaLoop", "quotaDrop", "access", "accessDrop"}
      PROVE  /\ c \notin snapTouched /\ db'[c] = db[c] /\ usage'[c] = usage[c]
             /\ c \in users' <=> c \in users
  BY <1>1 DEF TrackHistory, Changed
<1>2. snap.tags \subseteq Clients
  BY DEF TypeOK, Snap
<1>3. snap.pc = "usage" => (\A c \in snap.tags \ snapTouched :
          Stored(db[c]) /\ ~db[c].unlimited => snap.quota[c] = db[c].limit)'
  BY <1>1, <1>2 DEF QuotaForm
<1>4. snap.pc \in {"quotaLoop", "quotaDrop", "access", "accessDrop"} =>
          (\A c \in snap.tags \ snapTouched : AtItsLimit(c) => c \in snap.over \/ CutOff(c))'
  BY <1>1, <1>2 DEF QuotaForm, AtItsLimit, CutOff
<1>5. snap.over \subseteq Clients
  BY DEF TypeOK, Snap
<1> QED  BY <1>1, <1>3, <1>4, <1>5 DEF QuotaForm

\* A step of the snapshot itself adds no client to those others changed.
LEMMA QuotaSteps ==
    ASSUME TypeOK, QuotaForm, SnapStep, TrackHistory
    PROVE  QuotaForm'
<1>0. /\ snap \in Snap /\ db \in [Clients -> Row] /\ usage \in [Clients -> Nat]
      /\ snap.tags \subseteq Clients /\ snap.over \subseteq Clients
  BY DEF TypeOK, Snap
<1> USE DEF dbVars, xrayVars, xrayRest, envVars, memVars
<1>1. ASSUME snap'.pc \in {"idle", "query", "clients", "record", "quota"}, snap'.over = {}
      PROVE  QuotaForm'
  BY <1>1 DEF QuotaForm
<1>2. ASSUME snap'.pc \in {"usage", "quotaLoop", "quotaDrop", "access", "accessDrop"}, snap' # snap,
             NEW c \in Clients, c \notin snapTouched'
      PROVE  c \notin snapTouched
  BY <1>2 DEF TrackHistory
<1>3. CASE SnapQuery \/ SnapClients
  BY <1>0, <1>1, <1>3 DEF SnapQuery, SnapClients, Snap, QuotaForm
<1>4. CASE SnapQueryFails \/ SnapRecordFails \/ SnapDropFails \/ SnapEnd
           \/ \E c \in Clients : SnapQuotaBlockFails(c)
  BY <1>1, <1>4 DEF SnapQueryFails, SnapRecordFails, SnapDropFails, SnapEnd, SnapQuotaBlockFails,
     SnapFail, IdleSnap
<1>5. CASE SnapRecord
  <2>1. snap'.over = {} /\ snap'.tags = snap.tags
        /\ snap'.pc = IF snap.tags = {} THEN "access" ELSE "quota"
    BY <1>0, <1>5 DEF SnapRecord, Snap, QuotaForm
  <2> QED  BY <1>1, <2>1 DEF QuotaForm
<1>6. CASE SnapQuota
  <2> DEFINE limits == [c \in Clients |-> IF c \in snap.tags /\ Stored(db[c]) /\ ~db[c].unlimited
                                          THEN db[c].limit ELSE NoLimit]
  <2>1. /\ snap'.over = {} /\ snap'.tags = snap.tags /\ snap'.quota = limits
        /\ snap'.pc = IF \E c \in Clients : limits[c] # NoLimit THEN "usage" ELSE "access"
        /\ UNCHANGED <<db, usage, users>>
    BY <1>0, <1>6 DEF SnapQuota, Snap, QuotaForm
  <2>2. \A c \in snap.tags : Stored(db[c]) /\ ~db[c].unlimited => limits[c] = db[c].limit
    BY <1>0
  <2>3. (\A c \in Clients : limits[c] = NoLimit) => \A c \in snap.tags : ~AtItsLimit(c)
    BY <1>0, <2>2 DEF AtItsLimit, OverQuota
  <2> HIDE DEF limits
  <2> QED  BY <2>1, <2>2, <2>3 DEF QuotaForm, AtItsLimit, CutOff
<1>7. CASE SnapUsage
  <2>1. /\ snap'.over = QuotaSpent /\ snap'.tags = snap.tags /\ snap.pc = "usage"
        /\ snap'.pc = IF QuotaSpent = {} THEN "access" ELSE "quotaLoop"
        /\ UNCHANGED <<db, usage, users>> /\ snap' # snap
    BY <1>0, <1>7 DEF SnapUsage, Snap, AfterQuota
  <2>2. ASSUME NEW c \in snap.tags \ snapTouched, AtItsLimit(c) PROVE c \in QuotaSpent
    BY <1>0, <2>1, <2>2 DEF QuotaForm, AtItsLimit, OverQuota, QuotaSpent
  <2> QED  BY <1>0, <1>2, <2>1, <2>2 DEF QuotaForm, AtItsLimit, CutOff
<1>8. ASSUME NEW d \in Clients, SnapQuotaBlock(d) PROVE QuotaForm'
  <2>1. /\ snap'.over = snap.over /\ snap'.tags = snap.tags /\ snap.pc = "quotaLoop"
        /\ snap'.pc = "quotaDrop" /\ snap'.cur = d /\ d \in snap.over
        /\ UNCHANGED <<usage, users>> /\ snap' # snap
    BY <1>0, <1>8 DEF SnapQuotaBlock, Snap
  <2>2. /\ db'[d].status = "BLOCKED"
        /\ \A c \in Clients \ {d} : db'[c] = db[c]
    BY <1>0, <1>8 DEF SnapQuotaBlock, Row
  <2> QED  BY <1>0, <1>2, <2>1, <2>2 DEF QuotaForm, AtItsLimit, CutOff
<1>9. CASE SnapQuotaDrop
  <2> DEFINE d == snap.cur
             left == snap.over \ {d}
  <2>1. /\ snap.pc = "quotaDrop" /\ users' = users \ {d} /\ UNCHANGED <<db, usage>>
        /\ snap' = [snap EXCEPT !.pc = AfterQuota(left), !.over = left, !.cur = Nobody]
    BY <1>9 DEF SnapQuotaDrop, DropUser
  <2>2. snap'.pc = AfterQuota(left) /\ snap'.over = left /\ snap'.tags = snap.tags
    BY <1>0, <2>1 DEF Snap
  <2>3. snap'.pc \in {"access", "quotaLoop"} /\ (snap'.pc = "access" => left = {})
    BY <2>2 DEF AfterQuota
  <2>6. snap' # snap
    BY <2>1, <2>3, Zenon
  <2>4. d \in snapTouched \/ db[d].status = "BLOCKED"
    BY <2>1 DEF QuotaForm
  <2>5. ASSUME NEW c \in snap.tags \ snapTouched, AtItsLimit(c)' PROVE c \in left \/ CutOff(c)'
    <3>1. AtItsLimit(c)
      BY <2>1, <2>5 DEF AtItsLimit
    <3>2. c \in snap.over \/ CutOff(c)
      BY <2>1, <3>1 DEF QuotaForm
    <3>3. CASE c = d
      BY <2>1, <2>4, <2>5, <3>3 DEF CutOff
    <3>4. CASE c # d
      BY <2>1, <3>2, <3>4 DEF CutOff
    <3> QED  BY <3>3, <3>4
  <2> HIDE DEF left
  <2> QED  BY <1>0, <1>2, <2>2, <2>3, <2>5, <2>6 DEF QuotaForm
<1>10. ASSUME NEW d \in Clients, SnapAccessBlock(d) PROVE QuotaForm'
  <2>1. /\ snap'.over = snap.over /\ snap'.tags = snap.tags /\ snap.pc = "access"
        /\ snap'.pc = "accessDrop" /\ UNCHANGED <<usage, users>> /\ snap' # snap
    BY <1>0, <1>10 DEF SnapAccessBlock, Snap
  <2>2. \A c \in Clients : db'[c] = db[c] \/ (db[c].status = "ACTIVE" /\ db'[c] = [db[c] EXCEPT !.status = "BLOCKED"])
    BY <1>0, <1>10 DEF SnapAccessBlock
  <2>3. \A c \in Clients : db[c] \in Row
    BY <1>0
  <2>4. ASSUME NEW c \in snap.tags \ snapTouched, AtItsLimit(c)' PROVE CutOff(c)'
    <3>1. CASE db'[c] = db[c]
      BY <2>1, <2>4, <3>1 DEF QuotaForm, AtItsLimit, CutOff
    <3>2. CASE db[c].status = "ACTIVE" /\ db'[c] = [db[c] EXCEPT !.status = "BLOCKED"]
      <4>1. /\ db'[c].limit = db[c].limit /\ db'[c].unlimited = db[c].unlimited
            /\ db[c].status \in ClientStatus /\ db[c].status # "BLOCKED"
        BY <1>0, <2>3, <3>2 DEF Row, ClientStatus
      <4>2. AtItsLimit(c) /\ ~CutOff(c)
        BY <2>1, <2>4, <4>1 DEF AtItsLimit, OverQuota, Stored, CutOff
      <4> QED  BY <2>1, <4>2 DEF QuotaForm
    <3> QED  BY <1>0, <2>2, <3>1, <3>2
  <2> QED  BY <1>0, <1>2, <2>1, <2>4 DEF QuotaForm
<1>11. CASE SnapAccessDrop
  <2>1. /\ snap'.over = snap.over /\ snap'.tags = snap.tags /\ snap.pc = "accessDrop"
        /\ snap'.pc = "access" /\ users' \subseteq users /\ UNCHANGED <<db, usage>> /\ snap' # snap
    BY <1>0, <1>11 DEF SnapAccessDrop, Snap, DropUser
  <2> QED  BY <1>0, <1>2, <2>1 DEF QuotaForm, AtItsLimit, CutOff
<1> QED  BY <1>3, <1>4, <1>5, <1>6, <1>7, <1>8, <1>9, <1>10, <1>11 DEF SnapStep

LEMMA QuotaRest ==
    ASSUME TypeOK, QuotaForm, TrackHistory,
           SnapTimer \/ ApiRestart \/ \E r \in Requests : JoinSnapshot(r)
    PROVE  QuotaForm'
<1>0. snap \in Snap /\ snap.tags \subseteq Clients
  BY DEF TypeOK, Snap
<1>1. CASE SnapTimer \/ ApiRestart
  BY <1>0, <1>1 DEF SnapTimer, ApiRestart, IdleSnap, QuotaForm, Snap
<1>2. ASSUME NEW r \in Requests, JoinSnapshot(r) PROVE QuotaForm'
  <2>1. CASE snap' = snap
    BY <2>1, QuotaKept
  <2>2. CASE snap' # snap
    <3>1. /\ UNCHANGED <<db, usage, users>>
          /\ snap' = [snap EXCEPT !.pc = IF @ = "idle" THEN "query" ELSE @, !.waiters = Joined(r)]
      BY <1>2 DEF JoinSnapshot, dbVars, xrayVars
    <3>2. /\ snap'.tags = snap.tags /\ snap'.over = snap.over /\ snap'.quota = snap.quota
          /\ snap'.cur = snap.cur /\ snap'.pc \in {snap.pc, "query"}
          /\ snap'.pc = "query" => snap.pc \in {"idle", "query"}
      BY <1>0, <3>1 DEF Snap
    <3>3. ASSUME NEW c \in Clients, c \notin snapTouched',
                 snap.pc \in {"usage", "quotaLoop", "quotaDrop", "access", "accessDrop"}
          PROVE  c \notin snapTouched
      BY <2>2, <3>2, <3>3 DEF TrackHistory
    <3>4. snap.over \subseteq Clients
      BY DEF TypeOK, Snap
    <3> QED  BY <1>0, <3>1, <3>2, <3>3, <3>4 DEF QuotaForm, AtItsLimit, CutOff
  <2> QED  BY <2>1, <2>2
<1> QED  BY <1>1, <1>2

LEMMA HistoryRefines == HistorySpec => Spec
<1>1. HistoryInit => Init
  BY DEF HistoryInit
<1>2. [HistoryNext]_historyVars => [Next]_vars
  BY DEF HistoryNext, historyVars
<1> QED  BY <1>1, <1>2, PTL DEF HistorySpec, Spec

LEMMA QuotaAlways == HistorySpec => []QuotaForm
<1>1. HistoryInit => QuotaForm
  BY DEF HistoryInit, Init, IdleSnap, QuotaForm
<1>2. TypeInv /\ QuotaForm /\ [HistoryNext]_historyVars => QuotaForm'
  <2>1. ASSUME TypeInv, QuotaForm, HistoryNext PROVE QuotaForm'
    <3>1. TypeOK /\ [Next]_vars /\ TrackHistory
      BY <2>1 DEF TypeInv, HistoryNext
    <3> QED  BY <2>1, <3>1, SnapWriters, QuotaKept, QuotaSteps, QuotaRest
  <2>2. ASSUME QuotaForm, UNCHANGED historyVars PROVE QuotaForm'
    BY <2>2 DEF historyVars, vars, dbVars, xrayVars, QuotaForm, AtItsLimit, CutOff
  <2> QED  BY <2>1, <2>2
<1> QED  BY <1>1, <1>2, HistoryRefines, TypeInvCorrect, PTL DEF HistorySpec

\* A snapshot that succeeds has cut off every client of its tags that reached its
\* limit and that nobody else changed since the limits were read (QuotaEnforced).
THEOREM QuotasEnforced == HistorySpec => QuotaEnforced
<1> DEFINE Enforced == SnapEnd => \A c \in snap.tags \ snapTouched :
             Stored(db[c]) /\ OverQuota(db[c], usage[c]) =>
                db[c].status = "BLOCKED" /\ c \notin users
<1>1. QuotaForm => Enforced
  BY DEF SnapEnd, QuotaForm, AtItsLimit, CutOff
<1>2. QuotaForm /\ [HistoryNext]_historyVars => [Enforced]_historyVars
  BY <1>1
<1> QED  BY <1>2, QuotaAlways, PTL DEF HistorySpec, QuotaEnforced

-------------------------------------------------------------------------------
(* The full synchronisation.                                               *)

\* A pass has what is stored of every client nobody else changed, and has
\* brought it in step or has still to visit it; in between it re-adds a user
\* that may be served.
SyncForm == sync.pc \in {"loop", "readd"} =>
    /\ \A c \in Clients \ syncTouched :
          /\ Stored(db[c]) => sync.rows[c] = db[c] /\ (c \in sync.todo \/ InStep(c))
          /\ c \in sync.todo => Stored(db[c])
    /\ sync.pc = "readd" =>
          sync.cur \in sync.todo /\ (sync.cur \in syncTouched \/ Servable(sync.rows[sync.cur], now))

\* As time passes a client is only ever served less.
LEMMA Lapses ==
    ASSUME TypeOK, TypeOK', now <= now', NEW c \in Clients, db'[c] = db[c], ~Expires(c)
    PROVE  Servable(db[c], now) <=> Servable(db'[c], now')
<1>1. db[c] \in Row /\ now \in Nat /\ now' \in Nat
  BY DEF TypeOK
<1>2. IsExpired(db[c], now) <=> IsExpired(db[c], now')
  BY <1>1 DEF IsExpired, Expires, Row, Date
<1> QED  BY <1>2 DEF Servable, EffectiveStatus

LEMMA TimePasses == TypeOK /\ [Next]_vars => now' = now \/ (Tick /\ now' = now + 1)
<1> SUFFICES ASSUME TypeOK, [Next]_vars, now' # now PROVE Tick
  BY DEF Tick
<1> USE DEF envVars, vars
<1>1. Environment => Tick
  BY DEF Environment, XrayStart, XrayStop, ApiRestart, Traffic
<1>2. ~Background
  BY DEF Background, SnapTimer, SnapStep, SnapQuery, SnapQueryFails, SnapClients, SnapRecord,
         SnapRecordFails, SnapQuota, SnapUsage, SnapQuotaBlock, SnapQuotaBlockFails, SnapQuotaDrop,
         SnapAccessBlock, SnapAccessDrop, SnapDropFails, SnapEnd, SyncStep, SyncRead, SyncAdd,
         SyncReAdd, SyncDrop, SyncFails, EnsureSample, EnsureDecide, Probe, SummaryFails
<1>3. ASSUME NEW r \in Requests, Arrive(r) PROVE FALSE
  BY <1>3 DEF Arrive, Create, ReadClient, ReadClients, SyncEndpoint
<1>4. ASSUME NEW r \in Requests, ReqStep(r) PROVE FALSE
  BY <1>4 DEF ReqStep, JoinSnapshot, SkipSnapshot, UpdateWrite, ExtendWrite, ExtendNothing,
              ResetWrite, ResetReread, RemoveWrite, ClientGone, DashboardPrime, ClientAdd,
              ClientReAdd, ClientDrop, ClientSyncFails, SweepRead, SweepWrite, SweepDrop
<1>5. ASSUME NEW r \in Requests, ImportAct(r) PROVE FALSE
  BY <1>5 DEF ImportAct, ImportStep, Import, ImportFind, ImportWrite, ImportThrows, ImportAdd,
              ImportReAdd, ImportDrop, ImportSyncFails
<1> QED  BY <1>1, <1>2, <1>3, <1>4, <1>5 DEF Next, ImportAct

\* Who writes the record of the synchronisation.
LEMMA SyncWriters ==
    [Next]_vars => \/ UNCHANGED sync \/ SyncStep \/ ApiRestart
                   \/ sync.pc = "idle" /\ sync' = [sync EXCEPT !.pc = "read"]
<1> SUFFICES ASSUME [Next]_vars, sync' # sync, ~SyncStep, ~ApiRestart
             PROVE  sync.pc = "idle" /\ sync' = [sync EXCEPT !.pc = "read"]
  OBVIOUS
<1> USE DEF taskVars, vars
<1>1. ~Environment
  BY DEF Environment, Tick, XrayStart, XrayStop, Traffic
<1>2. Background => JoinSync
  BY DEF Background, SnapTimer, SnapStep, SnapQuery, SnapQueryFails, SnapClients, SnapRecord,
         SnapRecordFails, SnapQuota, SnapUsage, SnapQuotaBlock, SnapQuotaBlockFails, SnapQuotaDrop,
         SnapAccessBlock, SnapAccessDrop, SnapDropFails, SnapEnd, EnsureSample, EnsureDecide,
         Probe, SummaryFails
<1>3. ASSUME NEW r \in Requests, Arrive(r) PROVE JoinSync
  BY <1>3 DEF Arrive, Create, ReadClient, ReadClients, SyncEndpoint
<1>4. ASSUME NEW r \in Requests, ReqStep(r) PROVE FALSE
  BY <1>4 DEF ReqStep, JoinSnapshot, SkipSnapshot, UpdateWrite, ExtendWrite, ExtendNothing,
              ResetWrite, ResetReread, RemoveWrite, ClientGone, DashboardPrime, ClientAdd,
              ClientReAdd, ClientDrop, ClientSyncFails, SweepRead, SweepWrite, SweepDrop
<1>5. ASSUME NEW r \in Requests, ImportAct(r) PROVE FALSE
  BY <1>5 DEF ImportAct, ImportStep, Import, ImportFind, ImportWrite, ImportThrows, ImportAdd,
              ImportReAdd, ImportDrop, ImportSyncFails
<1>6. JoinSync => sync.pc = "idle" /\ sync' = [sync EXCEPT !.pc = "read"]
  BY DEF JoinSync
<1> QED  BY <1>1, <1>2, <1>3, <1>4, <1>5, <1>6 DEF Next, ImportAct

LEMMA SyncKept ==
    ASSUME TypeOK, TypeOK', SyncForm, UNCHANGED sync, TrackHistory,
           now' = now \/ now' = now + 1
    PROVE  SyncForm'
<1> SUFFICES ASSUME sync.pc \in {"loop", "readd"} PROVE SyncForm'
  BY DEF SyncForm
<1>0. sync.todo \subseteq Clients /\ now <= now'
  BY DEF TypeOK, Sync
<1>1. ASSUME NEW c \in Clients, c \notin syncTouched'
      PROVE  /\ c \notin syncTouched /\ db'[c] = db[c] /\ (c \in users' <=> c \in users)
             /\ Servable(db[c], now) <=> Servable(db'[c], now')
  <2>1. c \notin syncTouched /\ db'[c] = db[c] /\ (c \in users' <=> c \in users) /\ ~Expires(c)
    BY <1>1 DEF TrackHistory, Changed
  <2> QED  BY <1>0, <2>1, Lapses
<1> QED  BY <1>0, <1>1 DEF SyncForm, InStep

\* One visit of a pass: a client is brought in step and done with, or its user is
\* removed to be added again.
Visited(d) ==
    /\ d \in sync.todo /\ sync' = SyncDone(sync.todo \ {d})
    /\ Stored(db[d]) /\ d \notin syncTouched => InStep(d)'
Removed(d) ==
    /\ d \in sync.todo /\ Servable(sync.rows[d], now)
    /\ sync' = [sync EXCEPT !.pc = "readd", !.cur = d]
Visits(d) ==
    /\ sync.pc \in {"loop", "readd"}
    /\ UNCHANGED <<db, now>> /\ \A c \in Clients \ {d} : c \in users' <=> c \in users
    /\ Visited(d) \/ Removed(d)

LEMMA PassVisits ==
    ASSUME TypeInv, SyncForm, SyncReAdd \/ \E c \in Clients : SyncAdd(c) \/ SyncDrop(c)
    PROVE  \E d \in Clients : Visits(d)
<1> USE DEF dbVars, envVars, xrayRest
<1>1. ASSUME NEW d \in Clients, SyncAdd(d) PROVE Visits(d)
  <2>1. /\ sync.pc = "loop" /\ d \in sync.todo /\ Servable(sync.rows[d], now) /\ UNCHANGED <<db, now>>
        /\ \A c \in Clients \ {d} : c \in users' <=> c \in users
    BY <1>1 DEF SyncAdd, AddUser, ReplaceUser, DropUser
  <2>2. CASE AddUser(d) /\ sync' = SyncDone(sync.todo \ {d})
    BY <2>1, <2>2 DEF AddUser, Visits, Visited, SyncForm, InStep
  <2>3. CASE sync' = [sync EXCEPT !.pc = "readd", !.cur = d]
    BY <2>1, <2>3 DEF Visits, Removed
  <2> QED  BY <1>1, <2>2, <2>3 DEF SyncAdd
<1>2. CASE SyncReAdd
  <2> DEFINE d == sync.cur
  <2>1. /\ sync.pc = "readd" /\ d \in Clients /\ d \in sync.todo /\ UNCHANGED <<db, now>>
        /\ users' = users \cup {d} /\ sync' = SyncDone(sync.todo \ {d})
    BY <1>2 DEF SyncReAdd, TypeInv, SyncForm, AddUser
  <2>2. Stored(db[d]) /\ d \notin syncTouched => Servable(db[d], now)
    BY <2>1 DEF SyncForm
  <2> QED  BY <2>1, <2>2 DEF Visits, Visited, InStep
<1>3. ASSUME NEW d \in Clients, SyncDrop(d) PROVE Visits(d)
  BY <1>3 DEF SyncDrop, DropUser, Visits, Visited, SyncForm, InStep
<1> QED  BY <1>1, <1>2, <1>3

LEMMA SyncSteps ==
    ASSUME TypeInv, SyncForm, SyncStep, TrackHistory
    PROVE  SyncForm'
<1>0. sync \in Sync /\ sync.todo \subseteq Clients /\ db \in [Clients -> Row]
  BY DEF TypeInv, TypeOK, Sync
<1>1. CASE SyncRead
  <2>1. CASE sync' = IdleSync
    BY <2>1 DEF IdleSync, SyncForm
  <2>2. CASE sync' # IdleSync
    <3>1. /\ sync'.pc = "loop" /\ sync'.rows = db /\ sync'.todo = {c \in Clients : Stored(db[c])}
          /\ db' = db
      BY <1>0, <1>1, <2>2 DEF SyncRead, Sync, dbVars
    <3> QED  BY <3>1 DEF SyncForm
  <2> QED  BY <2>1, <2>2
<1>2. CASE SyncFails
  BY <1>2 DEF SyncFails, IdleSync, SyncForm
<1>3. ASSUME NEW d \in Clients, Visits(d) PROVE SyncForm'
  <2>1. CASE sync' = IdleSync
    BY <2>1 DEF IdleSync, SyncForm
  <2>2. CASE sync' # IdleSync
    <3>1. /\ sync'.pc \in {"loop", "readd"} /\ sync'.rows = sync.rows
          /\ \/ sync'.pc = "loop" /\ sync'.todo = sync.todo \ {d}
             \/ sync'.pc = "readd" /\ sync'.todo = sync.todo /\ sync'.cur = d
      BY <1>0, <1>3, <2>2 DEF Visits, Visited, Removed, SyncDone, Sync
    <3>2. \A c \in Clients : c \notin syncTouched' => c \notin syncTouched
      BY <1>3, <3>1 DEF TrackHistory, Visits
    <3>3. \A c \in Clients \ {d} : InStep(c)' <=> InStep(c)
      BY <1>3 DEF Visits, InStep
    <3>4. CASE Visited(d)
      <4>1. sync'.pc = "loop" /\ sync'.todo = sync.todo \ {d}
        BY <1>0, <2>2, <3>4 DEF Visited, SyncDone, Sync
      <4> QED  BY <1>3, <3>1, <3>2, <3>3, <3>4, <4>1 DEF SyncForm, Visits, Visited
    <3>5. CASE Removed(d)
      <4>1. sync'.pc = "readd" /\ sync'.todo = sync.todo /\ sync'.cur = d
        BY <1>0, <3>5 DEF Removed, Sync
      <4> QED  BY <1>3, <3>1, <3>2, <3>3, <3>5, <4>1 DEF SyncForm, Visits, Removed
    <3> QED  BY <1>3, <3>4, <3>5 DEF Visits
  <2> QED  BY <2>1, <2>2
<1> QED  BY <1>1, <1>2, <1>3, PassVisits DEF SyncStep

LEMMA SyncAlways == HistorySpec => []SyncForm
<1>1. HistoryInit => SyncForm
  BY DEF HistoryInit, Init, IdleSync, SyncForm
<1>2. TypeInv /\ TypeInv' /\ SyncForm /\ [HistoryNext]_historyVars => SyncForm'
  <2>1. ASSUME TypeInv, TypeInv', SyncForm, HistoryNext PROVE SyncForm'
    <3>1. TypeOK /\ TypeOK' /\ [Next]_vars /\ TrackHistory
      BY <2>1 DEF TypeInv, HistoryNext
    <3>2. now' = now \/ now' = now + 1
      BY <3>1, TimePasses
    <3>3. CASE ApiRestart \/ sync' = [sync EXCEPT !.pc = "read"]
      BY <3>1, <3>3 DEF ApiRestart, IdleSync, SyncForm, TypeOK, Sync
    <3> QED  BY <2>1, <3>1, <3>2, <3>3, SyncWriters, SyncKept, SyncSteps
  <2>2. ASSUME SyncForm, UNCHANGED historyVars PROVE SyncForm'
    BY <2>2 DEF historyVars, vars, dbVars, xrayVars, envVars, SyncForm, InStep
  <2> QED  BY <2>1, <2>2
<1> QED  BY <1>1, <1>2, HistoryRefines, TypeInvCorrect, PTL DEF HistorySpec

\* When a full synchronisation completes, every stored client that nobody else
\* changed since the table was read is served exactly if its row says so.
THEOREM SyncsRepair == HistorySpec => SyncRepairs
<1> DEFINE Repaired == (SyncReAdd \/ \E c \in Clients : SyncAdd(c) \/ SyncDrop(c)) /\ sync'.pc = "idle" =>
             \A c \in Clients \ syncTouched : Stored(db[c]) => InStep(c)'
<1>1. ASSUME TypeInv, SyncForm PROVE Repaired
  <2>1. SUFFICES ASSUME SyncReAdd \/ \E c \in Clients : SyncAdd(c) \/ SyncDrop(c), sync'.pc = "idle",
                        NEW c \in Clients \ syncTouched, Stored(db[c])
                 PROVE  InStep(c)'
    OBVIOUS
  <2>2. PICK d \in Clients : Visits(d)
    BY <1>1, <2>1, PassVisits
  <2>3. sync \in Sync
    BY <1>1 DEF TypeInv, TypeOK
  <2>4. Visited(d) /\ sync.todo \ {d} = {}
    BY <2>1, <2>2, <2>3 DEF Visits, Visited, Removed, SyncDone, Sync
  <2>5. CASE c = d
    BY <2>1, <2>4, <2>5 DEF Visited
  <2>6. CASE c # d
    BY <1>1, <2>1, <2>2, <2>4, <2>6 DEF Visits, SyncForm, InStep
  <2> QED  BY <2>5, <2>6
<1>2. TypeInv /\ SyncForm /\ [HistoryNext]_historyVars => [Repaired]_historyVars
  BY <1>1
<1> QED  BY <1>2, SyncAlways, HistoryRefines, TypeInvCorrect, PTL DEF HistorySpec, SyncRepairs

-------------------------------------------------------------------------------
(* Drift: the shapes of the tasks.                                         *)

Naming == {"create", "update", "extend", "reset", "remove"}

\* Where a request of each kind may stand, and what it holds there.
ReqShape(q) ==
    /\ q.pc = "idle" => q = IdleReq
    /\ q.op # "syncAll"
    /\ q.op \in {"import", "overwrite"} => q.pc \in {"find", "importWrite", "importSync"}
    /\ q.op = "dashboard" => q.pc \in {"snap", "await", "write"} /\ q.c = Nobody
    /\ q.op \in Naming => q.pc \in {"snap", "await", "write", "reread", "sync", "readd"} /\ q.c \in Clients
    /\ q.op = "list" => q.pc \in {"idle", "sweepRead", "sweepWrite", "sweep", "snap", "await"}
    /\ q.pc \in {"sweepRead", "sweepWrite", "sweep"} => q.op = "list"
    /\ q.todo # {} => q.pc \in {"sweepWrite", "sweep", "find", "importWrite", "importSync"}
    /\ (\E c \in Clients : Stored(q.rows[c])) => q.pc \in {"find", "importWrite", "importSync"}
    /\ q.pc = "importWrite" => q.c \in q.todo
    /\ q.pc \in {"find", "importSync"} => q.c = Nobody
    /\ q.pc \in {"find", "importWrite"} => \A c \in q.todo : ~Stored(q.rows[c])
    /\ q.pc = "importSync" => \A c \in q.todo : Stored(q.rows[c])

SnapShape ==
    /\ snap.pc = "idle" => snap = IdleSnap
    /\ snap.over \cup snap.breach \subseteq snap.tags
    /\ \A c \in Clients : snap.quota[c] # NoLimit => snap.pc = "usage" /\ c \in snap.tags
    /\ snap.over # {} => snap.pc \in {"quotaLoop", "quotaDrop"}
    /\ snap.breach # {} => snap.pc \notin {"idle", "query", "clients"}
    /\ snap.pc = "quotaDrop" => snap.cur \in snap.over
    /\ snap.pc = "accessDrop" => snap.cur \in snap.breach
    /\ \A r \in snap.waiters : req[r].pc = "await"

SyncShape == /\ sync.todo # {} => sync.pc \in {"loop", "readd"}
             /\ sync.pc = "readd" => sync.cur \in sync.todo

Shapes == (\A r \in Requests : ReqShape(req[r])) /\ SnapShape /\ SyncShape

-------------------------------------------------------------------------------
(* The tasks keep their shapes.                                            *)

LEMMA IdleShape == ReqShape(IdleReq)
  BY NoneImported DEF ReqShape, IdleReq, Naming

\* Who else but r is concerned by a step of r.
Alone(r) == \A q \in Requests \ {r} : req'[q] = req[q]

LEMMA GoAlone ==
    ASSUME TypeOK, NEW r \in Requests, NEW rec, Go(r, rec)
    PROVE  req'[r] = rec /\ Alone(r)
  BY DEF TypeOK, Go, Alone

LEMMA ArriveShape ==
    ASSUME TypeInv, NEW r \in Requests, ReqShape(req[r]), Arrive(r)
    PROVE  Alone(r) /\ ReqShape(req'[r])
<1>0. TypeOK /\ req[r] \in Req /\ Nobody \notin Clients
  BY ControlAssumption DEF TypeInv, TypeOK
<1> DEFINE Goal == Alone(r) /\ ReqShape(req'[r])
<1>1. ASSUME NEW c \in Clients, Create(r, c) PROVE Goal
  <2>1. PICK row : Go(r, [IdleReq EXCEPT !.op = "create", !.c = c, !.pc = "sync", !.row = row])
    BY <1>1 DEF Create
  <2> DEFINE rec == [IdleReq EXCEPT !.op = "create", !.c = c, !.pc = "sync", !.row = row]
  <2>2. ReqShape(rec)
    BY NoneImported DEF ReqShape, IdleReq, Naming
  <2> HIDE DEF rec
  <2> QED  BY <1>0, <2>1, <2>2, GoAlone DEF rec
<1>2. ASSUME NEW op, NEW c, NEW pc, Begin(r, op, c, pc),
             \/ op \in Naming /\ c \in Clients /\ pc \in {"write", "snap"}
             \/ op = "list" /\ pc = "sweepRead"
             \/ op = "dashboard" /\ c = Nobody /\ pc = "snap"
      PROVE  Goal
  <2> DEFINE rec == [op |-> op, c |-> c, pc |-> pc, todo |-> {}, rows |-> NoRows,
                     row |-> IF c = Nobody THEN NoRow("UNBORN") ELSE db[c]]
  <2>1. ReqShape(rec)
    BY <1>2, NoneImported DEF ReqShape, Naming
  <2>2. Go(r, rec)
    BY <1>2 DEF Begin
  <2> HIDE DEF rec
  <2> QED  BY <1>0, <2>1, <2>2, GoAlone
<1>3. ASSUME NEW c \in Clients, NEW op, ReadClient(r, op, c) PROVE Goal
  BY <1>2, <1>3 DEF ReadClient, Naming
<1>4. ASSUME NEW op, ReadClients(r, op) PROVE Goal
  BY <1>2, <1>4 DEF ReadClients
<1>5. CASE SyncEndpoint(r)
  BY <1>5 DEF SyncEndpoint, Alone
<1> QED  BY <1>1, <1>3, <1>4, <1>5 DEF Arrive

\* Everything but imports.
LEMMA StepShape ==
    ASSUME TypeInv, NEW r \in Requests, ReqShape(req[r]), ReqStep(r)
    PROVE  Alone(r) /\ ReqShape(req'[r]) /\ req[r].pc # "await"
<1>0. TypeOK /\ req[r] \in Req /\ Nobody \notin Clients
  BY ControlAssumption DEF TypeInv, TypeOK
<1> DEFINE q == req[r]
           Goal == Alone(r) /\ ReqShape(req'[r]) /\ q.pc # "await"
<1>1. ASSUME Finish(r), q.pc # "await" PROVE Goal
  BY <1>0, <1>1, GoAlone, IdleShape DEF Finish
\* A request that goes on, and the list that ends a reset or an extension.
<1>2. ASSUME NEW rec, Go(r, rec), rec.op = q.op, rec.c = q.c, rec.todo = q.todo, rec.rows = q.rows,
             \/ q.op \in Naming /\ rec.pc \in {"await", "write", "reread", "sync", "readd"}
             \/ q.op = "dashboard" /\ rec.pc \in {"await", "write"}
             \/ q.op = "list" /\ rec.pc = "await",
             q.pc \in {"snap", "write", "reread", "sync"}
      PROVE  Goal
  <2>1. ReqShape(rec)
    BY <1>2 DEF ReqShape, Naming
  <2> QED  BY <1>0, <1>2, <2>1, GoAlone
<1>3. ASSUME NEW rec, Go(r, rec), rec.op = "list", rec.rows = q.rows,
             \/ rec.pc = "sweepRead" /\ rec.todo = q.todo /\ q.op \in Naming
             \/ rec.pc \in {"sweepWrite", "sweep"} /\ q.op = "list"
             \/ rec.pc = "snap" /\ rec.todo = {} /\ q.op = "list",
             q.pc \in {"write", "sync", "readd", "sweepRead", "sweepWrite", "sweep"}
      PROVE  Goal
  <2>1. ReqShape(rec)
    BY <1>3 DEF ReqShape, Naming
  <2> QED  BY <1>0, <1>3, <2>1, GoAlone
<1>4. CASE JoinSnapshot(r)
  <2> DEFINE rec == [q EXCEPT !.pc = "await"]
  <2>1. rec.pc = "await" /\ rec.op = q.op /\ rec.c = q.c /\ rec.todo = q.todo /\ rec.rows = q.rows
    BY <1>0 DEF Req
  <2>2. Go(r, rec) /\ q.pc = "snap"
    BY <1>4 DEF JoinSnapshot
  <2>3. q.op \in Naming \cup {"list", "dashboard"}
    BY <1>0, <2>2 DEF ReqShape, Req, OperationNames, Naming
  <2> QED  BY <1>2, <2>1, <2>2, <2>3
<1>5. CASE SkipSnapshot(r)
  <2>1. CASE q.op = "list"
    BY <1>1, <1>5, <2>1 DEF SkipSnapshot
  <2>2. CASE q.op # "list"
    <3> DEFINE rec == [q EXCEPT !.pc = "write"]
    <3>1. rec.pc = "write" /\ rec.op = q.op /\ rec.c = q.c /\ rec.todo = q.todo /\ rec.rows = q.rows
      BY <1>0 DEF Req
    <3> QED  BY <1>2, <1>5, <2>2, <3>1 DEF SkipSnapshot
  <2> QED  BY <2>1, <2>2
<1>6. ASSUME NEW row, Go(r, [q EXCEPT !.pc = "sync", !.row = row]), q.op \in Naming, q.pc \in {"write", "reread"}
      PROVE  Goal
  <2> DEFINE rec == [q EXCEPT !.pc = "sync", !.row = row]
  <2>1. rec.pc = "sync" /\ rec.op = q.op /\ rec.c = q.c /\ rec.todo = q.todo /\ rec.rows = q.rows
    BY <1>0 DEF Req
  <2> QED  BY <1>2, <1>6, <2>1
<1>7. CASE UpdateWrite(r) \/ ExtendWrite(r)
  BY <1>6, <1>7 DEF UpdateWrite, ExtendWrite, StoreAndSync, Writes, Naming
<1>8. CASE RemoveWrite(r)
  <2> DEFINE rec == [q EXCEPT !.pc = "sync", !.row.status = "DISABLED"]
  <2>1. rec.pc = "sync" /\ rec.op = q.op /\ rec.c = q.c /\ rec.todo = q.todo /\ rec.rows = q.rows
    BY <1>0 DEF Req
  <2>2. Go(r, rec) /\ q.pc = "write" /\ q.op \in Naming
    BY <1>8 DEF RemoveWrite, Writes, Naming
  <2> QED  BY <1>2, <2>1, <2>2
<1>9. CASE ResetWrite(r)
  <2> DEFINE rec == [q EXCEPT !.pc = "reread"]
  <2>1. rec.pc = "reread" /\ rec.op = q.op /\ rec.c = q.c /\ rec.todo = q.todo /\ rec.rows = q.rows
    BY <1>0 DEF Req
  <2>2. Go(r, rec) /\ q.pc = "write" /\ q.op \in Naming
    BY <1>9 DEF ResetWrite, Writes, Naming
  <2> QED  BY <1>2, <2>1, <2>2
<1>10. CASE ResetReread(r)
  <2>1. q.op \in Naming
    BY <1>0, <1>10 DEF ResetReread, ReqShape, Req, OperationNames, Naming
  <2> QED  BY <1>6, <1>10, <2>1 DEF ResetReread
<1>11. CASE ClientGone(r) \/ DashboardPrime(r)
  BY <1>1, <1>11 DEF ClientGone, DashboardPrime
<1>12. ASSUME Go(r, [q EXCEPT !.pc = "sweepRead", !.op = "list"]), q.op \in Naming,
              q.pc \in {"write", "sync", "readd"}
       PROVE  Goal
  <2> DEFINE rec == [q EXCEPT !.pc = "sweepRead", !.op = "list"]
  <2>1. rec.pc = "sweepRead" /\ rec.op = "list" /\ rec.todo = q.todo /\ rec.rows = q.rows
    BY <1>0 DEF Req
  <2> QED  BY <1>3, <1>12, <2>1
<1>13. CASE ExtendNothing(r)
  BY <1>12, <1>13 DEF ExtendNothing, Naming
<1>14. ASSUME AfterSync(r), q.pc \in {"sync", "readd"} PROVE Goal
  BY <1>1, <1>12, <1>14 DEF AfterSync, Finish, Naming
<1>15. CASE ClientReAdd(r) \/ ClientDrop(r) \/ ClientSyncFails(r)
  BY <1>14, <1>15 DEF ClientReAdd, ClientDrop, ClientSyncFails
<1>16. CASE ClientAdd(r)
  <2>1. CASE AfterSync(r)
    BY <1>14, <1>16, <2>1 DEF ClientAdd
  <2>2. CASE ~AfterSync(r)
    <3> DEFINE rec == [q EXCEPT !.pc = "readd"]
    <3>1. rec.pc = "readd" /\ rec.op = q.op /\ rec.c = q.c /\ rec.todo = q.todo /\ rec.rows = q.rows
      BY <1>0 DEF Req
    <3>2. q.op \in Naming
      BY <1>0, <1>16 DEF ClientAdd, ReqShape, Req, OperationNames, Naming
    <3> QED  BY <1>2, <1>16, <2>2, <3>1, <3>2 DEF ClientAdd
  <2> QED  BY <2>1, <2>2
<1>17. ASSUME NEW pc, NEW todo, Go(r, [q EXCEPT !.pc = pc, !.todo = todo]),
              pc \in {"sweepWrite", "sweep"} \/ (pc = "snap" /\ todo = {}),
              q.pc \in {"sweepRead", "sweepWrite", "sweep"}
       PROVE  Goal
  <2> DEFINE rec == [q EXCEPT !.pc = pc, !.todo = todo]
  <2>1. rec.pc = pc /\ rec.op = q.op /\ rec.todo = todo /\ rec.rows = q.rows
    BY <1>0 DEF Req
  <2>2. q.op = "list"
    BY <1>17 DEF ReqShape
  <2> QED  BY <1>3, <1>17, <2>1, <2>2
<1>18. CASE SweepRead(r)
  BY <1>17, <1>18 DEF SweepRead, AfterSweep
<1>19. CASE SweepWrite(r)
  <2> DEFINE rec == [q EXCEPT !.pc = "sweep"]
  <2>1. rec.pc = "sweep" /\ rec.op = q.op /\ rec.rows = q.rows
    BY <1>0 DEF Req
  <2>2. q.op = "list" /\ Go(r, rec) /\ q.pc = "sweepWrite"
    BY <1>19 DEF SweepWrite, ReqShape
  <2> QED  BY <1>3, <2>1, <2>2
<1>20. ASSUME NEW c \in Clients, SweepDrop(r, c) PROVE Goal
  <2> DEFINE rec == [q EXCEPT !.todo = @ \ {c}]
  <2>1. rec.pc = q.pc /\ rec.op = q.op /\ rec.rows = q.rows
    BY <1>0 DEF Req
  <2>2. q.op = "list" /\ q.pc = "sweep"
    BY <1>20 DEF SweepDrop, ReqShape
  <2>3. AfterSweep(r) => Goal
    BY <1>17, <2>2 DEF AfterSweep
  <2>4. Go(r, rec) => Goal
    BY <1>3, <2>1, <2>2
  <2> QED  BY <1>20, <2>3, <2>4 DEF SweepDrop
<1> QED
  BY <1>4, <1>5, <1>7, <1>8, <1>9, <1>10, <1>11, <1>13, <1>15, <1>16, <1>18, <1>19, <1>20 DEF ReqStep

LEMMA ImportShape ==
    ASSUME TypeInv, NEW r \in Requests, ReqShape(req[r]), ImportAct(r)
    PROVE  Alone(r) /\ ReqShape(req'[r]) /\ req[r].pc # "await"
<1>0. TypeOK /\ req[r] \in Req /\ Nobody \notin Clients
  BY ControlAssumption DEF TypeInv, TypeOK
<1> DEFINE q == req[r]
           Goal == Alone(r) /\ ReqShape(req'[r]) /\ q.pc # "await"
<1>1. ASSUME NEW rec, Go(r, rec), ReqShape(rec), q.pc # "await" PROVE Goal
  BY <1>0, <1>1, GoAlone
<1>2. ASSUME Finish(r), q.pc # "await" PROVE Goal
  BY <1>1, <1>2, IdleShape DEF Finish
<1>3. ASSUME NEW op \in Operations, Import(r, op) PROVE Goal
  <2>1. PICK items \in SUBSET Clients :
          Go(r, [IdleReq EXCEPT !.op = op, !.pc = "find", !.todo = items])
    BY <1>3 DEF Import
  <2> DEFINE rec == [IdleReq EXCEPT !.op = op, !.pc = "find", !.todo = items]
  <2>2. ReqShape(rec) /\ q.pc # "await"
    BY <1>3, NoneImported DEF Import, Submit, ReqShape, IdleReq, Naming
  <2> HIDE DEF rec
  <2> QED  BY <1>1, <2>1, <2>2 DEF rec
\* The next item, or the synchronisations.
<1>4. ASSUME NEW rec, NextItem(r, rec), q.pc \in {"find", "importWrite"},
             rec \in Req, rec.op = q.op, rec.op \in {"import", "overwrite"}, rec.c = Nobody,
             \A c \in rec.todo : ~Stored(rec.rows[c])
      PROVE  Goal
  <2>1. ASSUME NEW pc \in {"find", "importSync"}, pc = "find" \/ rec.todo = {}
        PROVE  ReqShape([rec EXCEPT !.pc = pc])
    <3> DEFINE new == [rec EXCEPT !.pc = pc]
    <3>1. new.pc = pc /\ new.op = rec.op /\ new.c = Nobody /\ new.todo = rec.todo /\ new.rows = rec.rows
      BY <1>4 DEF Req
    <3> HIDE DEF new
    <3>2. ReqShape(new)
      BY <1>4, <2>1, <3>1 DEF ReqShape, Naming
    <3> QED  BY <3>2 DEF new
  <2> QED  BY <1>1, <1>2, <1>4, <2>1 DEF NextItem, Finish
<1>5. ASSUME NEW d \in Clients, ImportFind(r, d) PROVE Goal
  <2>1. q.pc = "find" /\ q.op \in {"import", "overwrite"} /\ q.c = Nobody
    BY <1>5 DEF ImportFind, TypeInv, ReqNamesClient, Importing, ReqShape
  <2>2. CASE NextItem(r, [q EXCEPT !.todo = @ \ {d}])
    <3> DEFINE rec == [q EXCEPT !.todo = @ \ {d}]
    <3>1. rec \in Req /\ rec.op = q.op /\ rec.c = q.c /\ rec.todo = q.todo \ {d} /\ rec.rows = q.rows
      BY <1>0 DEF Req
    <3>2. \A c \in rec.todo : ~Stored(rec.rows[c])
      BY <2>1, <3>1 DEF ReqShape
    <3> QED  BY <1>4, <2>1, <2>2, <3>1, <3>2
  <2>3. CASE Go(r, [q EXCEPT !.pc = "importWrite", !.c = d, !.row = db[d]])
    <3> DEFINE rec == [q EXCEPT !.pc = "importWrite", !.c = d, !.row = db[d]]
    <3>1. /\ rec.pc = "importWrite" /\ rec.op = q.op /\ rec.c = d
          /\ rec.todo = q.todo /\ rec.rows = q.rows
      BY <1>0 DEF Req
    <3>2. d \in q.todo
      BY <1>5 DEF ImportFind
    <3> HIDE DEF rec
    <3>3. ReqShape(rec)
      BY <2>1, <3>1, <3>2 DEF ReqShape, Naming
    <3> QED  BY <1>1, <2>1, <2>3, <3>3 DEF rec
  <2> QED  BY <1>5, <2>2, <2>3 DEF ImportFind
<1>6. CASE ImportWrite(r)
  <2>1. q.pc = "importWrite" /\ q.op \in {"import", "overwrite"} /\ q.c \in Clients
    BY <1>6 DEF ImportWrite, TypeInv, ReqNamesClient, Importing
  <2>2. PICK p \in Payloads, used \in 0..MaxTraffic : WriteItem(r, q.c, Imported(p, used, now))
    BY <1>6 DEF ImportWrite
  <2> DEFINE row == Imported(p, used, now)
             rec == [q EXCEPT !.c = Nobody, !.todo = @ \ {q.c}, !.rows[q.c] = row]
  <2>3. row \in Row
    BY ImportedType, ControlAssumption
  <2> HIDE DEF row
  <2>4. /\ rec \in Req /\ rec.op = q.op /\ rec.c = Nobody /\ rec.todo = q.todo \ {q.c}
        /\ \A c \in Clients \ {q.c} : rec.rows[c] = q.rows[c]
    BY <1>0, <2>3 DEF Req
  <2>5. \A c \in rec.todo : ~Stored(rec.rows[c])
    BY <1>0, <2>1, <2>4 DEF ReqShape, Req
  <2>6. NextItem(r, rec)
    BY <2>2 DEF WriteItem, row
  <2> QED  BY <1>4, <2>1, <2>4, <2>5, <2>6
<1>7. CASE ImportThrows(r)
  BY <1>2, <1>7 DEF ImportThrows
<1>8. ASSUME NEW c \in Clients, Applied(r, c), q.pc = "importSync" PROVE Goal
  <2> DEFINE rec == [q EXCEPT !.todo = @ \ {c}, !.rows[c] = NoRow("UNBORN")]
  <2>1. /\ rec.pc = q.pc /\ rec.op = q.op /\ rec.c = q.c /\ rec.todo = q.todo \ {c}
        /\ \A d \in Clients \ {c} : rec.rows[d] = q.rows[d]
    BY <1>0 DEF Req
  <2>2. q.op \in {"import", "overwrite"} /\ q.todo \subseteq Clients
    BY <1>0, <1>8 DEF TypeInv, ReqNamesClient, Importing, Req
  <2>3. Go(r, rec) \/ Finish(r)
    BY <1>8 DEF Applied, Finish
  <2> HIDE DEF rec
  <2>4. ReqShape(rec)
    BY <1>8, <2>1, <2>2 DEF ReqShape, Naming
  <2> QED  BY <1>1, <1>2, <1>8, <2>3, <2>4
<1>9. ASSUME NEW c \in Clients, ImportAdd(r, c) PROVE Goal
  <2>1. CASE Applied(r, c)
    BY <1>8, <1>9, <2>1 DEF ImportAdd, Waits
  <2>2. CASE Go(r, [q EXCEPT !.todo = @ \cup {c}])
    <3> DEFINE rec == [q EXCEPT !.todo = @ \cup {c}]
    <3>1. /\ rec.pc = q.pc /\ rec.op = q.op /\ rec.c = q.c
          /\ rec.todo = q.todo \cup {c} /\ rec.rows = q.rows
      BY <1>0 DEF Req
    <3>2. q.pc = "importSync" /\ q.op \in {"import", "overwrite"} /\ Stored(q.rows[c])
      BY <1>9 DEF ImportAdd, Waits, Unapplied, TypeInv, ReqNamesClient, Importing
    <3> HIDE DEF rec
    <3>3. ReqShape(rec)
      BY <3>1, <3>2 DEF ReqShape, Naming
    <3> QED  BY <1>1, <2>2, <3>2, <3>3 DEF rec
  <2> QED  BY <1>9, <2>1, <2>2 DEF ImportAdd
<1>10. ASSUME NEW c \in Clients, ImportReAdd(r, c) \/ ImportDrop(r, c) \/ ImportSyncFails(r, c)
       PROVE  Goal
  BY <1>8, <1>10 DEF ImportReAdd, ImportDrop, ImportSyncFails, Waits
<1> QED
  BY <1>3, <1>5, <1>6, <1>7, <1>9, <1>10 DEF ImportAct, ImportStep

\* What a request that awaits the snapshot goes on with.
LEMMA SettledShape ==
    ASSUME TypeInv, Shapes
    PROVE  /\ \A r \in Requests : ReqShape(Settled[r])
           /\ \A r \in Requests : Settled[r] = req[r] \/ r \in snap.waiters
<1> SUFFICES ASSUME NEW r \in Requests, r \in snap.waiters PROVE ReqShape(Settled[r])
  BY DEF Shapes, Settled
<1> DEFINE rec == [req[r] EXCEPT !.pc = "write"]
<1>1. req[r].pc = "await" /\ ReqShape(req[r]) /\ req[r] \in Req
  BY DEF Shapes, SnapShape, TypeInv, TypeOK
<1>2. CASE req[r].op = "list"
  BY <1>2, IdleShape DEF Settled
<1>3. CASE req[r].op # "list"
  <2>1. /\ rec.pc = "write" /\ rec.op = req[r].op /\ rec.c = req[r].c
        /\ rec.todo = req[r].todo /\ rec.rows = req[r].rows
    BY <1>1 DEF Req
  <2> HIDE DEF rec
  <2>2. ReqShape(rec)
    BY <1>1, <1>3, <2>1 DEF ReqShape, Naming
  <2> QED  BY <1>3, <2>2 DEF Settled, rec
<1> QED  BY <1>2, <1>3

LEMMA SnapShapes ==
    ASSUME TypeInv, Shapes, SnapTimer \/ SnapStep
    PROVE  SnapShape' /\ \A r \in Requests : ReqShape(req'[r])
<1>0. /\ snap \in Snap /\ SnapShape /\ \A r \in Requests : ReqShape(req[r])
      /\ snap.tags \subseteq Clients /\ snap.over \subseteq Clients /\ snap.breach \subseteq Clients
  BY DEF Shapes, TypeInv, TypeOK, Snap
<1> DEFINE Goal == SnapShape' /\ \A r \in Requests : ReqShape(req'[r])
<1>1. ASSUME snap' = IdleSnap, req' = Settled PROVE Goal
  <2>1. SnapShape'
    BY <1>1 DEF SnapShape, IdleSnap
  <2> QED  BY <1>1, <2>1, SettledShape
<1>2. ASSUME SnapShape', UNCHANGED req PROVE Goal
  BY <1>0, <1>2
<1>3. CASE SnapTimer
  <2>1. /\ snap'.pc = "query" /\ snap'.tags = snap.tags /\ snap'.over = snap.over
        /\ snap'.breach = snap.breach /\ snap'.quota = snap.quota /\ snap'.waiters = snap.waiters
    BY <1>0, <1>3 DEF SnapTimer, Snap
  <2>2. UNCHANGED req /\ snap = IdleSnap
    BY <1>0, <1>3 DEF SnapTimer, SnapShape
  <2>3. SnapShape'
    BY <2>1, <2>2 DEF SnapShape, IdleSnap
  <2> QED  BY <1>2, <2>2, <2>3
<1>4. CASE SnapQuery
  <2>1. /\ snap'.pc = "clients" /\ snap'.over = snap.over
        /\ snap'.breach = snap.breach /\ snap'.quota = snap.quota /\ snap'.waiters = snap.waiters
    BY <1>0, <1>4 DEF SnapQuery, Snap
  <2>2. UNCHANGED req /\ snap.pc = "query"
    BY <1>4 DEF SnapQuery
  <2>3. SnapShape'
    BY <1>0, <2>1, <2>2 DEF SnapShape
  <2> QED  BY <1>2, <2>2, <2>3
<1>5. CASE SnapClients
  <2>1. PICK over \in SUBSET Found :
          snap' = [snap EXCEPT !.pc     = "record",
                              !.seen   = Found,
                              !.active = {c \in over : db[c].status = "ACTIVE"},
                              !.breach = over]
    BY <1>5 DEF SnapClients
  <2>2. /\ snap'.pc = "record" /\ snap'.tags = snap.tags /\ snap'.over = snap.over
        /\ snap'.breach = over /\ snap'.quota = snap.quota /\ snap'.waiters = snap.waiters
    BY <1>0, <2>1 DEF Snap
  <2>3. UNCHANGED req /\ snap.pc = "clients" /\ over \subseteq snap.tags
    BY <1>5 DEF SnapClients, Found
  <2>4. SnapShape'
    BY <1>0, <2>2, <2>3 DEF SnapShape
  <2> QED  BY <1>2, <2>3, <2>4
<1>6. CASE SnapRecord
  <2>1. /\ snap'.pc \in {"access", "quota"} /\ snap'.tags = snap.tags /\ snap'.over = snap.over
        /\ snap'.breach = snap.breach /\ snap'.quota = snap.quota /\ snap'.waiters = snap.waiters
    BY <1>0, <1>6 DEF SnapRecord, Snap
  <2>2. UNCHANGED req /\ snap.pc = "record"
    BY <1>6 DEF SnapRecord
  <2>3. SnapShape'
    BY <1>0, <2>1, <2>2 DEF SnapShape
  <2> QED  BY <1>2, <2>2, <2>3
<1>7. CASE SnapQuota
  <2> DEFINE limits == [c \in Clients |->
                          IF c \in snap.tags /\ Stored(db[c]) /\ ~db[c].unlimited
                          THEN db[c].limit ELSE NoLimit]
  <2>1. /\ snap'.pc \in {"access", "usage"} /\ snap'.tags = snap.tags /\ snap'.over = snap.over
        /\ snap'.pc = "access" => \A c \in Clients : limits[c] = NoLimit
        /\ snap'.breach = snap.breach /\ snap'.quota = limits /\ snap'.waiters = snap.waiters
    BY <1>0, <1>7 DEF SnapQuota, Snap
  <2>2. \A c \in Clients : limits[c] # NoLimit => c \in snap.tags
    OBVIOUS
  <2>3. UNCHANGED req /\ snap.pc = "quota"
    BY <1>7 DEF SnapQuota
  <2> HIDE DEF limits
  <2>4. SnapShape'
    BY <1>0, <2>1, <2>2, <2>3 DEF SnapShape
  <2> QED  BY <1>2, <2>3, <2>4
<1>8. CASE SnapUsage
  <2>1. /\ snap'.pc = AfterQuota(QuotaSpent) /\ snap'.tags = snap.tags /\ snap'.over = QuotaSpent
        /\ snap'.breach = snap.breach /\ \A c \in Clients : snap'.quota[c] = NoLimit
        /\ snap'.waiters = snap.waiters
    BY <1>0, <1>8 DEF SnapUsage, Snap
  <2>2. UNCHANGED req /\ snap.pc = "usage"
    BY <1>8 DEF SnapUsage
  <2>3. QuotaSpent \subseteq snap.tags
    BY <1>0 DEF QuotaSpent, SnapShape
  <2>4. SnapShape'
    BY <1>0, <2>1, <2>2, <2>3 DEF SnapShape, AfterQuota
  <2> QED  BY <1>2, <2>2, <2>4
<1>9. ASSUME NEW c \in Clients, SnapQuotaBlock(c) PROVE Goal
  <2>1. /\ snap'.pc = "quotaDrop" /\ snap'.tags = snap.tags /\ snap'.over = snap.over /\ snap'.cur = c
        /\ snap'.breach = snap.breach /\ snap'.quota = snap.quota /\ snap'.waiters = snap.waiters
    BY <1>0, <1>9 DEF SnapQuotaBlock, Snap
  <2>2. UNCHANGED req /\ snap.pc = "quotaLoop" /\ c \in snap.over
    BY <1>9 DEF SnapQuotaBlock
  <2>3. SnapShape'
    BY <1>0, <2>1, <2>2 DEF SnapShape
  <2> QED  BY <1>2, <2>2, <2>3
<1>10. ASSUME NEW c \in Clients, SnapAccessBlock(c) PROVE Goal
  <2>1. /\ snap'.pc = "accessDrop" /\ snap'.tags = snap.tags /\ snap'.over = snap.over /\ snap'.cur = c
        /\ snap'.breach = snap.breach /\ snap'.quota = snap.quota /\ snap'.waiters = snap.waiters
    BY <1>0, <1>10 DEF SnapAccessBlock, Snap
  <2>2. UNCHANGED req /\ snap.pc = "access" /\ c \in snap.breach
    BY <1>10 DEF SnapAccessBlock
  <2>3. SnapShape'
    BY <1>0, <2>1, <2>2 DEF SnapShape
  <2> QED  BY <1>2, <2>2, <2>3
<1>11. CASE SnapQuotaDrop
  <2> DEFINE over == snap.over \ {snap.cur}
  <2>1. /\ snap'.pc = AfterQuota(over) /\ snap'.tags = snap.tags /\ snap'.over = over
        /\ snap'.breach = snap.breach /\ snap'.quota = snap.quota /\ snap'.waiters = snap.waiters
    BY <1>0, <1>11 DEF SnapQuotaDrop, Snap
  <2>2. UNCHANGED req /\ snap.pc = "quotaDrop"
    BY <1>11 DEF SnapQuotaDrop
  <2>3. SnapShape'
    BY <1>0, <2>1, <2>2 DEF SnapShape, AfterQuota
  <2> QED  BY <1>2, <2>2, <2>3
<1>12. CASE SnapAccessDrop
  <2>1. /\ snap'.pc = "access" /\ snap'.tags = snap.tags /\ snap'.over = snap.over
        /\ snap'.breach = snap.breach \ {snap.cur}
        /\ snap'.quota = snap.quota /\ snap'.waiters = snap.waiters
    BY <1>0, <1>12 DEF SnapAccessDrop, Snap
  <2>2. UNCHANGED req /\ snap.pc = "accessDrop"
    BY <1>12 DEF SnapAccessDrop
  <2>3. SnapShape'
    BY <1>0, <2>1, <2>2 DEF SnapShape
  <2> QED  BY <1>2, <2>2, <2>3
<1>13. CASE SnapQueryFails \/ SnapRecordFails \/ SnapDropFails \/ SnapEnd
  BY <1>1, <1>13 DEF SnapQueryFails, SnapRecordFails, SnapDropFails, SnapEnd, SnapFail
<1>14. ASSUME NEW c \in Clients, SnapQuotaBlockFails(c) PROVE Goal
  BY <1>1, <1>14 DEF SnapQuotaBlockFails, SnapFail
<1> QED
  BY <1>3, <1>4, <1>5, <1>6, <1>7, <1>8, <1>9, <1>10, <1>11, <1>12, <1>13, <1>14 DEF SnapStep

LEMMA SyncShapes ==
    ASSUME TypeInv, SyncShape, [Next]_vars
    PROVE  SyncShape'
<1>0. sync \in Sync /\ sync.todo \subseteq Clients
  BY DEF TypeInv, TypeOK, Sync
<1>1. ASSUME sync' = IdleSync PROVE SyncShape'
  BY <1>1 DEF SyncShape, IdleSync
<1>2. ASSUME sync.pc = "idle", sync' = [sync EXCEPT !.pc = "read"] PROVE SyncShape'
  <2>1. sync'.pc = "read" /\ sync'.todo = sync.todo
    BY <1>0, <1>2 DEF Sync
  <2> QED  BY <1>2, <2>1 DEF SyncShape
<1>3. ASSUME NEW todo, sync' = SyncDone(todo) PROVE SyncShape'
  <2>1. CASE sync' = [sync EXCEPT !.pc = "loop", !.todo = todo, !.cur = Nobody]
    <3>1. sync'.pc = "loop"
      BY <1>0, <2>1 DEF Sync
    <3> QED  BY <3>1 DEF SyncShape
  <2> QED  BY <1>1, <1>3, <2>1 DEF SyncDone
<1>4. CASE SyncRead
  <2>1. CASE sync' = [sync EXCEPT !.pc = "loop", !.rows = db, !.todo = {c \in Clients : Stored(db[c])}]
    <3>1. sync'.pc = "loop"
      BY <1>0, <2>1 DEF Sync
    <3> QED  BY <3>1 DEF SyncShape
  <2> QED  BY <1>1, <1>4, <2>1 DEF SyncRead
<1>5. ASSUME NEW c \in Clients, SyncAdd(c) PROVE SyncShape'
  <2>1. CASE sync' = [sync EXCEPT !.pc = "readd", !.cur = c]
    <3>1. sync'.pc = "readd" /\ sync'.cur = c /\ sync'.todo = sync.todo
      BY <1>0, <2>1 DEF Sync
    <3> QED  BY <1>5, <3>1 DEF SyncShape, SyncAdd
  <2> QED  BY <1>3, <1>5, <2>1 DEF SyncAdd
<1>6. ASSUME NEW c \in Clients, SyncDrop(c) PROVE SyncShape'
  BY <1>3, <1>6 DEF SyncDrop
<1>7. CASE SyncReAdd
  BY <1>3, <1>7 DEF SyncReAdd
<1>8. CASE SyncFails \/ ApiRestart
  BY <1>1, <1>8 DEF SyncFails, ApiRestart
<1>9. CASE UNCHANGED sync
  BY <1>9 DEF SyncShape
<1> QED  BY <1>2, <1>4, <1>5, <1>6, <1>7, <1>8, <1>9, SyncWriters DEF SyncStep

\* A request that joins the snapshot awaits it.
LEMMA JoinShape ==
    ASSUME TypeInv, Shapes, NEW r \in Requests, JoinSnapshot(r)
    PROVE  SnapShape'
<1>0. snap \in Snap /\ req[r] \in Req /\ req'[r] = [req[r] EXCEPT !.pc = "await"] /\ Alone(r)
  BY GoAlone DEF TypeInv, TypeOK, JoinSnapshot
<1>1. /\ snap'.tags = snap.tags /\ snap'.over = snap.over /\ snap'.cur = snap.cur
      /\ snap'.breach = snap.breach /\ snap'.quota = snap.quota
      /\ snap'.pc = IF snap.pc = "idle" THEN "query" ELSE snap.pc
      /\ snap'.waiters = snap.waiters \cup {r}
  BY <1>0 DEF JoinSnapshot, Joined, Snap
<1>2. req'[r].pc = "await" /\ \A q \in snap.waiters \ {r} : req'[q] = req[q]
  BY <1>0 DEF Req, Alone, Snap
<1>3. SnapShape /\ (snap.pc = "idle" => snap.over = {} /\ snap.breach = {})
  BY DEF Shapes, SnapShape, IdleSnap
<1>4. \A q \in snap'.waiters : req'[q].pc = "await"
  BY <1>1, <1>2, <1>3 DEF SnapShape
<1> HIDE DEF SnapShape
<1>5. CASE snap.pc = "idle"
  <2>1. snap'.pc = "query" /\ snap'.over = {} /\ snap'.breach = {}
    BY <1>1, <1>3, <1>5
  <2>2. \A c \in Clients : snap'.quota[c] = NoLimit
    BY <1>1, <1>3, <1>5 DEF SnapShape
  <2> QED  BY <2>1, <2>2, <1>4 DEF SnapShape
<1>6. CASE snap.pc # "idle"
  BY <1>1, <1>3, <1>4, <1>6 DEF SnapShape
<1> QED  BY <1>5, <1>6

LEMMA ShapesKept ==
    ASSUME TypeInv, Shapes, [Next]_vars
    PROVE  Shapes'
<1>0. SnapShape /\ SyncShape' /\ \A r \in Requests : ReqShape(req[r])
  BY SyncShapes DEF Shapes
<1>1. ASSUME UNCHANGED <<snap, req>> PROVE Shapes'
  BY <1>0, <1>1 DEF Shapes, SnapShape
<1>2. CASE ApiRestart
  <2>1. SnapShape'
    BY <1>2 DEF ApiRestart, SnapShape, IdleSnap
  <2> QED  BY <1>0, <1>2, <2>1, IdleShape DEF ApiRestart, Shapes
<1>3. CASE SnapTimer \/ SnapStep
  BY <1>0, <1>3, SnapShapes DEF Shapes
\* A request leaves the waiters alone, of which it is none.
<1>4. ASSUME NEW r \in Requests, Alone(r), ReqShape(req'[r]), req[r].pc # "await", UNCHANGED snap
      PROVE  Shapes'
  <2>1. \A q \in Requests : ReqShape(req'[q])
    BY <1>0, <1>4 DEF Alone
  <2>2. \A q \in snap.waiters : req'[q] = req[q]
    BY <1>0, <1>4 DEF Alone, SnapShape, TypeInv, TypeOK, Snap
  <2>3. SnapShape'
    BY <1>0, <1>4, <2>2 DEF SnapShape
  <2> QED  BY <1>0, <2>1, <2>3 DEF Shapes
<1>5. ASSUME NEW r \in Requests, Arrive(r) PROVE Shapes'
  <2>1. req[r].pc = "idle" /\ UNCHANGED snap
    BY <1>5 DEF Arrive, Create, ReadClient, ReadClients, SyncEndpoint, Submit, taskVars
  <2> QED  BY <1>0, <1>4, <1>5, <2>1, ArriveShape
<1>6. ASSUME NEW r \in Requests, ReqStep(r) PROVE Shapes'
  <2>1. Alone(r) /\ ReqShape(req'[r]) /\ req[r].pc # "await"
    BY <1>0, <1>6, StepShape
  <2>2. CASE UNCHANGED snap
    BY <1>4, <2>1, <2>2
  <2>3. CASE JoinSnapshot(r)
    <3>1. \A q \in Requests : ReqShape(req'[q])
      BY <1>0, <2>1 DEF Alone
    <3> QED  BY <1>0, <2>3, <3>1, JoinShape DEF Shapes
  <2>4. UNCHANGED snap \/ JoinSnapshot(r)
    BY <1>6 DEF ReqStep, SkipSnapshot, UpdateWrite, ExtendWrite, ExtendNothing, ResetWrite,
                ResetReread, RemoveWrite, ClientGone, DashboardPrime, ClientAdd, ClientReAdd,
                ClientDrop, ClientSyncFails, SweepRead, SweepWrite, SweepDrop, taskVars
  <2> QED  BY <2>2, <2>3, <2>4
<1>7. ASSUME NEW r \in Requests, ImportAct(r) PROVE Shapes'
  <2>1. UNCHANGED snap
    BY <1>7 DEF ImportAct, ImportStep, Import, ImportFind, ImportWrite, ImportThrows, ImportAdd,
                ImportReAdd, ImportDrop, ImportSyncFails, taskVars
  <2> QED  BY <1>0, <1>4, <1>7, <2>1, ImportShape
<1>8. CASE UNCHANGED vars
  BY <1>1, <1>8 DEF vars
<1>9. Environment => ApiRestart \/ UNCHANGED <<snap, req>>
  BY DEF Environment, Tick, XrayStart, XrayStop, Traffic
<1>10. Background => SnapTimer \/ SnapStep \/ UNCHANGED <<snap, req>>
  BY DEF Background, SyncStep, SyncRead, SyncAdd, SyncReAdd, SyncDrop, SyncFails,
         EnsureSample, EnsureDecide, Probe, SummaryFails
<1> QED
  BY <1>1, <1>2, <1>3, <1>5, <1>6, <1>7, <1>8, <1>9, <1>10 DEF Next, ImportAct

LEMMA ShapesAlways == Spec => []Shapes
<1>1. Init => Shapes
  <2> SUFFICES ASSUME Init PROVE Shapes
    OBVIOUS
  <2>1. SnapShape /\ SyncShape
    BY DEF Init, SnapShape, SyncShape, IdleSnap, IdleSync
  <2> QED  BY <2>1, IdleShape DEF Init, Shapes
<1>2. TypeInv /\ Shapes /\ [Next]_vars => Shapes'
  BY ShapesKept
<1> QED  BY <1>1, <1>2, TypeInvCorrect, PTL DEF Spec

-------------------------------------------------------------------------------
(* Drift: what is true of a client with no cause for being out of step.    *)

\* A row is served, from t on, like the stored one.
Serves(held, row, t) == \A s \in Nat : s >= t => (Servable(held, s) <=> Servable(row, s))

\* A client is served as its row says, or is between its removal and its return.
Matches(c, row, served, t) == c \in served <=> Servable(row, t)
Returns(c, row, served, t) == c \notin served /\ Servable(row, t)

\* HeldByRequest of the record of a request.
Holds(q, c) == \/ q.pc # "idle" /\ q.c = c /\ q.op # "list"
               \/ c \in q.todo \/ Stored(q.rows[c])

\* A request finds its client in step, and leaves it so until it writes it; then
\* what it is to apply is served like the row. What it has found overdue is out.
ReqForm(q, c, row, served, t) ==
    /\ q.pc \in {"snap", "await", "write"} /\ q.c = c /\ q.op # "list" => Matches(c, row, served, t)
    /\ q.pc \in {"find", "importWrite"} /\ c \in q.todo => Matches(c, row, served, t)
    /\ q.pc \in {"sweepWrite", "sweep"} /\ c \in q.todo => c \notin served /\ IsExpired(row, t)
    /\ q.pc = "reread" /\ q.c = c => Stored(row)
    /\ q.pc = "sync" /\ q.c = c => Serves(q.row, row, t)
    /\ q.pc = "readd" /\ q.c = c => Returns(c, row, served, t)
    /\ Stored(q.rows[c]) =>
          IF q.pc = "importSync" /\ c \in q.todo THEN Returns(c, row, served, t)
          ELSE Serves(q.rows[c], row, t)

\* A snapshot has its clients in step but for the one it is removing, which it
\* has blocked, or which was not ACTIVE.
SnapForm(s, c, row, served, t) == c \in s.tags =>
    /\ (s.pc \in {"quotaDrop", "accessDrop"} /\ s.cur = c) \/ Matches(c, row, served, t)
    /\ s.pc = "quotaDrop" /\ s.cur = c => row.status = "BLOCKED"
    /\ s.pc = "accessDrop" /\ s.cur = c => row.status # "ACTIVE"
    /\ c \in s.breach /\ row.status = "ACTIVE" => c \in s.active

\* A full synchronisation has rows that are served like those stored, of clients
\* in step but for the one that is to return.
PassForm(p, c, row, served, t) == c \in p.todo =>
    /\ Serves(p.rows[c], row, t)
    /\ IF p.pc = "readd" /\ p.cur = c THEN Returns(c, row, served, t) ELSE Matches(c, row, served, t)

Undrifted(c) ==
    /\ ~Contended(c)
    /\ Quiet(c) => InStep(c)
    /\ \A r \in Requests : ReqForm(req[r], c, db[c], users, now)
    /\ SnapForm(snap, c, db[c], users, now)
    /\ PassForm(sync, c, db[c], users, now)

DriftForm == \A c \in Clients : c \notin drift => Undrifted(c)

-------------------------------------------------------------------------------
(* Drift: steps that do not matter, and tasks that do not act.             *)

\* Nothing that matters of a client is changed.
Alike(c, row, served, t, row2, served2, t2) ==
    /\ c \in served2 <=> c \in served
    /\ t2 >= t
    /\ Stored(row) => Stored(row2)
    /\ row2.status = row.status \/ (row.status = "ACTIVE" /\ row2.status = "EXPIRED")
    /\ IsExpired(row, t) => IsExpired(row2, t2)
    /\ Servable(row2, t2) <=> Servable(row, t)
    /\ \A s \in Nat : s >= t2 => (Servable(row2, s) <=> Servable(row, s))
AlikeStep(c) == Alike(c, db[c], users, now, db'[c], users', now')

LEMMA AlikeWhenKept ==
    ASSUME TypeOK, TypeOK', NEW c \in Clients, db'[c] = db[c], c \in users' <=> c \in users,
           now' = now \/ (now' = now + 1 /\ ~Expires(c))
    PROVE  AlikeStep(c)
<1>1. db[c] \in Row /\ now \in Nat /\ now' \in Nat /\ now <= now'
  BY DEF TypeOK
<1>2. IsExpired(db[c], now) => IsExpired(db[c], now')
  BY <1>1 DEF IsExpired, Row, Date
<1>3. Servable(db[c], now') <=> Servable(db[c], now)
  BY <1>1, Lapses
<1> QED  BY <1>1, <1>2, <1>3 DEF AlikeStep, Alike

\* A row that is overdue is not served, whether or not it is marked.
LEMMA AlikeWhenMarked ==
    ASSUME TypeOK, NEW c \in Clients, db[c].status = "ACTIVE", IsExpired(db[c], now),
           db'[c] = [db[c] EXCEPT !.status = "EXPIRED"], UNCHANGED <<now, users>>
    PROVE  AlikeStep(c)
<1>1. db[c] \in Row /\ now \in Nat
  BY DEF TypeOK
<1>2. db'[c].status = "EXPIRED" /\ db'[c].expiresAt = db[c].expiresAt /\ db'[c].vless = db[c].vless
  BY <1>1 DEF Row
<1>3. \A s \in Nat : s >= now => IsExpired(db[c], s) /\ IsExpired(db'[c], s)
  BY <1>1, <1>2 DEF IsExpired, Row, Date
<1>4. \A s \in Nat : s >= now => ~Servable(db[c], s) /\ ~Servable(db'[c], s)
  BY <1>2, <1>3 DEF Servable, EffectiveStatus
<1> QED  BY <1>1, <1>2, <1>3, <1>4 DEF AlikeStep, Alike, Stored, ClientStatus

LEMMA ReqFormKept ==
    ASSUME NEW q, NEW c, NEW row, NEW served, NEW t, NEW row2, NEW served2, NEW t2,
           Alike(c, row, served, t, row2, served2, t2), ReqForm(q, c, row, served, t),
           t \in Nat, t2 \in Nat
    PROVE  ReqForm(q, c, row2, served2, t2)
<1>1. Matches(c, row, served, t) => Matches(c, row2, served2, t2)
  BY DEF Alike, Matches
<1>2. Returns(c, row, served, t) => Returns(c, row2, served2, t2)
  BY DEF Alike, Returns
<1>3. \A held : Serves(held, row, t) => Serves(held, row2, t2)
  <2> SUFFICES ASSUME NEW held, Serves(held, row, t), NEW s \in Nat, s >= t2
               PROVE  Servable(held, s) <=> Servable(row2, s)
    BY DEF Serves
  <2>1. s >= t
    BY DEF Alike
  <2> QED  BY <2>1 DEF Serves, Alike
<1> QED  BY <1>1, <1>2, <1>3 DEF ReqForm, Alike

LEMMA ReqFormFree ==
    ASSUME NEW q, NEW c \in Clients, ReqShape(q), ~Holds(q, c), NEW row, NEW served, NEW t
    PROVE  ReqForm(q, c, row, served, t)
  BY DEF Holds, ReqForm, ReqShape

LEMMA SnapFormKept ==
    ASSUME NEW s, NEW c, NEW row, NEW served, NEW t, NEW row2, NEW served2, NEW t2,
           Alike(c, row, served, t, row2, served2, t2), SnapForm(s, c, row, served, t)
    PROVE  SnapForm(s, c, row2, served2, t2)
  BY DEF SnapForm, Alike, Matches

LEMMA PassFormKept ==
    ASSUME NEW p, NEW c, NEW row, NEW served, NEW t, NEW row2, NEW served2, NEW t2,
           Alike(c, row, served, t, row2, served2, t2), PassForm(p, c, row, served, t),
           t \in Nat, t2 \in Nat
    PROVE  PassForm(p, c, row2, served2, t2)
<1>1. Serves(p.rows[c], row, t) => Serves(p.rows[c], row2, t2)
  <2> SUFFICES ASSUME Serves(p.rows[c], row, t), NEW s \in Nat, s >= t2
               PROVE  Servable(p.rows[c], s) <=> Servable(row2, s)
    BY DEF Serves
  <2>1. s >= t
    BY DEF Alike
  <2> QED  BY <2>1 DEF Serves, Alike
<1> QED  BY <1>1 DEF PassForm, Alike, Matches, Returns

LEMMA HeldHolds ==
    \A r \in Requests, c \in Clients : /\ HeldByRequest(r, c) <=> Holds(req[r], c)
                                       /\ HeldByRequest(r, c)' <=> Holds(req'[r], c)
  BY DEF HeldByRequest, Holds

\* The other tasks, when one request acts on what it holds.
LEMMA RequestMoves ==
    ASSUME TypeInv, TypeInv', Shapes, NEW c \in Clients, Undrifted(c), ~Contended(c)',
           NEW r \in Requests, Alone(r), UNCHANGED <<snap, sync>>,
           ReqForm(req'[r], c, db'[c], users', now'),
           AlikeStep(c) \/ Holds(req[r], c) \/ Holds(req'[r], c),
           Holds(req[r], c) /\ ~Holds(req'[r], c) => InStep(c)'
    PROVE  Undrifted(c)'
<1>0. now \in Nat /\ now' \in Nat
  BY DEF TypeInv, TypeOK
<1>1. AlikeStep(c) \/ HeldByRequest(r, c) \/ HeldByRequest(r, c)'
  BY HeldHolds
<1>2. ASSUME NEW q \in Requests PROVE ReqForm(req'[q], c, db'[c], users', now')
  <2>1. CASE q = r
    BY <2>1
  <2>2. CASE q # r /\ AlikeStep(c)
    BY <1>0, <2>2, ReqFormKept DEF AlikeStep, Alone, Undrifted
  <2>3. CASE q # r /\ ~AlikeStep(c)
    <3>1. req'[q] = req[q] /\ (HeldByRequest(q, c)' <=> HeldByRequest(q, c))
      BY <2>3 DEF Alone, HeldByRequest
    <3>2. ~HeldByRequest(q, c)
      BY <1>1, <2>3, <3>1 DEF Undrifted, Contended
    <3> QED  BY <3>1, <3>2, HeldHolds, ReqFormFree DEF Shapes
  <2> QED  BY <2>1, <2>2, <2>3
<1>3. SnapForm(snap', c, db'[c], users', now')
  <2>1. CASE AlikeStep(c)
    BY <2>1, SnapFormKept DEF AlikeStep, Undrifted
  <2>2. CASE ~AlikeStep(c)
    <3>1. ~HeldBySnap(c)
      BY <1>1, <2>2 DEF Undrifted, Contended, HeldBySnap
    <3> QED  BY <3>1 DEF HeldBySnap, SnapForm
  <2> QED  BY <2>1, <2>2
<1>4. PassForm(sync', c, db'[c], users', now')
  <2>1. CASE AlikeStep(c)
    BY <1>0, <2>1, PassFormKept DEF AlikeStep, Undrifted
  <2>2. CASE ~AlikeStep(c)
    <3>1. ~HeldBySync(c)
      BY <1>1, <2>2 DEF Undrifted, Contended, HeldBySync
    <3> QED  BY <3>1 DEF HeldBySync, PassForm
  <2> QED  BY <2>1, <2>2
<1>5. ASSUME Quiet(c)' PROVE InStep(c)'
  <2>1. \A q \in Requests \ {r} : ~HeldByRequest(q, c)
    BY <1>5 DEF Quiet, HeldByRequest, Alone
  <2>2. ~HeldBySnap(c) /\ ~HeldBySync(c) /\ ~HeldByRequest(r, c)'
    BY <1>5 DEF Quiet, HeldBySnap, HeldBySync
  <2>3. CASE HeldByRequest(r, c)
    BY <2>2, <2>3, HeldHolds
  <2>4. CASE ~HeldByRequest(r, c)
    <3>1. InStep(c) /\ AlikeStep(c)
      BY <1>1, <2>1, <2>2, <2>4 DEF Quiet, Undrifted
    <3> QED  BY <3>1 DEF InStep, AlikeStep, Alike
  <2> QED  BY <2>3, <2>4
<1> QED  BY <1>2, <1>3, <1>4, <1>5 DEF Undrifted

\* A client that a task takes up is in step: nobody held it.
LEMMA RequestTakes ==
    ASSUME NEW c \in Clients, Undrifted(c), ~Contended(c)', NEW r \in Requests, Alone(r),
           UNCHANGED <<snap, sync>>, ~Holds(req[r], c), Holds(req'[r], c)
    PROVE  InStep(c)
<1>1. ~HeldByRequest(r, c) /\ HeldByRequest(r, c)'
  BY HeldHolds
<1>2. \A q \in Requests \ {r} : ~HeldByRequest(q, c)
  BY <1>1 DEF Contended, HeldByRequest, Alone
<1>3. ~HeldBySnap(c) /\ ~HeldBySync(c)
  BY <1>1 DEF Contended, HeldBySnap, HeldBySync
<1> QED  BY <1>1, <1>2, <1>3 DEF Quiet, Undrifted

-------------------------------------------------------------------------------
(* Drift: the background tasks.                                            *)

\* The other tasks, when the snapshot acts on what it holds.
LEMMA SnapMoves ==
    ASSUME TypeInv, Shapes', NEW c \in Clients, Undrifted(c), ~Contended(c)',
           UNCHANGED <<sync, now>>,
           \A q \in Requests : /\ Holds(req'[q], c) <=> Holds(req[q], c)
                               /\ ReqForm(req'[q], c, db[c], users, now),
           SnapForm(snap', c, db'[c], users', now'),
           AlikeStep(c) \/ c \in snap.tags \/ c \in snap'.tags,
           c \in snap.tags /\ c \notin snap'.tags => InStep(c)'
    PROVE  Undrifted(c)'
<1>0. now \in Nat
  BY DEF TypeInv, TypeOK
<1>1. AlikeStep(c) \/ HeldBySnap(c) \/ HeldBySnap(c)'
  BY DEF HeldBySnap
<1>2. ASSUME NEW q \in Requests PROVE ReqForm(req'[q], c, db'[c], users', now')
  <2>1. CASE AlikeStep(c)
    BY <1>0, <2>1, ReqFormKept DEF AlikeStep
  <2>2. CASE ~AlikeStep(c)
    <3>1. ~HeldByRequest(q, c) \/ ~HeldByRequest(q, c)'
      BY <1>1, <2>2 DEF Undrifted, Contended
    <3>2. ~Holds(req'[q], c)
      BY <3>1, HeldHolds
    <3> QED  BY <3>2, ReqFormFree DEF Shapes
  <2> QED  BY <2>1, <2>2
<1>3. PassForm(sync', c, db'[c], users', now')
  <2>1. CASE AlikeStep(c)
    BY <1>0, <2>1, PassFormKept DEF AlikeStep, Undrifted
  <2>2. CASE ~AlikeStep(c)
    <3>1. ~HeldBySync(c)
      BY <1>1, <2>2 DEF Undrifted, Contended, HeldBySync
    <3> QED  BY <3>1 DEF HeldBySync, PassForm
  <2> QED  BY <2>1, <2>2
<1>4. ASSUME Quiet(c)' PROVE InStep(c)'
  <2>1. /\ \A q \in Requests : ~HeldByRequest(q, c)
        /\ ~HeldBySync(c) /\ ~HeldBySnap(c)'
    BY <1>4, HeldHolds DEF Quiet, HeldBySync
  <2>2. CASE c \in snap.tags
    BY <2>1, <2>2 DEF HeldBySnap
  <2>3. CASE c \notin snap.tags
    <3>1. InStep(c) /\ AlikeStep(c)
      BY <1>1, <2>1, <2>3 DEF Quiet, Undrifted, HeldBySnap
    <3> QED  BY <3>1 DEF InStep, AlikeStep, Alike
  <2> QED  BY <2>2, <2>3
<1> QED  BY <1>2, <1>3, <1>4 DEF Undrifted

\* The other tasks, when the synchronisation does, or none of them.
LEMMA SyncMoves ==
    ASSUME TypeInv, TypeInv', Shapes', NEW c \in Clients, Undrifted(c), ~Contended(c)',
           UNCHANGED <<req, snap>>, PassForm(sync', c, db'[c], users', now'),
           AlikeStep(c) \/ c \in sync.todo \/ c \in sync'.todo,
           c \in sync.todo /\ c \notin sync'.todo => InStep(c)'
    PROVE  Undrifted(c)'
<1>0. now \in Nat /\ now' \in Nat
  BY DEF TypeInv, TypeOK
<1>1. AlikeStep(c) \/ HeldBySync(c) \/ HeldBySync(c)'
  BY DEF HeldBySync
<1>2. ASSUME NEW q \in Requests PROVE ReqForm(req'[q], c, db'[c], users', now')
  <2>1. CASE AlikeStep(c)
    BY <1>0, <2>1, ReqFormKept DEF AlikeStep, Undrifted
  <2>2. CASE ~AlikeStep(c)
    <3>1. ~HeldByRequest(q, c)
      BY <1>1, <2>2 DEF Undrifted, Contended, HeldByRequest
    <3>2. ~Holds(req'[q], c)
      BY <3>1, HeldHolds
    <3> QED  BY <3>2, ReqFormFree DEF Shapes
  <2> QED  BY <2>1, <2>2
<1>3. SnapForm(snap', c, db'[c], users', now')
  <2>1. CASE AlikeStep(c)
    BY <2>1, SnapFormKept DEF AlikeStep, Undrifted
  <2>2. CASE ~AlikeStep(c)
    <3>1. ~HeldBySnap(c)
      BY <1>1, <2>2 DEF Undrifted, Contended, HeldBySnap
    <3> QED  BY <3>1 DEF HeldBySnap, SnapForm
  <2> QED  BY <2>1, <2>2
<1>4. ASSUME Quiet(c)' PROVE InStep(c)'
  <2>1. /\ \A q \in Requests : ~HeldByRequest(q, c)
        /\ ~HeldBySnap(c) /\ ~HeldBySync(c)'
    BY <1>4 DEF Quiet, HeldByRequest, HeldBySnap
  <2>2. CASE c \in sync.todo
    BY <2>1, <2>2 DEF HeldBySync
  <2>3. CASE c \notin sync.todo
    <3>1. InStep(c) /\ AlikeStep(c)
      BY <1>1, <2>1, <2>3 DEF Quiet, Undrifted, HeldBySync
    <3> QED  BY <3>1 DEF InStep, AlikeStep, Alike
  <2> QED  BY <2>2, <2>3
<1> QED  BY <1>2, <1>3, <1>4 DEF Undrifted

\* A request that awaited the snapshot finds its client as before.
LEMMA SettledForm ==
    ASSUME TypeInv, Shapes, NEW c \in Clients, Undrifted(c), NEW r \in Requests
    PROVE  /\ Holds(Settled[r], c) <=> Holds(req[r], c)
           /\ ReqForm(Settled[r], c, db[c], users, now)
<1>1. req[r] \in Req /\ ReqShape(req[r]) /\ ReqForm(req[r], c, db[c], users, now)
  BY DEF TypeInv, TypeOK, Shapes, Undrifted
<1>2. CASE r \notin snap.waiters
  BY <1>1, <1>2 DEF Settled
<1>3. CASE r \in snap.waiters
  <2>1. req[r].pc = "await" /\ ~Stored(req[r].rows[c]) /\ c \notin req[r].todo
    BY <1>1, <1>3 DEF Shapes, SnapShape, ReqShape
  <2>2. CASE req[r].op = "list"
    <3>1. Settled[r] = IdleReq /\ ~Holds(req[r], c)
      BY <1>3, <2>1, <2>2 DEF Settled, Holds
    <3>2. ~Holds(IdleReq, c)
      BY NoneImported DEF Holds, IdleReq
    <3> QED  BY <3>1, <3>2, IdleShape, ReqFormFree
  <2>3. CASE req[r].op # "list"
    <3> DEFINE rec == [req[r] EXCEPT !.pc = "write"]
    <3>1. /\ Settled[r] = rec /\ rec.pc = "write" /\ rec.op = req[r].op /\ rec.c = req[r].c
          /\ rec.todo = req[r].todo /\ rec.rows = req[r].rows
      BY <1>1, <1>3, <2>3 DEF Settled, Req
    <3> HIDE DEF rec
    <3> QED  BY <1>1, <2>1, <2>3, <3>1 DEF Holds, ReqForm
  <2> QED  BY <2>2, <2>3
<1> QED  BY <1>2, <1>3

\* A snapshot in progress has what it holds in step, blocks whom it removes, and
\* leaves no one out of step but by a call that fails or an unblocked removal.
LEMMA SnapDrift ==
    ASSUME TypeInv, TypeInv', Shapes, Shapes', NEW c \in Clients, Undrifted(c), ~DriftCause(c),
           SnapTimer \/ SnapStep
    PROVE  Undrifted(c)'
<1> DEFINE Busy == snap.pc \in {"quotaDrop", "accessDrop"} /\ snap.cur = c
<1>0. /\ snap \in Snap /\ snap.tags \subseteq Clients /\ db \in [Clients -> Row] /\ now \in Nat
      /\ db[c] \in Row /\ users \subseteq Clients
      /\ TypeOK /\ TypeOK' /\ SnapShape /\ SnapShape'
      /\ ~Contended(c)' /\ up' = up /\ faults' = faults
  BY DEF TypeInv, TypeOK, Snap, Shapes, DriftCause
<1>1. /\ c \in snap.tags => Busy \/ Matches(c, db[c], users, now)
      /\ c \in snap.tags /\ c \in snap.breach /\ db[c].status = "ACTIVE" => c \in snap.active
  BY DEF Undrifted, SnapForm
<1>2. UNCHANGED <<sync, now>> /\ (req' = req \/ req' = Settled)
  BY DEF SnapTimer, SnapStep, SnapQuery, SnapQueryFails, SnapClients, SnapRecord,
         SnapRecordFails, SnapQuota, SnapUsage, SnapQuotaBlock, SnapQuotaBlockFails, SnapQuotaDrop,
         SnapAccessBlock, SnapAccessDrop, SnapDropFails, SnapEnd, SnapFail, envVars
<1>3. \A q \in Requests : /\ Holds(req'[q], c) <=> Holds(req[q], c)
                          /\ ReqForm(req'[q], c, db[c], users, now)
  BY <1>2, SettledForm DEF Undrifted
<1> HIDE DEF Busy
<1>4. ASSUME SnapForm(snap', c, db'[c], users', now'),
             AlikeStep(c) \/ c \in snap.tags \/ c \in snap'.tags,
             c \in snap.tags /\ c \notin snap'.tags => InStep(c)'
      PROVE  Undrifted(c)'
  BY <1>0, <1>2, <1>3, <1>4, SnapMoves
<1>5. ASSUME db'[c] = db[c], c \in users' <=> c \in users PROVE AlikeStep(c)
  BY <1>0, <1>2, <1>5, AlikeWhenKept
\* The snapshot goes on, and c is not the client it acts on.
<1>6. ASSUME db'[c] = db[c], c \in users' <=> c \in users, snap'.tags = snap.tags, ~Busy,
             snap'.pc \in {"quotaDrop", "accessDrop"} => snap'.cur # c,
             c \in snap'.breach /\ c \in snap.tags /\ db[c].status = "ACTIVE" => c \in snap'.active
      PROVE  Undrifted(c)'
  <2>1. SnapForm(snap', c, db'[c], users', now')
    BY <1>1, <1>2, <1>6 DEF SnapForm, Matches
  <2> QED  BY <1>4, <1>5, <1>6, <2>1
\* The snapshot ends, and c is in step.
<1>7. ASSUME UNCHANGED <<db, users>>, snap' = IdleSnap, ~Busy PROVE Undrifted(c)'
  <2>1. SnapForm(snap', c, db'[c], users', now') /\ snap'.tags = {}
    BY <1>7 DEF SnapForm, IdleSnap
  <2>2. c \in snap.tags => InStep(c)'
    BY <1>1, <1>2, <1>7 DEF Matches, InStep
  <2> QED  BY <1>4, <1>5, <1>7, <2>1, <2>2
<1>8. CASE SnapTimer
  <2>1. /\ snap'.tags = {} /\ snap.tags = {} /\ UNCHANGED <<db, users>>
    BY <1>0, <1>8 DEF SnapTimer, SnapShape, IdleSnap, dbVars, xrayVars
  <2>2. SnapForm(snap', c, db'[c], users', now')
    BY <2>1 DEF SnapForm
  <2> QED  BY <1>4, <1>5, <2>1, <2>2
<1>9. CASE SnapQuery
  <2>1. /\ snap'.pc = "clients" /\ snap.pc = "query" /\ snap'.breach = {} /\ UNCHANGED <<db, users>>
    BY <1>0, <1>9 DEF SnapQuery, Snap, SnapShape, dbVars
  <2>2. c \in snap.tags \/ c \in snap'.tags => Matches(c, db[c], users, now)
    <3>1. c \in snap.tags => Matches(c, db[c], users, now)
      BY <1>1, <2>1 DEF Busy
    <3>2. ASSUME c \notin snap.tags, c \in snap'.tags PROVE Quiet(c)
      <4>1. \A q \in Requests : ~HeldByRequest(q, c)'
        BY <1>0, <3>2 DEF Contended, HeldBySnap
      <4>2. ~HeldBySync(c)
        BY <1>0, <1>2, <3>2 DEF Contended, HeldBySnap, HeldBySync
      <4> QED  BY <1>3, <3>2, <4>1, <4>2, HeldHolds DEF Quiet, HeldBySnap
    <3> QED  BY <3>1, <3>2 DEF Undrifted, InStep, Matches
  <2>3. SnapForm(snap', c, db'[c], users', now')
    BY <1>2, <2>1, <2>2 DEF SnapForm
  <2> QED  BY <1>2, <1>4, <1>5, <2>1, <2>2, <2>3 DEF InStep, Matches
<1>10. CASE SnapQueryFails \/ SnapRecordFails \/ SnapEnd
  BY <1>7, <1>10 DEF SnapQueryFails, SnapRecordFails, SnapEnd, SnapFail, Busy, dbVars, xrayVars
<1>11. ASSUME NEW d \in Clients, SnapQuotaBlockFails(d) PROVE Undrifted(c)'
  BY <1>7, <1>11 DEF SnapQuotaBlockFails, SnapFail, Busy, dbVars, xrayVars
<1>12. CASE SnapClients
  <2>1. PICK over \in SUBSET Found :
          snap' = [snap EXCEPT !.pc     = "record",
                              !.seen   = Found,
                              !.active = {d \in over : db[d].status = "ACTIVE"},
                              !.breach = over]
    BY <1>12 DEF SnapClients
  <2>2. /\ snap'.pc = "record" /\ snap'.tags = snap.tags /\ snap'.breach = over
        /\ snap'.active = {d \in over : db[d].status = "ACTIVE"}
    BY <1>0, <2>1 DEF Snap
  <2>3. UNCHANGED <<db, users>> /\ ~Busy
    BY <1>12 DEF SnapClients, Busy, dbVars, xrayVars
  <2> QED  BY <1>6, <2>2, <2>3
<1>13. CASE SnapRecord \/ SnapQuota \/ SnapUsage
  <2>1. /\ snap'.pc \in {"access", "quota", "usage", "quotaLoop"} /\ snap'.tags = snap.tags
        /\ snap'.breach = snap.breach /\ snap'.active = snap.active
    BY <1>0, <1>13 DEF SnapRecord, SnapQuota, SnapUsage, AfterQuota, Snap
  <2>2. UNCHANGED <<db, users>> /\ ~Busy
    BY <1>13 DEF SnapRecord, SnapQuota, SnapUsage, Busy, dbVars, xrayVars
  <2> QED  BY <1>1, <1>6, <2>1, <2>2
<1>14. ASSUME NEW d \in Clients, SnapQuotaBlock(d) PROVE Undrifted(c)'
  <2>1. /\ snap'.pc = "quotaDrop" /\ snap'.tags = snap.tags /\ snap'.cur = d
        /\ snap'.breach = snap.breach /\ snap'.active = snap.active
    BY <1>0, <1>14 DEF SnapQuotaBlock, Snap
  <2>2. /\ ~Busy /\ d \in snap.tags /\ UNCHANGED users
        /\ db' = [db EXCEPT ![d].status = "BLOCKED"]
    BY <1>0, <1>14 DEF SnapQuotaBlock, Busy, SnapShape, xrayVars
  <2>3. CASE d # c
    BY <1>0, <1>1, <1>6, <2>1, <2>2, <2>3
  <2>4. CASE d = c
    <3>1. db'[c].status = "BLOCKED"
      BY <1>0, <2>2, <2>4 DEF Row
    <3>2. SnapForm(snap', c, db'[c], users', now')
      BY <2>1, <2>4, <3>1 DEF SnapForm
    <3> QED  BY <1>4, <2>1, <2>2, <2>4, <3>2
  <2> QED  BY <2>3, <2>4
<1>15. ASSUME NEW d \in Clients, SnapAccessBlock(d) PROVE Undrifted(c)'
  <2>1. /\ snap'.pc = "accessDrop" /\ snap'.tags = snap.tags /\ snap'.cur = d
        /\ snap'.breach = snap.breach /\ snap'.active = snap.active
    BY <1>0, <1>15 DEF SnapAccessBlock, Snap
  <2>2. /\ ~Busy /\ d \in snap.breach /\ d \in snap.tags /\ UNCHANGED users
        /\ db' = IF d \in snap.active /\ db[d].status = "ACTIVE"
                 THEN [db EXCEPT ![d].status = "BLOCKED"] ELSE db
    BY <1>0, <1>15 DEF SnapAccessBlock, Busy, SnapShape, xrayVars
  <2>3. CASE d # c
    BY <1>0, <1>1, <1>6, <2>1, <2>2, <2>3
  <2>4. CASE d = c
    <3>1. db'[c].status # "ACTIVE"
      BY <1>0, <1>1, <2>2, <2>4 DEF Row
    <3>2. SnapForm(snap', c, db'[c], users', now')
      BY <2>1, <2>4, <3>1 DEF SnapForm
    <3> QED  BY <1>4, <2>1, <2>2, <2>4, <3>2
  <2> QED  BY <2>3, <2>4
\* The removal of its client, which is in step then.
<1>16. ASSUME users' = users \ {snap.cur}, UNCHANGED db, snap'.tags = snap.tags,
              snap'.pc \in {"access", "quotaLoop"}, snap'.breach \subseteq snap.breach,
              snap'.active = snap.active, snap.pc \in {"quotaDrop", "accessDrop"},
              snap.cur = c => ~Servable(db[c], now)
       PROVE  Undrifted(c)'
  <2>1. CASE snap.cur # c
    BY <1>1, <1>6, <1>16, <2>1 DEF Busy
  <2>2. CASE snap.cur = c
    <3>1. c \in snap.tags
      BY <1>0, <1>16, <2>2 DEF SnapShape
    <3>2. SnapForm(snap', c, db'[c], users', now')
      BY <1>1, <1>2, <1>16, <2>2 DEF SnapForm, Matches
    <3> QED  BY <1>4, <1>16, <3>1, <3>2
  <2> QED  BY <2>1, <2>2
<1>17. CASE SnapQuotaDrop
  <2> DEFINE left == snap.over \ {snap.cur}
  <2>1. /\ snap'.pc = AfterQuota(left) /\ snap'.tags = snap.tags
        /\ snap'.breach = snap.breach /\ snap'.active = snap.active
    BY <1>0, <1>17 DEF SnapQuotaDrop, Snap
  <2>2. snap.pc = "quotaDrop" /\ users' = users \ {snap.cur} /\ UNCHANGED db
    BY <1>17 DEF SnapQuotaDrop, DropUser, dbVars
  <2>3. ASSUME snap.cur = c PROVE ~Servable(db[c], now)
    <3>1. db[c].status = "BLOCKED"
      BY <1>0, <2>2, <2>3 DEF Undrifted, SnapForm, SnapShape
    <3> QED  BY <3>1 DEF Servable, EffectiveStatus
  <2> HIDE DEF left
  <2> QED  BY <1>16, <2>1, <2>2, <2>3 DEF AfterQuota
<1>18. CASE SnapAccessDrop
  <2>1. /\ snap'.pc = "access" /\ snap'.tags = snap.tags
        /\ snap'.breach = snap.breach \ {snap.cur} /\ snap'.active = snap.active
    BY <1>0, <1>18 DEF SnapAccessDrop, Snap
  <2>2. snap.pc = "accessDrop" /\ users' = users \ {snap.cur} /\ UNCHANGED db
    BY <1>18 DEF SnapAccessDrop, DropUser, dbVars
  <2>3. ASSUME snap.cur = c PROVE ~Servable(db[c], now)
    <3>1. db[c].status # "ACTIVE"
      BY <1>0, <2>2, <2>3 DEF Undrifted, SnapForm, SnapShape
    <3>2. db[c].status = "EXPIRED" => IsExpired(db[c], now)
      BY <1>18, <2>3 DEF DriftCause, Unblocked
    <3> QED  BY <3>1, <3>2 DEF Servable, EffectiveStatus, Stored, ClientStatus
  <2> QED  BY <1>16, <2>1, <2>2, <2>3
<1>19. CASE SnapDropFails
  <2>1. UNCHANGED <<db, users>> /\ snap' = IdleSnap /\ CallFails
    BY <1>19 DEF SnapDropFails, UserCallFails, SnapFail, dbVars
  <2>2. ~Busy
    <3>1. ASSUME Busy PROVE CallLost(c)
      BY <2>1, <3>1 DEF Busy, CallLost, IdleSnap
    <3>2. CASE up
      BY <1>0, <2>1, <3>2 DEF CallFails, Fault, TypeOK
    <3>3. CASE ~up
      BY <3>1, <3>3 DEF DriftCause
    <3> QED  BY <3>2, <3>3
  <2> QED  BY <1>7, <2>1, <2>2
<1> QED
  BY <1>8, <1>9, <1>10, <1>11, <1>12, <1>13, <1>14, <1>15, <1>17, <1>18, <1>19 DEF SnapStep

\* A full synchronisation takes up clients in step, brings each to its row, and
\* leaves one out of step only by a call that fails.
LEMMA SyncDrift ==
    ASSUME TypeInv, TypeInv', Shapes, Shapes', NEW c \in Clients, Undrifted(c), ~DriftCause(c),
           SyncStep
    PROVE  Undrifted(c)'
<1>0. /\ sync \in Sync /\ sync.todo \subseteq Clients /\ now \in Nat
      /\ TypeOK /\ TypeOK' /\ SyncShape
      /\ ~Contended(c)' /\ up' = up /\ faults' = faults
  BY DEF TypeInv, TypeOK, Sync, Shapes, DriftCause
<1>1. c \in sync.todo =>
        /\ Serves(sync.rows[c], db[c], now)
        /\ IF sync.pc = "readd" /\ sync.cur = c THEN Returns(c, db[c], users, now)
           ELSE Matches(c, db[c], users, now)
  BY DEF Undrifted, PassForm
<1>2. UNCHANGED <<db, now, req, snap>>
  BY DEF SyncStep, SyncRead, SyncAdd, SyncReAdd, SyncDrop, SyncFails, dbVars, envVars
<1>3. (c \in users' <=> c \in users) => AlikeStep(c)
  BY <1>0, <1>2, AlikeWhenKept
<1>4. ASSUME PassForm(sync', c, db'[c], users', now'),
             (c \in users' <=> c \in users) \/ c \in sync.todo,
             c \in sync.todo /\ c \notin sync'.todo => InStep(c)'
      PROVE  Undrifted(c)'
  BY <1>0, <1>2, <1>3, <1>4, SyncMoves
<1>5. c \in sync.todo => (Servable(sync.rows[c], now) <=> Servable(db[c], now))
  BY <1>0, <1>1 DEF Serves
\* A visit of d, done with it or about to re-add it.
<1>6. ASSUME NEW d \in sync.todo, sync' = SyncDone(sync.todo \ {d}),
             \A e \in Clients \ {d} : e \in users' <=> e \in users,
             d = c => InStep(c)', sync.pc = "loop" \/ sync.cur = d
      PROVE  Undrifted(c)'
  <2>1. /\ sync'.todo = sync.todo \ {d}
        /\ c \in sync'.todo => sync'.rows = sync.rows /\ sync'.pc = "loop"
    <3>1. CASE sync.todo \ {d} = {}
      BY <1>6, <3>1 DEF SyncDone, IdleSync
    <3>2. CASE sync.todo \ {d} # {}
      BY <1>0, <1>6, <3>2 DEF SyncDone, Sync
    <3> QED  BY <3>1, <3>2
  <2>2. PassForm(sync', c, db'[c], users', now')
    BY <1>1, <1>2, <1>6, <2>1 DEF PassForm, Matches
  <2> QED  BY <1>4, <1>6, <2>1, <2>2
<1>7. CASE SyncRead
  <2>1. sync.todo = {} /\ UNCHANGED users
    BY <1>0, <1>7 DEF SyncRead, SyncShape, xrayVars
  <2>2. ASSUME c \in sync'.todo PROVE PassForm(sync', c, db'[c], users', now')
    <3>1. sync' = [sync EXCEPT !.pc = "loop", !.rows = db, !.todo = {d \in Clients : Stored(db[d])}]
      BY <1>7, <2>2 DEF SyncRead, IdleSync
    <3>2. sync'.pc = "loop" /\ sync'.rows = db
      BY <1>0, <3>1 DEF Sync
    <3>3. Quiet(c)
      <4>1. \A q \in Requests : ~HeldByRequest(q, c)'
        BY <1>0, <2>2 DEF Contended, HeldBySync
      <4>2. ~HeldBySnap(c)
        BY <1>0, <1>2, <2>2 DEF Contended, HeldBySnap, HeldBySync
      <4> QED  BY <1>2, <2>1, <4>1, <4>2 DEF Quiet, HeldBySync, HeldByRequest
    <3> QED  BY <1>2, <2>1, <3>2, <3>3 DEF Undrifted, InStep, PassForm, Serves, Matches
  <2>3. PassForm(sync', c, db'[c], users', now')
    BY <2>2 DEF PassForm
  <2> QED  BY <1>4, <2>1, <2>3
<1>8. ASSUME NEW d \in Clients, SyncAdd(d) PROVE Undrifted(c)'
  <2>1. sync.pc = "loop" /\ d \in sync.todo /\ Servable(sync.rows[d], now)
    BY <1>8 DEF SyncAdd
  <2>2. CASE AddUser(d) /\ sync' = SyncDone(sync.todo \ {d})
    <3>1. d = c => InStep(c)'
      BY <1>2, <1>5, <2>1, <2>2 DEF AddUser, InStep
    <3> QED  BY <1>6, <2>1, <2>2, <3>1 DEF AddUser
  <2>3. CASE ReplaceUser(d) /\ sync' = [sync EXCEPT !.pc = "readd", !.cur = d]
    <3>1. /\ sync'.pc = "readd" /\ sync'.cur = d
          /\ sync'.todo = sync.todo /\ sync'.rows = sync.rows
      BY <1>0, <2>3 DEF Sync
    <3>2. users' = users \ {d}
      BY <2>3 DEF ReplaceUser, DropUser
    <3>3. PassForm(sync', c, db'[c], users', now')
      BY <1>1, <1>2, <1>5, <2>1, <3>1, <3>2 DEF PassForm, Matches, Returns
    <3> QED  BY <1>4, <2>1, <3>1, <3>2, <3>3
  <2> QED  BY <1>8, <2>2, <2>3 DEF SyncAdd
<1>9. CASE SyncReAdd
  <2> DEFINE d == sync.cur
  <2>1. sync.pc = "readd" /\ d \in sync.todo /\ users' = users \cup {d}
        /\ sync' = SyncDone(sync.todo \ {d})
    BY <1>0, <1>9 DEF SyncReAdd, SyncShape, AddUser
  <2>2. d = c => InStep(c)'
    BY <1>1, <1>2, <2>1 DEF Returns, InStep
  <2> QED  BY <1>6, <2>1, <2>2
<1>10. ASSUME NEW d \in Clients, SyncDrop(d) PROVE Undrifted(c)'
  <2>1. /\ sync.pc = "loop" /\ d \in sync.todo /\ ~Servable(sync.rows[d], now)
        /\ users' = users \ {d} /\ sync' = SyncDone(sync.todo \ {d})
    BY <1>10 DEF SyncDrop, DropUser
  <2>2. d = c => InStep(c)'
    BY <1>2, <1>5, <2>1 DEF InStep
  <2> QED  BY <1>6, <2>1, <2>2
<1>11. CASE SyncFails
  <2>1. sync' = IdleSync /\ UNCHANGED users /\ sync'.todo = {} /\ sync'.pc = "idle"
    BY <1>11 DEF SyncFails, UserCallFails, ReAddFails, IdleSync
  <2>2. PassForm(sync', c, db'[c], users', now')
    BY <2>1 DEF PassForm
  <2>3. ASSUME c \in sync.todo PROVE InStep(c)
    <3>1. CASE sync.pc = "readd" /\ sync.cur = c
      <4>1. c \notin users /\ CallFails
        BY <1>1, <1>11, <2>3, <3>1 DEF SyncFails, Returns, ReAddFails, UserCallFails
      <4>2. CallLost(c)
        BY <2>1, <3>1 DEF CallLost
      <4>3. ~up
        BY <1>0, <4>1 DEF CallFails, Fault, TypeOK
      <4> QED  BY <4>2, <4>3 DEF DriftCause
    <3>2. CASE ~(sync.pc = "readd" /\ sync.cur = c)
      BY <1>1, <2>3, <3>2 DEF Matches, InStep
    <3> QED  BY <3>1, <3>2
  <2> QED  BY <1>2, <1>4, <2>1, <2>2, <2>3 DEF InStep
<1> QED  BY <1>7, <1>8, <1>9, <1>10, <1>11 DEF SyncStep

\* No task acts, or one asks for a synchronisation.
LEMMA RestDrift ==
    ASSUME TypeInv, TypeInv', Shapes, Shapes', NEW c \in Clients, Undrifted(c), ~DriftCause(c),
           \/ Environment \/ EnsureSample \/ EnsureDecide \/ Probe
           \/ \E r \in Requests : SyncEndpoint(r)
    PROVE  Undrifted(c)'
<1>0. /\ sync \in Sync /\ TypeOK /\ TypeOK' /\ SyncShape
      /\ ~Contended(c)' /\ up' = up /\ faults' = faults /\ ~Expires(c)
  BY DEF TypeInv, TypeOK, Shapes, DriftCause
<1>1. ~XrayStart /\ ~XrayStop /\ ~ApiRestart
  BY <1>0 DEF XrayStart, XrayStop, ApiRestart, Fault, TypeOK
<1>2. UNCHANGED <<req, snap, db, users>> /\ (now' = now \/ now' = now + 1)
      /\ (UNCHANGED sync \/ JoinSync)
  BY <1>1 DEF Environment, Tick, Traffic, EnsureSample, EnsureDecide, Probe, SummaryFails,
              SyncEndpoint, dbVars, xrayVars, envVars
<1>3. AlikeStep(c)
  BY <1>0, <1>2, AlikeWhenKept
<1>4. sync'.todo = sync.todo /\ PassForm(sync', c, db'[c], users', now')
  <2>1. CASE UNCHANGED sync
    BY <1>0, <1>3, <2>1, PassFormKept DEF AlikeStep, Undrifted, TypeOK
  <2>2. CASE ~UNCHANGED sync
    <3>1. sync.pc = "idle" /\ sync' = [sync EXCEPT !.pc = "read"]
      BY <1>2, <2>2 DEF JoinSync
    <3>2. sync'.todo = {} /\ sync.todo = {}
      BY <1>0, <3>1 DEF Sync, SyncShape
    <3> QED  BY <3>2 DEF PassForm
  <2> QED  BY <2>1, <2>2
<1> QED  BY <1>0, <1>2, <1>3, <1>4, SyncMoves

-------------------------------------------------------------------------------
(* Drift: the requests on one client.                                      *)

\* A request that has nothing left to do with c.
LEMMA RequestLetsGo ==
    ASSUME TypeInv, TypeInv', Shapes, Shapes', NEW c \in Clients, Undrifted(c), ~Contended(c)',
           NEW r \in Requests, Alone(r), UNCHANGED <<snap, sync>>, ~Holds(req'[r], c),
           IF Holds(req[r], c) THEN InStep(c)' ELSE AlikeStep(c)
    PROVE  Undrifted(c)'
<1>1. ReqForm(req'[r], c, db'[c], users', now')
  BY ReqFormFree DEF Shapes
<1> QED  BY <1>1, RequestMoves

\* What a request that names its client owes it.
Owes(q, c, row, served, t) ==
    /\ q.pc \in {"snap", "await", "write"} => Matches(c, row, served, t)
    /\ q.pc = "reread" => Stored(row)
    /\ q.pc = "sync" => Serves(q.row, row, t)
    /\ q.pc = "readd" => Returns(c, row, served, t)

LEMMA NamingForm ==
    ASSUME NEW q, ReqShape(q), q.op \in Naming, NEW c \in Clients, NEW row, NEW served, NEW t
    PROVE  /\ Holds(q, c) <=> q.c = c
           /\ ReqForm(q, c, row, served, t) <=> (q.c = c => Owes(q, c, row, served, t))
<1>1. q.todo = {} /\ ~Stored(q.rows[c]) /\ q.op # "list" /\ q.pc # "idle"
  BY DEF ReqShape, Naming
<1> QED  BY <1>1 DEF Holds, ReqForm, Owes

LEMMA ListForm ==
    ASSUME NEW q, ReqShape(q), q.op = "list", NEW c \in Clients, NEW row, NEW served, NEW t
    PROVE  /\ Holds(q, c) <=> c \in q.todo
           /\ ReqForm(q, c, row, served, t) <=> (c \in q.todo => c \notin served /\ IsExpired(row, t))
<1>1. /\ ~Stored(q.rows[c]) /\ q.pc \in {"idle", "sweepRead", "sweepWrite", "sweep", "snap", "await"}
      /\ q.todo # {} => q.pc \in {"sweepWrite", "sweep"}
  BY DEF ReqShape
<1> QED  BY <1>1 DEF Holds, ReqForm

\* What a step of such a request may touch, and where it leads.
LEMMA NamedNext ==
    ASSUME TypeInv, NEW r \in Requests, ReqShape(req[r]), req[r].op \in Naming,
           ReqStep(r), ~JoinSnapshot(r)
    PROVE  /\ UNCHANGED <<snap, sync, now>>
           /\ \/ req'[r].op = "list" /\ req'[r].todo = {}
              \/ req'[r].op = req[r].op /\ req'[r].c = req[r].c
           /\ \A c \in Clients \ {req[r].c} : db'[c] = db[c] /\ (c \in users' <=> c \in users)
<1> DEFINE q == req[r]
<1>0. /\ q \in Req /\ db \in [Clients -> Row] /\ req \in [Requests -> Req]
      /\ q.todo = {} /\ q.pc \notin {"sweepRead", "sweepWrite", "sweep"}
      /\ q.op \notin {"list", "dashboard"}
  BY DEF TypeInv, TypeOK, ReqShape, Naming
<1> DEFINE Leads == \/ req'[r].op = "list" /\ req'[r].todo = {}
                    \/ req'[r].op = q.op /\ req'[r].c = q.c
<1>1. ~SkipSnapshot(r) /\ ~DashboardPrime(r) /\ ~SweepRead(r) /\ ~SweepWrite(r)
      /\ \A c \in Clients : ~SweepDrop(r, c)
  BY <1>0 DEF SkipSnapshot, DashboardPrime, SweepRead, SweepWrite, SweepDrop
<1>2. \/ UpdateWrite(r) \/ ExtendWrite(r) \/ ExtendNothing(r) \/ ResetWrite(r) \/ ResetReread(r)
      \/ RemoveWrite(r) \/ ClientGone(r)
      \/ ClientAdd(r) \/ ClientReAdd(r) \/ ClientDrop(r) \/ ClientSyncFails(r)
  BY <1>1 DEF ReqStep
<1>3. UNCHANGED <<snap, sync, now>>
  BY <1>2 DEF UpdateWrite, ExtendWrite, ExtendNothing, ResetWrite, ResetReread, RemoveWrite,
              ClientGone, ClientAdd, ClientReAdd, ClientDrop, ClientSyncFails, taskVars, envVars
<1>4. \A c \in Clients \ {q.c} : db'[c] = db[c]
  BY <1>0, <1>2 DEF UpdateWrite, ExtendWrite, ExtendNothing, ResetWrite, ResetReread, RemoveWrite,
              ClientGone, ClientAdd, ClientReAdd, ClientDrop, ClientSyncFails, StoreAndSync, dbVars
<1>5. \A c \in Clients \ {q.c} : c \in users' <=> c \in users
  BY <1>2 DEF UpdateWrite, ExtendWrite, ExtendNothing, ResetWrite, ResetReread, RemoveWrite,
              ClientGone, ClientAdd, ClientReAdd, ClientDrop, ClientSyncFails, xrayVars,
              AddUser, ReplaceUser, DropUser, ReAddFails, UserCallFails
<1>6. Finish(r) => Leads
  BY <1>0 DEF Finish, Go, IdleReq
<1>7. AfterSync(r) => Leads
  BY <1>0 DEF AfterSync, Go, IdleReq, Req
<1>8. CASE UpdateWrite(r) \/ ExtendWrite(r) \/ ResetReread(r)
  <2>1. ASSUME NEW row, Go(r, [q EXCEPT !.pc = "sync", !.row = row]) PROVE Leads
    BY <1>0, <2>1 DEF Go, Req
  <2>2. Leads
    BY <1>8, <2>1 DEF UpdateWrite, ExtendWrite, ResetReread, StoreAndSync
  <2> QED  BY <1>3, <1>4, <1>5, <2>2
<1>9. CASE ResetWrite(r) \/ RemoveWrite(r) \/ ExtendNothing(r)
  <2>1. ASSUME NEW rec, Go(r, rec), 
             (rec.op = q.op /\ rec.c = q.c) \/ (rec.op = "list" /\ rec.todo = {})
        PROVE  Leads
    BY <1>0, <2>1 DEF Go
  <2>2. LET rec == [q EXCEPT !.pc = "reread"] IN rec.op = q.op /\ rec.c = q.c
    BY <1>0 DEF Req
  <2>3. LET rec == [q EXCEPT !.pc = "sync", !.row.status = "DISABLED"] IN rec.op = q.op /\ rec.c = q.c
    BY <1>0 DEF Req
  <2>4. LET rec == [q EXCEPT !.pc = "sweepRead", !.op = "list"] IN rec.op = "list" /\ rec.todo = {}
    BY <1>0 DEF Req
  <2>5. Leads
    BY <1>9, <2>1, <2>2, <2>3, <2>4 DEF ResetWrite, RemoveWrite, ExtendNothing
  <2> QED  BY <1>3, <1>4, <1>5, <2>5
<1>10. CASE ClientGone(r) \/ ClientReAdd(r) \/ ClientDrop(r) \/ ClientSyncFails(r)
  BY <1>3, <1>4, <1>5, <1>6, <1>7, <1>10 DEF ClientGone, ClientReAdd, ClientDrop, ClientSyncFails
<1>11. CASE ClientAdd(r)
  <2>1. Go(r, [q EXCEPT !.pc = "readd"]) => Leads
    BY <1>0 DEF Go, Req
  <2> QED  BY <1>3, <1>4, <1>5, <1>7, <1>11, <2>1 DEF ClientAdd
<1> QED  BY <1>2, <1>8, <1>9, <1>10, <1>11

\* A request on a client stores the row it then applies, and calls Xray until
\* the client is in step, unless a call fails.
LEMMA NamedDrift ==
    ASSUME TypeInv, TypeInv', Shapes, Shapes', HeldRows, NEW c \in Clients, Undrifted(c), ~DriftCause(c),
           NEW r \in Requests, req[r].op \in Naming, ReqStep(r), ~JoinSnapshot(r)
    PROVE  Undrifted(c)'
<1> DEFINE q == req[r]
           p == req'[r]
<1>0. /\ TypeOK /\ TypeOK' /\ q \in Req /\ db \in [Clients -> Row] /\ now \in Nat
      /\ req \in [Requests -> Req]
      /\ ReqShape(q) /\ ReqShape(p) /\ Alone(r)
      /\ ~Contended(c)' /\ up' = up /\ faults' = faults
  BY StepShape DEF TypeInv, TypeOK, Shapes, DriftCause
<1>1. /\ UNCHANGED <<snap, sync, now>>
      /\ (p.op = "list" /\ p.todo = {}) \/ (p.op = q.op /\ p.c = q.c)
      /\ \A d \in Clients \ {q.c} : db'[d] = db[d] /\ (d \in users' <=> d \in users)
  BY <1>0, NamedNext
<1>2. Holds(q, c) <=> q.c = c
  BY <1>0, NamingForm
<1>3. CASE q.c # c
  <2>1. AlikeStep(c)
    BY <1>0, <1>1, <1>3, AlikeWhenKept
  <2>2. ~Holds(p, c)
    BY <1>0, <1>1, <1>3, NamingForm, ListForm
  <2> QED  BY <1>0, <1>1, <1>2, <1>3, <2>1, <2>2, RequestLetsGo
<1>4. CASE q.c = c
  <2>0. Owes(q, c, db[c], users, now)
    BY <1>0, <1>4, NamingForm DEF Undrifted
  \* The request keeps the client, or is done with it.
  <2>k. ASSUME p.op = q.op, p.c = c, Owes(p, c, db'[c], users', now) PROVE Undrifted(c)'
    <3>1. ReqForm(p, c, db'[c], users', now') /\ Holds(p, c)
      BY <1>0, <1>1, <2>k, NamingForm
    <3> QED  BY <1>0, <1>1, <1>2, <1>4, <3>1, RequestMoves
  <2>l. ASSUME p.op = "list", p.todo = {}, InStep(c)' PROVE Undrifted(c)'
    <3>1. ~Holds(p, c)
      BY <1>0, <2>l, ListForm
    <3> QED  BY <1>0, <1>1, <1>2, <1>4, <2>l, <3>1, RequestLetsGo
  <2>s. ASSUME AfterSync(r), InStep(c)' PROVE Undrifted(c)'
    <3>1. p.op = "list" /\ p.todo = {}
      BY <1>0, <2>s DEF AfterSync, Go, IdleReq, Req, ReqShape, Naming
    <3> QED  BY <2>l, <2>s, <3>1
  <2>1. ASSUME NEW row, StoreAndSync(r, row) PROVE Undrifted(c)'
    <3>1. p.op = q.op /\ p.c = c /\ p.pc = "sync" /\ p.row = row /\ db'[c] = row
      BY <1>0, <1>4, <2>1 DEF StoreAndSync, Go, Req
    <3> QED  BY <2>k, <3>1 DEF Owes, Serves
  <2>2. CASE UpdateWrite(r) \/ ExtendWrite(r)
    BY <1>4, <2>1, <2>2 DEF UpdateWrite, ExtendWrite
  <2>3. CASE ResetWrite(r)
    <3>1. p.op = q.op /\ p.c = c /\ p.pc = "reread"
      BY <1>0, <1>4, <2>3 DEF ResetWrite, Go, Req
    <3>2. Stored(q.row)
      BY <1>0, <1>4 DEF HeldRows, HoldsRow, Naming
    <3>3. StatusAfterReset(q.row, now) \in ClientStatus
      <4>1. q.row \in Row
        BY <1>0 DEF Req
      <4>2. [q.row EXCEPT !.status = "ACTIVE"].status \in ClientStatus
        BY <4>1 DEF Row, ClientStatus
      <4> QED  BY <3>2, <4>2 DEF StatusAfterReset, EffectiveStatus, Stored, ClientStatus
    <3>4. Stored(db'[c])
      BY <1>0, <1>4, <2>3, <3>3 DEF ResetWrite, Stored, Row
    <3> QED  BY <2>k, <3>1, <3>4 DEF Owes
  <2>4. CASE RemoveWrite(r)
    <3>1. p.op = q.op /\ p.c = c /\ p.pc = "sync" /\ p.row = [q.row EXCEPT !.status = "DISABLED"]
      BY <1>0, <1>4, <2>4 DEF RemoveWrite, Go, Req
    <3>2. p.row.status = "DISABLED" /\ db'[c].status = "DELETED"
      BY <1>0, <1>4, <2>4, <3>1 DEF RemoveWrite, Req, Row, NoRow
    <3>3. Serves(p.row, db'[c], now)
      BY <3>2 DEF Serves, Servable, EffectiveStatus, Stored, ClientStatus
    <3> QED  BY <2>k, <3>1, <3>3 DEF Owes
  <2>5. CASE ExtendNothing(r)
    <3>1. p.op = "list" /\ p.todo = {}
      BY <1>0, <2>5 DEF ExtendNothing, Go, Req, ReqShape, Naming
    <3>2. InStep(c)'
      BY <1>1, <2>0, <2>5 DEF ExtendNothing, Owes, Matches, InStep, dbVars, xrayVars
    <3> QED  BY <2>l, <3>1, <3>2
  <2>6. CASE ResetReread(r)
    <3>1. p.op = q.op /\ p.c = c /\ p.pc = "sync" /\ p.row = db[c] /\ db'[c] = db[c]
      BY <1>0, <1>4, <2>6 DEF ResetReread, Go, Req, dbVars
    <3> QED  BY <2>k, <3>1 DEF Owes, Serves
  <2>7. CASE ClientGone(r)
    <3>1. q.pc = "write" /\ p = IdleReq /\ UNCHANGED <<db, users>>
      BY <1>0, <1>4, <2>0, <2>7 DEF ClientGone, Owes, Finish, Go, dbVars, xrayVars
    <3>2. InStep(c)'
      BY <1>1, <2>0, <3>1 DEF Owes, Matches, InStep
    <3> QED  BY <2>l, <3>1, <3>2 DEF IdleReq
  <2>8. CASE ClientAdd(r)
    <3>1. q.pc = "sync" /\ Servable(db[c], now) /\ UNCHANGED db
      BY <1>0, <2>0, <2>8 DEF ClientAdd, Owes, Serves, dbVars
    <3>2. CASE AddUser(c) /\ AfterSync(r)
      BY <1>1, <2>s, <3>1, <3>2 DEF AddUser, InStep
    <3>3. CASE ReplaceUser(c) /\ Go(r, [q EXCEPT !.pc = "readd"])
      <4>1. p.op = q.op /\ p.c = c /\ p.pc = "readd"
        BY <1>0, <1>4, <3>3 DEF Go, Req
      <4>2. Returns(c, db'[c], users', now)
        BY <3>1, <3>3 DEF ReplaceUser, DropUser, Returns
      <4> QED  BY <2>k, <4>1, <4>2 DEF Owes
    <3> QED  BY <1>4, <2>8, <3>2, <3>3 DEF ClientAdd
  <2>9. CASE ClientReAdd(r)
    BY <1>1, <1>4, <2>0, <2>9, <2>s DEF ClientReAdd, AddUser, Owes, Returns, InStep, dbVars
  <2>10. CASE ClientDrop(r)
    <3>1. ~Servable(db[c], now) /\ UNCHANGED db /\ users' = users \ {c} /\ AfterSync(r)
      BY <1>0, <1>4, <2>0, <2>10 DEF ClientDrop, DropUser, Owes, Serves, dbVars
    <3> QED  BY <1>1, <2>s, <3>1 DEF InStep
  <2>11. CASE ClientSyncFails(r)
    <3>1. CallFails /\ UNCHANGED users /\ AfterSync(r)
      BY <1>4, <2>0, <2>11 DEF ClientSyncFails, ReAddFails, UserCallFails, Owes, Returns
    <3>2. CallLost(c)
      <4>1. p.pc \notin {"sync", "readd"}
        BY <1>0, <3>1 DEF AfterSync, Go, IdleReq, Req
      <4> QED  BY <1>4, <2>11, <3>1, <4>1 DEF ClientSyncFails, CallLost
    <3>3. ~up
      BY <1>0, <3>1 DEF CallFails, Fault, TypeOK
    <3> QED  BY <3>2, <3>3 DEF DriftCause
  <2>12. q.pc \notin {"sweepRead", "sweepWrite", "sweep"} /\ q.op \notin {"list", "dashboard"}
    BY <1>0 DEF ReqShape, Naming
  <2> QED
    BY <2>2, <2>3, <2>4, <2>5, <2>6, <2>7, <2>8, <2>9, <2>10, <2>11, <2>12
    DEF ReqStep, SkipSnapshot, DashboardPrime, SweepRead, SweepWrite, SweepDrop
<1> QED  BY <1>3, <1>4

-------------------------------------------------------------------------------
(* Drift: the lists, the dashboard and arrivals.                           *)

LEMMA DashboardHolds ==
    ASSUME NEW q, ReqShape(q), q.op = "dashboard", NEW c \in Clients
    PROVE  ~Holds(q, c)
  BY ControlAssumption DEF ReqShape, Holds, Naming

\* The sweep of a list removes clients that are out already, or marks them.
LEMMA SweepDrift ==
    ASSUME TypeInv, TypeInv', Shapes, Shapes', NEW c \in Clients, Undrifted(c), ~DriftCause(c),
           NEW r \in Requests, req[r].op \in {"list", "dashboard"}, ReqStep(r), ~JoinSnapshot(r)
    PROVE  Undrifted(c)'
<1> DEFINE q == req[r]
           p == req'[r]
<1>0. /\ TypeOK /\ TypeOK' /\ q \in Req /\ db \in [Clients -> Row] /\ now \in Nat /\ db[c] \in Row
      /\ req \in [Requests -> Req]
      /\ ReqShape(q) /\ ReqShape(p) /\ Alone(r)
      /\ ~Contended(c)'
  BY StepShape DEF TypeInv, TypeOK, Shapes, DriftCause
<1>1. \/ SkipSnapshot(r) \/ DashboardPrime(r) \/ SweepRead(r) \/ SweepWrite(r)
      \/ \E d \in Clients : SweepDrop(r, d)
  <2>1. q.pc \notin {"reread", "sync", "readd"}
    BY <1>0 DEF ReqShape
  <2> QED
    BY <2>1 DEF ReqStep, UpdateWrite, ExtendWrite, ExtendNothing, ResetWrite, ResetReread,
       RemoveWrite, ClientGone, Writes, ClientAdd, ClientReAdd, ClientDrop, ClientSyncFails
<1>2. UNCHANGED <<snap, sync, now>>
  BY <1>1 DEF SkipSnapshot, DashboardPrime, SweepRead, SweepWrite, SweepDrop, taskVars, envVars
<1>3. db'[c] = db[c] /\ (c \in users' <=> c \in users) => AlikeStep(c)
  BY <1>0, <1>2, AlikeWhenKept
\* A request that has nothing to do with c.
<1>4. ASSUME ~Holds(q, c), ~Holds(p, c), AlikeStep(c) PROVE Undrifted(c)'
  BY <1>0, <1>2, <1>4, RequestLetsGo
<1>5. ~Holds(IdleReq, c)
  BY NoneImported DEF Holds, IdleReq
<1>s. ASSUME NEW pc, NEW todo, Go(r, [q EXCEPT !.pc = pc, !.todo = todo])
      PROVE  p.op = q.op /\ p.todo = todo
  BY <1>0, <1>s DEF Go, Req
<1>6. CASE SkipSnapshot(r)
  <2>1. AlikeStep(c)
    BY <1>3, <1>6 DEF SkipSnapshot, dbVars, xrayVars
  <2>2. CASE q.op = "list"
    <3>1. p = IdleReq /\ ~Holds(q, c)
      BY <1>0, <1>6, <2>2, ListForm DEF SkipSnapshot, Finish, Go, ReqShape
    <3> QED  BY <1>4, <1>5, <2>1, <3>1
  <2>3. CASE q.op = "dashboard"
    <3>1. p.op = "dashboard"
      BY <1>0, <1>6, <2>3 DEF SkipSnapshot, Go, Req
    <3> QED  BY <1>0, <1>4, <2>1, <2>3, <3>1, DashboardHolds
  <2> QED  BY <2>2, <2>3
<1>7. CASE DashboardPrime(r)
  <2>1. p = IdleReq /\ ~Holds(q, c) /\ MarkExpired(Overdue) /\ UNCHANGED users
    BY <1>0, <1>7, DashboardHolds DEF DashboardPrime, Finish, Go, xrayVars
  <2>2. CASE db'[c] = db[c]
    BY <1>3, <1>4, <1>5, <2>1, <2>2
  <2>3. CASE db'[c] # db[c]
    <3>1. c \in Overdue /\ db'[c] = [db[c] EXCEPT !.status = "EXPIRED"]
      BY <2>1, <2>3 DEF MarkExpired
    <3>2. db[c].status = "ACTIVE" /\ IsExpired(db[c], now)
      BY <1>0, <3>1 DEF Overdue, IsExpired, Row, Date
    <3> QED  BY <1>0, <1>2, <1>4, <1>5, <2>1, <3>1, <3>2, AlikeWhenMarked
  <2> QED  BY <2>2, <2>3
<1>8. CASE SweepRead(r)
  <2>1. q.op = "list" /\ ~Holds(q, c) /\ UNCHANGED <<db, users>>
    BY <1>0, <1>8, ListForm DEF SweepRead, ReqShape, dbVars, xrayVars
  <2>2. p.op = "list" /\ p.todo \in {{}, Overdue}
    BY <1>8, <1>s, <2>1 DEF SweepRead, AfterSweep
  <2>3. CASE c \notin p.todo
    BY <1>0, <1>3, <1>4, <2>1, <2>2, <2>3, ListForm
  <2>4. CASE c \in p.todo
    <3>1. Holds(p, c)
      BY <1>0, <2>2, <2>4, ListForm
    <3>2. InStep(c)
      BY <1>0, <1>2, <2>1, <3>1, RequestTakes
    <3>3. IsExpired(db[c], now) /\ db[c].status = "ACTIVE"
      BY <1>0, <2>2, <2>4 DEF Overdue, IsExpired, Row, Date
    <3>4. c \notin users
      BY <3>2, <3>3 DEF InStep, Servable, EffectiveStatus
    <3>5. ReqForm(p, c, db'[c], users', now')
      BY <1>0, <1>2, <2>1, <2>2, <3>3, <3>4, ListForm
    <3> QED  BY <1>0, <1>2, <1>3, <2>1, <3>1, <3>5, RequestMoves
  <2> QED  BY <2>3, <2>4
<1>9. CASE SweepWrite(r)
  <2>1. q.op = "list" /\ MarkExpired(q.todo) /\ UNCHANGED users
    BY <1>0, <1>9 DEF SweepWrite, ReqShape, xrayVars
  <2>2. p.op = "list" /\ p.todo = q.todo
    BY <1>0, <1>9, <2>1 DEF SweepWrite, Go, Req
  <2>3. CASE c \notin q.todo
    BY <1>0, <1>3, <1>4, <2>1, <2>2, <2>3, ListForm DEF MarkExpired
  <2>4. CASE c \in q.todo
    <3>1. c \notin users /\ IsExpired(db[c], now)
      BY <1>0, <2>1, <2>4, ListForm DEF Undrifted
    <3>2. db'[c].expiresAt = db[c].expiresAt
      BY <1>0, <2>1 DEF MarkExpired, Row
    <3>3. ReqForm(p, c, db'[c], users', now') /\ Holds(p, c)
      BY <1>0, <1>2, <2>1, <2>2, <2>4, <3>1, <3>2, ListForm DEF IsExpired
    <3> QED  BY <1>0, <1>2, <3>3, RequestMoves
  <2> QED  BY <2>3, <2>4
<1>10. ASSUME NEW d \in Clients, SweepDrop(r, d) PROVE Undrifted(c)'
  <2>1. q.op = "list" /\ d \in q.todo /\ UNCHANGED db /\ (users' = users \/ users' = users \ {d})
    BY <1>0, <1>10 DEF SweepDrop, ReqShape, DropUser, UserCallFails, dbVars
  <2>2. p.op = "list" /\ p.todo = q.todo \ {d}
    <3>1. CASE q.todo = {d}
      <4>1. AfterSweep(r)
        BY <1>10, <3>1 DEF SweepDrop
      <4> QED  BY <1>s, <2>1, <3>1, <4>1 DEF AfterSweep
    <3>2. CASE q.todo # {d}
      BY <1>0, <1>10, <2>1, <3>2 DEF SweepDrop, Go, Req
    <3> QED  BY <3>1, <3>2
  <2>3. c \in q.todo => c \notin users /\ IsExpired(db[c], now)
    BY <1>0, <2>1, ListForm DEF Undrifted
  <2>4. CASE c \notin q.todo
    BY <1>0, <1>3, <1>4, <2>1, <2>2, <2>4, ListForm
  <2>5. CASE c = d
    <3>1. InStep(c)'
      BY <1>2, <2>1, <2>3, <2>5 DEF InStep, Servable, EffectiveStatus
    <3>2. ~Holds(p, c) /\ Holds(q, c)
      BY <1>0, <2>1, <2>2, <2>5, ListForm
    <3> QED  BY <1>0, <1>2, <3>1, <3>2, RequestLetsGo
  <2>6. CASE c \in q.todo \ {d}
    <3>1. ReqForm(p, c, db'[c], users', now') /\ Holds(p, c)
      BY <1>0, <1>2, <2>1, <2>2, <2>3, <2>6, ListForm
    <3> QED  BY <1>0, <1>2, <3>1, RequestMoves
  <2> QED  BY <2>4, <2>5, <2>6
<1> QED  BY <1>1, <1>6, <1>7, <1>8, <1>9, <1>10

\* A request that arrives finds its client in step, or has just created it.
LEMMA ArriveDrift ==
    ASSUME TypeInv, TypeInv', Shapes, Shapes', NEW c \in Clients, Undrifted(c), ~DriftCause(c),
           NEW r \in Requests, Arrive(r), ~SyncEndpoint(r)
    PROVE  Undrifted(c)'
<1> DEFINE q == req[r]
           p == req'[r]
<1>0. /\ TypeOK /\ TypeOK' /\ db \in [Clients -> Row] /\ now \in Nat /\ req \in [Requests -> Req]
      /\ ReqShape(p) /\ Alone(r) /\ ReqShape(q)
      /\ ~Contended(c)' /\ Nobody \notin Clients
  BY ArriveShape, ControlAssumption DEF TypeInv, TypeOK, Shapes, DriftCause
<1>1. UNCHANGED <<snap, sync, now, users>> /\ q.pc = "idle"
  BY DEF Arrive, Create, ReadClient, ReadClients, Submit, taskVars, xrayVars
<1>2. ~Holds(q, c)
  BY <1>0, <1>1, NoneImported DEF ReqShape, Holds, IdleReq
<1>3. db'[c] = db[c] => AlikeStep(c)
  BY <1>0, <1>1, AlikeWhenKept
<1>4. ASSUME ~Holds(p, c), db'[c] = db[c] PROVE Undrifted(c)'
  BY <1>0, <1>1, <1>2, <1>3, <1>4, RequestLetsGo
<1>5. ASSUME p.op \in Naming, p.c = c, Owes(p, c, db'[c], users', now') PROVE Undrifted(c)'
  <2>1. Holds(p, c) /\ ReqForm(p, c, db'[c], users', now')
    BY <1>0, <1>5, NamingForm
  <2> QED  BY <1>0, <1>1, <1>2, <2>1, RequestMoves
<1>6. ASSUME NEW d \in Clients, Create(r, d) PROVE Undrifted(c)'
  <2>1. PICK row : /\ db' = [db EXCEPT ![d] = row]
                   /\ Go(r, [IdleReq EXCEPT !.op = "create", !.c = d, !.pc = "sync", !.row = row])
    BY <1>6 DEF Create
  <2>2. p.op = "create" /\ p.c = d /\ p.pc = "sync" /\ p.row = row
    BY <1>0, <2>1 DEF Go, IdleReq
  <2>3. CASE d = c
    <3>1. Owes(p, c, db'[c], users', now')
      BY <1>0, <2>1, <2>2, <2>3 DEF Owes, Serves
    <3> QED  BY <1>5, <2>2, <2>3, <3>1 DEF Naming
  <2>4. CASE d # c
    BY <1>0, <1>4, <2>1, <2>2, <2>4, NamingForm DEF Naming
  <2> QED  BY <2>3, <2>4
<1>7. ASSUME NEW d \in Clients, NEW op, ReadClient(r, op, d) PROVE Undrifted(c)'
  <2>1. /\ p.op = op /\ p.c = d /\ p.pc \in {"write", "snap"} /\ op \in Naming
        /\ UNCHANGED db
    BY <1>0, <1>7 DEF ReadClient, Begin, Go, Naming, dbVars
  <2>2. CASE d = c
    <3>1. Holds(p, c)
      BY <1>0, <2>1, <2>2, NamingForm
    <3>2. InStep(c)
      BY <1>0, <1>1, <1>2, <3>1, RequestTakes
    <3> QED  BY <1>1, <1>5, <2>1, <2>2, <3>2 DEF Owes, InStep, Matches
  <2>3. CASE d # c
    BY <1>0, <1>4, <2>1, <2>3, NamingForm
  <2> QED  BY <2>2, <2>3
<1>8. ASSUME NEW op, ReadClients(r, op) PROVE Undrifted(c)'
  <2>1. p.op \in {"list", "dashboard"} /\ p.todo = {} /\ UNCHANGED db
    BY <1>0, <1>8 DEF ReadClients, Begin, Go, dbVars
  <2>2. ~Holds(p, c)
    BY <1>0, <2>1, ListForm, DashboardHolds
  <2> QED  BY <1>4, <2>1, <2>2
<1> QED  BY <1>6, <1>7, <1>8 DEF Arrive

-------------------------------------------------------------------------------
(* Drift: imports.                                                         *)

Imports == {"import", "overwrite"}

LEMMA ImportForm ==
    ASSUME NEW q, ReqShape(q), q.op \in Imports, NEW c \in Clients, NEW row, NEW served, NEW t
    PROVE  /\ Holds(q, c) <=> c \in q.todo \/ Stored(q.rows[c])
           /\ ReqForm(q, c, row, served, t) <=>
                 /\ q.pc \in {"find", "importWrite"} /\ c \in q.todo => Matches(c, row, served, t)
                 /\ Stored(q.rows[c]) =>
                       IF q.pc = "importSync" /\ c \in q.todo THEN Returns(c, row, served, t)
                       ELSE Serves(q.rows[c], row, t)
<1>1. q.pc \in {"find", "importWrite", "importSync"} /\ q.op # "list"
  BY DEF ReqShape, Imports
<1>2. q.pc # "idle" /\ q.c = c => c \in q.todo
  BY <1>1, ControlAssumption DEF ReqShape
<1> QED  BY <1>1, <1>2 DEF Holds, ReqForm

\* After an item: on to the next, to the synchronisations, or to the end.
LEMMA NextForm ==
    ASSUME TypeOK, NEW r \in Requests, NEW rec \in Req, rec.op \in Imports, NextItem(r, rec),
           ReqShape(req'[r]), NEW c \in Clients, NEW row, NEW served, NEW t,
           c \in rec.todo => Matches(c, row, served, t),
           Stored(rec.rows[c]) => Serves(rec.rows[c], row, t)
    PROVE  /\ Holds(req'[r], c) <=> c \in rec.todo \/ Stored(rec.rows[c])
           /\ ReqForm(req'[r], c, row, served, t)
<1> DEFINE p == req'[r]
<1>0. req \in [Requests -> Req]
  BY DEF TypeOK
<1>1. CASE rec.todo = {} /\ Unapplied(rec) = {}
  <2>1. p = IdleReq
    BY <1>0, <1>1 DEF NextItem, Go
  <2>2. ~Holds(p, c) /\ ~Stored(rec.rows[c])
    BY <1>1, <2>1, NoneImported DEF Holds, IdleReq, Unapplied
  <2> QED  BY <1>1, <2>2, ReqFormFree
<1>2. CASE ~(rec.todo = {} /\ Unapplied(rec) = {})
  <2>1. PICK pc \in {"find", "importSync"} :
          Go(r, [rec EXCEPT !.pc = pc]) /\ (pc = "importSync" => rec.todo = {})
    BY <1>2 DEF NextItem
  <2>2. p.pc = pc /\ p.op = rec.op /\ p.todo = rec.todo /\ p.rows = rec.rows
    BY <1>0, <2>1 DEF Go, Req
  <2> QED  BY <2>1, <2>2, ImportForm
<1> QED  BY <1>1, <1>2

\* One synchronisation is over: of the others of the import nothing changes.
LEMMA AppliedForm ==
    ASSUME TypeOK, NEW r \in Requests, ReqShape(req[r]), req[r].op \in Imports,
           req[r].pc = "importSync", NEW d \in Clients, Applied(r, d), ReqShape(req'[r]),
           NEW c \in Clients, NEW row, NEW served, NEW t
    PROVE  /\ ~Stored(req'[r].rows[d]) /\ ~Holds(req'[r], d)
           /\ c # d => /\ Holds(req'[r], c) <=> Holds(req[r], c)
                       /\ ReqForm(req[r], c, row, served, t) => ReqForm(req'[r], c, row, served, t)
<1> DEFINE q == req[r]
           p == req'[r]
           rec == [q EXCEPT !.todo = @ \ {d}, !.rows[d] = NoRow("UNBORN")]
<1>0. q \in Req /\ req \in [Requests -> Req]
  BY DEF TypeOK
<1>1. /\ rec.pc = q.pc /\ rec.op = q.op /\ rec.todo = q.todo \ {d}
      /\ rec.rows[d] = NoRow("UNBORN") /\ \A e \in Clients \ {d} : rec.rows[e] = q.rows[e]
  BY <1>0 DEF Req
<1>2. p = IF Unapplied(rec) # {} THEN rec ELSE IdleReq
  BY <1>0 DEF Applied, Go
<1>3. ~Stored(NoRow("UNBORN"))
  BY DEF NoRow, Stored, ClientStatus
<1> HIDE DEF rec
<1>4. CASE Unapplied(rec) # {}
  <2>1. p = rec
    BY <1>2, <1>4
  <2>2. /\ ~Stored(p.rows[d]) /\ p.op \in Imports /\ p.todo = q.todo \ {d} /\ p.pc = q.pc
        /\ \A e \in Clients \ {d} : p.rows[e] = q.rows[e]
    BY <1>1, <1>3, <2>1
  <2>3. ~Holds(p, d)
    BY <2>2, ImportForm
  <2> QED  BY <2>2, <2>3, ImportForm
<1>5. CASE Unapplied(rec) = {}
  <2>1. p = IdleReq
    BY <1>2, <1>5
  <2>2. \A e \in Clients : ~Stored(p.rows[e]) /\ ~Holds(p, e)
    BY <2>1, NoneImported DEF Holds, IdleReq
  <2>3. \A e \in Clients \ {d} : ~Stored(q.rows[e])
    BY <1>1, <1>5 DEF Unapplied
  <2>4. c # d => ~Holds(q, c)
    BY <2>3, ImportForm DEF ReqShape
  <2> QED  BY <2>2, <2>4, ReqFormFree
<1> QED  BY <1>4, <1>5

\* An import finds its clients in step, keeps what it stored until it applies it,
\* and leaves one out of step only by throwing or by a call that fails.
LEMMA ImportDrift ==
    ASSUME TypeInv, TypeInv', Shapes, Shapes', NEW c \in Clients, Undrifted(c), ~DriftCause(c),
           NEW r \in Requests, ImportAct(r)
    PROVE  Undrifted(c)'
<1> DEFINE q == req[r]
           p == req'[r]
<1>0. /\ TypeOK /\ TypeOK' /\ q \in Req /\ db \in [Clients -> Row] /\ now \in Nat
      /\ req \in [Requests -> Req] /\ q.todo \subseteq Clients /\ q.rows \in [Clients -> Row]
      /\ ReqShape(q) /\ ReqShape(p) /\ Alone(r)
      /\ ~Contended(c)' /\ up' = up /\ faults' = faults
      /\ ReqForm(q, c, db[c], users, now)
  BY ImportShape DEF TypeInv, TypeOK, Req, Shapes, DriftCause, Undrifted
<1>1. UNCHANGED <<snap, sync, now>>
  BY DEF ImportAct, ImportStep, Import, ImportFind, ImportWrite, ImportThrows, ImportAdd,
         ImportReAdd, ImportDrop, ImportSyncFails, taskVars, envVars
<1>2. db'[c] = db[c] /\ (c \in users' <=> c \in users) => AlikeStep(c)
  BY <1>0, <1>1, AlikeWhenKept
<1>3. ASSUME NEW op \in Operations, Import(r, op) PROVE Undrifted(c)'
  <2>1. PICK items \in SUBSET Clients :
          Go(r, [IdleReq EXCEPT !.op = op, !.pc = "find", !.todo = items])
    BY <1>3 DEF Import
  <2>2. p.op = op /\ op \in Imports /\ p.pc = "find" /\ p.todo = items /\ p.rows = NoRows
    BY <1>0, <1>3, <2>1 DEF Import, Go, IdleReq, Imports
  <2>3. q.pc = "idle" /\ UNCHANGED <<db, users>>
    BY <1>3 DEF Import, Submit, dbVars, xrayVars
  <2>4. ~Holds(q, c)
    BY <1>0, <2>3, NoneImported DEF ReqShape, Holds, IdleReq
  <2>5. CASE c \notin items
    <3>1. ~Holds(p, c)
      BY <1>0, <2>2, <2>5, ImportForm, NoneImported
    <3> QED  BY <1>0, <1>1, <1>2, <2>3, <2>4, <3>1, RequestLetsGo
  <2>6. CASE c \in items
    <3>1. Holds(p, c)
      BY <1>0, <2>2, <2>6, ImportForm
    <3>2. InStep(c)
      BY <1>0, <1>1, <2>4, <3>1, RequestTakes
    <3>3. ReqForm(p, c, db'[c], users', now')
      BY <1>0, <1>1, <2>2, <2>3, <3>2, ImportForm, NoneImported DEF InStep, Matches
    <3> QED  BY <1>0, <1>1, <2>4, <3>1, <3>3, RequestMoves
  <2> QED  BY <2>5, <2>6
<1>4. ASSUME ImportStep(r) PROVE Undrifted(c)'
  <2>0. q.op \in Imports /\ q.pc \in Importing /\ (q.pc = "importWrite" => q.c \in Clients)
    BY <1>4 DEF ImportStep, ImportFind, ImportWrite, ImportThrows, ImportAdd, ImportReAdd,
                ImportDrop, ImportSyncFails, Waits, TypeInv, ReqNamesClient, Importing, Imports
  <2>1. /\ Holds(q, c) <=> c \in q.todo \/ Stored(q.rows[c])
        /\ q.pc \in {"find", "importWrite"} /\ c \in q.todo => Matches(c, db[c], users, now)
        /\ Stored(q.rows[c]) =>
              IF q.pc = "importSync" /\ c \in q.todo THEN Returns(c, db[c], users, now)
              ELSE Serves(q.rows[c], db[c], now)
    BY <1>0, <2>0, ImportForm
  \* Nothing changes of c, and the request goes on with it, or without it as before.
  <2>k. ASSUME db'[c] = db[c], c \in users' <=> c \in users,
               ReqForm(p, c, db[c], users, now), Holds(p, c) <=> Holds(q, c)
        PROVE  Undrifted(c)'
    <3>1. ReqForm(p, c, db'[c], users', now')
      BY <1>0, <1>1, <1>2, <2>k, ReqFormKept DEF AlikeStep
    <3> QED  BY <1>0, <1>1, <1>2, <2>k, <3>1, RequestMoves
  <2>l. ASSUME ~Holds(p, c), Holds(q, c), InStep(c)' PROVE Undrifted(c)'
    BY <1>0, <1>1, <2>l, RequestLetsGo
  <2>2. ASSUME NEW d \in Clients, ImportFind(r, d) PROVE Undrifted(c)'
    <3>0. q.pc = "find" /\ d \in q.todo /\ UNCHANGED <<db, users>>
      BY <2>2 DEF ImportFind, dbVars, xrayVars
    <3>1. CASE NextItem(r, [q EXCEPT !.todo = @ \ {d}])
      <4> DEFINE rec == [q EXCEPT !.todo = @ \ {d}]
      <4>1. rec \in Req /\ rec.op = q.op /\ rec.todo = q.todo \ {d} /\ rec.rows = q.rows
        BY <1>0 DEF Req
      <4> HIDE DEF rec
      <4>2. /\ Holds(p, c) <=> c \in rec.todo \/ Stored(rec.rows[c])
            /\ ReqForm(p, c, db[c], users, now)
        <5>1. c \in rec.todo => Matches(c, db[c], users, now)
          BY <2>1, <3>0, <4>1
        <5>2. Stored(rec.rows[c]) => Serves(rec.rows[c], db[c], now)
          BY <2>1, <3>0, <4>1
        <5>3. NextItem(r, rec)
          BY <3>1 DEF rec
        <5> QED  BY <1>0, <2>0, <4>1, <5>1, <5>2, <5>3, NextForm
      <4>3. CASE c # d
        BY <2>1, <2>k, <3>0, <4>1, <4>2, <4>3
      <4>4. CASE c = d
        <5>1. ~Holds(p, c)
          BY <1>0, <3>0, <4>1, <4>2, <4>4 DEF ReqShape
        <5>2. InStep(c)'
          BY <1>1, <2>1, <3>0, <4>4 DEF InStep, Matches
        <5> QED  BY <2>1, <2>l, <3>0, <4>4, <5>1, <5>2
      <4> QED  BY <4>3, <4>4
    <3>2. CASE Go(r, [q EXCEPT !.pc = "importWrite", !.c = d, !.row = db[d]])
      <4>1. p.pc = "importWrite" /\ p.op = q.op /\ p.todo = q.todo /\ p.rows = q.rows
        BY <1>0, <3>2 DEF Go, Req
      <4>2. ReqForm(p, c, db[c], users, now) /\ (Holds(p, c) <=> Holds(q, c))
        BY <1>0, <2>0, <2>1, <3>0, <4>1, ImportForm
      <4> QED  BY <2>k, <3>0, <4>2
    <3> QED  BY <2>2, <3>1, <3>2 DEF ImportFind
  <2>3. CASE ImportWrite(r)
    <3>0. q.pc = "importWrite" /\ q.c \in Clients /\ q.c \in q.todo /\ UNCHANGED users
      BY <1>0, <2>0, <2>3 DEF ImportWrite, ReqShape, xrayVars
    <3>1. PICK pl \in Payloads, used \in 0..MaxTraffic : WriteItem(r, q.c, Imported(pl, used, now))
      BY <2>3 DEF ImportWrite
    <3> DEFINE row == Imported(pl, used, now)
               rec == [q EXCEPT !.c = Nobody, !.todo = @ \ {q.c}, !.rows[q.c] = row]
    <3>2. row \in Row /\ Stored(row)
      BY ImportedType, ControlAssumption
    <3>3. NextItem(r, rec) /\ db' = [db EXCEPT ![q.c] = row]
      BY <3>1 DEF WriteItem
    <3> HIDE DEF row
    <3>4. /\ rec \in Req /\ rec.op = q.op /\ rec.todo = q.todo \ {q.c}
          /\ rec.rows[q.c] = row /\ \A e \in Clients \ {q.c} : rec.rows[e] = q.rows[e]
      BY <1>0, <3>0, <3>2 DEF Req
    <3> HIDE DEF rec
    <3>5. CASE c = q.c
      <4>1. db'[c] = row /\ c \notin rec.todo /\ Serves(rec.rows[c], db'[c], now')
        BY <1>0, <3>0, <3>3, <3>4, <3>5 DEF Serves
      <4>2. Holds(p, c) /\ ReqForm(p, c, db'[c], users', now')
        BY <1>0, <2>0, <3>2, <3>3, <3>4, <3>5, <4>1, NextForm
      <4> QED  BY <1>0, <1>1, <4>2, RequestMoves, <2>1, <3>0, <3>5
    <3>6. CASE c # q.c
      <4>1. /\ c \in rec.todo => Matches(c, db[c], users, now)
            /\ Stored(rec.rows[c]) => Serves(rec.rows[c], db[c], now)
        BY <2>1, <3>0, <3>4, <3>6
      <4>2. /\ Holds(p, c) <=> c \in rec.todo \/ Stored(rec.rows[c])
            /\ ReqForm(p, c, db[c], users, now)
        BY <1>0, <2>0, <3>3, <3>4, <4>1, NextForm
      <4> QED  BY <1>0, <2>1, <2>k, <3>0, <3>3, <3>4, <3>6, <4>2
    <3> QED  BY <3>5, <3>6
  <2>4. CASE ImportThrows(r)
    <3>1. q.pc = "importWrite" /\ p = IdleReq /\ UNCHANGED <<db, users>>
      BY <1>0, <2>4 DEF ImportThrows, Finish, Go, dbVars, xrayVars
    <3>2. ~Stored(q.rows[c])
      BY <3>1 DEF DriftCause, Abandoned, IdleReq
    <3>3. ~Holds(p, c)
      BY <3>1, NoneImported DEF Holds, IdleReq
    <3>4. CASE c \in q.todo
      BY <1>1, <2>1, <2>l, <3>1, <3>3, <3>4 DEF InStep, Matches
    <3>5. CASE c \notin q.todo
      BY <2>1, <2>k, <3>1, <3>2, <3>3, <3>5, <1>0, ReqFormFree
    <3> QED  BY <3>4, <3>5
  \* The synchronisations, of another client and of c.
  <2>5. ASSUME NEW d \in Clients, Applied(r, d), q.pc = "importSync", UNCHANGED db,
               \A e \in Clients \ {d} : e \in users' <=> e \in users,
               d = c => Stored(q.rows[c]) /\ InStep(c)'
        PROVE  Undrifted(c)'
    <3>1. CASE d # c
      BY <1>0, <2>0, <2>5, <2>k, <3>1, AppliedForm
    <3>2. CASE d = c
      BY <1>0, <2>0, <2>1, <2>5, <2>l, <3>2, AppliedForm
    <3> QED  BY <3>1, <3>2
  <2>6. Stored(q.rows[c]) /\ c \notin q.todo => (Servable(q.rows[c], now) <=> Servable(db[c], now))
    BY <1>0, <2>1 DEF Serves
  <2>7. ASSUME NEW d \in Clients, ImportAdd(r, d) PROVE Undrifted(c)'
    <3>0. /\ q.pc = "importSync" /\ Stored(q.rows[d]) /\ d \notin q.todo
          /\ Servable(q.rows[d], now) /\ UNCHANGED db
      BY <2>7 DEF ImportAdd, Waits, Unapplied, dbVars
    <3>1. CASE AddUser(d) /\ Applied(r, d)
      <4>1. d = c => InStep(c)'
        BY <1>1, <2>6, <3>0, <3>1 DEF AddUser, InStep
      <4> QED  BY <2>5, <3>0, <3>1, <4>1 DEF AddUser
    <3>2. CASE ReplaceUser(d) /\ Go(r, [q EXCEPT !.todo = @ \cup {d}])
      <4>1. p.pc = q.pc /\ p.op = q.op /\ p.todo = q.todo \cup {d} /\ p.rows = q.rows
        BY <1>0, <3>2 DEF Go, Req
      <4>2. users' = users \ {d}
        BY <3>2 DEF ReplaceUser, DropUser
      <4>3. CASE d # c
        <5>1. ReqForm(p, c, db[c], users, now) /\ (Holds(p, c) <=> Holds(q, c))
          BY <1>0, <2>0, <2>1, <3>0, <4>1, <4>3, ImportForm
        <5> QED  BY <2>k, <3>0, <4>2, <4>3, <5>1
      <4>4. CASE d = c
        <5>1. Returns(c, db'[c], users', now')
          BY <1>1, <2>6, <3>0, <4>2, <4>4 DEF Returns
        <5>2. ReqForm(p, c, db'[c], users', now') /\ Holds(p, c)
          BY <1>0, <2>0, <3>0, <4>1, <4>4, <5>1, ImportForm
        <5> QED  BY <1>0, <1>1, <2>1, <3>0, <4>4, <5>2, RequestMoves
      <4> QED  BY <4>3, <4>4
    <3> QED  BY <2>7, <3>1, <3>2 DEF ImportAdd
  <2>8. ASSUME NEW d \in Clients, ImportReAdd(r, d) PROVE Undrifted(c)'
    <3>1. /\ q.pc = "importSync" /\ d \in q.todo /\ Stored(q.rows[d])
          /\ users' = users \cup {d} /\ UNCHANGED db /\ Applied(r, d)
      BY <1>0, <2>8 DEF ImportReAdd, AddUser, ReqShape, dbVars
    <3>2. d = c => InStep(c)'
      BY <1>1, <2>1, <3>1 DEF Returns, InStep
    <3> QED  BY <2>5, <3>1, <3>2
  <2>9. ASSUME NEW d \in Clients, ImportDrop(r, d) PROVE Undrifted(c)'
    <3>1. /\ q.pc = "importSync" /\ Stored(q.rows[d]) /\ d \notin q.todo
          /\ ~Servable(q.rows[d], now) /\ users' = users \ {d} /\ UNCHANGED db /\ Applied(r, d)
      BY <2>9 DEF ImportDrop, DropUser, Waits, Unapplied, dbVars
    <3>2. d = c => InStep(c)'
      BY <1>1, <2>6, <3>1 DEF InStep
    <3> QED  BY <2>5, <3>1, <3>2
  <2>10. ASSUME NEW d \in Clients, ImportSyncFails(r, d) PROVE Undrifted(c)'
    <3>1. /\ q.pc = "importSync" /\ Stored(q.rows[d]) /\ UNCHANGED <<db, users>> /\ Applied(r, d)
          /\ CallFails \/ (d \in users /\ d \in q.todo)
      BY <1>0, <2>10 DEF ImportSyncFails, ReAddFails, UserCallFails, Waits, Unapplied, ReqShape, dbVars
    <3>2. d # c
      <4> SUFFICES ASSUME d = c PROVE FALSE
        OBVIOUS
      <4>1. CallFails
        BY <2>1, <3>1 DEF Returns
      <4>2. ~Stored(p.rows[c])
        BY <1>0, <2>0, <3>1, AppliedForm
      <4>3. CallLost(c)
        BY <3>1, <4>2 DEF CallLost
      <4>4. ~up
        BY <1>0, <4>1 DEF CallFails, Fault, TypeOK
      <4> QED  BY <4>3, <4>4 DEF DriftCause
    <3> QED  BY <2>5, <3>1, <3>2
  <2> QED  BY <1>4, <2>2, <2>3, <2>4, <2>7, <2>8, <2>9, <2>10 DEF ImportStep
<1> QED  BY <1>3, <1>4 DEF ImportAct

-------------------------------------------------------------------------------
(* Drift: the invariant.                                                   *)

LEMMA JoinDrift ==
    ASSUME TypeInv, TypeInv', Shapes, Shapes', NEW c \in Clients, Undrifted(c), ~DriftCause(c),
           NEW r \in Requests, JoinSnapshot(r)
    PROVE  Undrifted(c)'
<1> DEFINE q == req[r]
           p == req'[r]
<1>0. /\ TypeOK /\ TypeOK' /\ snap \in Snap /\ SnapShape /\ q \in Req /\ ReqShape(q) /\ Alone(r)
      /\ req \in [Requests -> Req] /\ ~Contended(c)'
      /\ ReqForm(q, c, db[c], users, now) /\ SnapForm(snap, c, db[c], users, now)
  BY GoAlone DEF TypeInv, TypeOK, Shapes, DriftCause, Undrifted, JoinSnapshot
<1>1. UNCHANGED <<sync, now, db, users>> /\ q.pc = "snap"
  BY DEF JoinSnapshot, dbVars, xrayVars, envVars
<1>2. p.pc = "await" /\ p.op = q.op /\ p.c = q.c /\ p.todo = q.todo /\ p.rows = q.rows
  BY <1>0 DEF JoinSnapshot, Go, Req
<1>3. /\ Holds(p, c) <=> Holds(q, c)
      /\ ReqForm(p, c, db[c], users, now)
  BY <1>0, <1>1, <1>2 DEF Holds, ReqForm
<1>4. \A s \in Requests : /\ Holds(req'[s], c) <=> Holds(req[s], c)
                          /\ ReqForm(req'[s], c, db[c], users, now)
  BY <1>0, <1>3 DEF Alone, Undrifted
<1>5. /\ snap'.tags = snap.tags /\ snap'.cur = snap.cur
      /\ snap'.breach = snap.breach /\ snap'.active = snap.active
      /\ snap'.pc = IF snap.pc = "idle" THEN "query" ELSE snap.pc
  BY <1>0 DEF JoinSnapshot, Snap
<1>6. snap.pc = "idle" => snap.tags = {}
  BY <1>0 DEF SnapShape, IdleSnap
<1>7. SnapForm(snap', c, db'[c], users', now')
  BY <1>0, <1>1, <1>5, <1>6 DEF SnapForm
<1>8. AlikeStep(c)
  BY <1>0, <1>1, AlikeWhenKept
<1> QED  BY <1>0, <1>1, <1>4, <1>5, <1>7, <1>8, SnapMoves

\* A client that no task holds and that is in step owes nothing to anyone.
LEMMA QuietUndrifted ==
    ASSUME Shapes, NEW c \in Clients, Quiet(c), InStep(c)
    PROVE  Undrifted(c)
<1>1. ASSUME NEW r \in Requests PROVE ReqForm(req[r], c, db[c], users, now)
  <2>1. ~Holds(req[r], c)
    BY HeldHolds DEF Quiet
  <2> QED  BY <2>1, ReqFormFree DEF Shapes
<1> QED  BY <1>1 DEF Undrifted, Quiet, Contended, HeldBySnap, HeldBySync, SnapForm, PassForm

LEMMA UndriftedKept ==
    ASSUME TypeInv, TypeInv', Shapes, Shapes', HeldRows, Next,
           NEW c \in Clients, Undrifted(c), ~DriftCause(c)
    PROVE  Undrifted(c)'
<1>1. CASE Environment \/ Background
  BY <1>1, RestDrift, SnapDrift, SyncDrift DEF Background
<1>2. ASSUME NEW r \in Requests, Arrive(r) PROVE Undrifted(c)'
  BY <1>2, ArriveDrift, RestDrift
<1>3. ASSUME NEW r \in Requests, ReqStep(r) PROVE Undrifted(c)'
  <2>1. CASE JoinSnapshot(r)
    BY <2>1, JoinDrift
  <2>2. CASE ~JoinSnapshot(r)
    <3>1. req[r].op \in Naming \cup {"list", "dashboard"}
      <4>1. req[r] \in Req /\ ReqShape(req[r])
        BY DEF TypeInv, TypeOK, Shapes
      <4>2. req[r].op \in {"import", "overwrite"} => req[r].pc \in {"find", "importWrite", "importSync"}
        BY <4>1 DEF ReqShape
      <4>3. req[r].op \notin {"import", "overwrite"}
        BY <1>3, <4>2 DEF ReqStep, JoinSnapshot, SkipSnapshot, UpdateWrite, ExtendWrite, ExtendNothing,
           ResetWrite, ResetReread, RemoveWrite, ClientGone, Writes, DashboardPrime, ClientAdd,
           ClientReAdd, ClientDrop, ClientSyncFails, SweepRead, SweepWrite, SweepDrop
      <4> QED  BY <4>1, <4>3 DEF ReqShape, Req, OperationNames, Naming
    <3> QED  BY <1>3, <2>2, <3>1, NamedDrift, SweepDrift
  <2> QED  BY <2>1, <2>2
<1>4. ASSUME NEW r \in Requests, ImportAct(r) PROVE Undrifted(c)'
  BY <1>4, ImportDrift
<1> QED  BY <1>1, <1>2, <1>3, <1>4 DEF Next, ImportAct

LEMMA DriftKept ==
    ASSUME TypeInv, TypeInv', Shapes, Shapes', HeldRows, DriftForm, HistoryNext
    PROVE  DriftForm'
<1> SUFFICES ASSUME NEW c \in Clients, c \notin drift' PROVE Undrifted(c)'
  BY DEF DriftForm
<1>1. Next /\ ((c \notin drift /\ ~DriftCause(c)) \/ (Quiet(c)' /\ InStep(c)'))
  BY DEF HistoryNext, TrackHistory
<1>2. CASE Quiet(c)' /\ InStep(c)'
  <2>1. ASSUME NEW r \in Requests PROVE ReqForm(req'[r], c, db'[c], users', now')
    <3>1. ~Holds(req'[r], c)
      BY <1>2, HeldHolds DEF Quiet
    <3> QED  BY <3>1, ReqFormFree DEF Shapes
  <2> QED  BY <1>2, <2>1 DEF Undrifted, Quiet, Contended, HeldBySnap, HeldBySync, SnapForm, PassForm
<1>3. CASE c \notin drift /\ ~DriftCause(c)
  BY <1>1, <1>3, UndriftedKept DEF DriftForm
<1> QED  BY <1>1, <1>2, <1>3

LEMMA DriftAlways == HistorySpec => []DriftForm
<1>1. HistoryInit => DriftForm
  <2> SUFFICES ASSUME HistoryInit, NEW c \in Clients, c \notin drift PROVE Undrifted(c)
    BY DEF DriftForm
  <2>1. Quiet(c) /\ InStep(c)
    BY NoneImported DEF HistoryInit, Init, Quiet, HeldByRequest, HeldBySnap, HeldBySync,
       IdleReq, IdleSnap, IdleSync
  <2>2. Shapes
    <3>1. SnapShape /\ SyncShape
      BY DEF HistoryInit, Init, SnapShape, SyncShape, IdleSnap, IdleSync
    <3> QED  BY <3>1, IdleShape DEF HistoryInit, Init, Shapes
  <2> QED  BY <2>1, <2>2, QuietUndrifted
<1>2. TypeInv /\ TypeInv' /\ Shapes /\ Shapes' /\ KeptInv /\ DriftForm /\ [HistoryNext]_historyVars => DriftForm'
  <2>1. ASSUME DriftForm, UNCHANGED historyVars PROVE DriftForm'
    BY <2>1 DEF historyVars, vars, dbVars, xrayVars, envVars, DriftForm, Undrifted, InStep,
       Contended, Quiet, HeldByRequest, HeldBySnap, HeldBySync
  <2> QED  BY <2>1, DriftKept DEF KeptInv
<1> QED
  BY <1>1, <1>2, HistoryRefines, TypeInvCorrect, ShapesAlways, KeptInductive, PTL DEF HistorySpec

\* A client that no task is working on is out of step with its row only for one of
\* the known causes, whatever the requests, the snapshots and the synchronisations
\* did in between (DriftExplained).
THEOREM DriftStaysExplained == HistorySpec => []DriftExplained
<1>1. DriftForm => DriftExplained
  BY DEF DriftForm, Undrifted, DriftExplained
<1> QED  BY <1>1, DriftAlways, PTL
===============================================================================
