----------------------------- MODULE ControlPlane -----------------------------
(***************************************************************************)
(* The control plane of VLESS clients: admin requests, snapshots, full     *)
(* synchronisations and the reconciler interleave over one database and    *)
(* one Xray process.  The database is canonical; Xray's user table must    *)
(* follow it, and Xray's counters must reach it.                           *)
(***************************************************************************)
EXTENDS ClientImport

Environment ==
    \/ Tick \/ XrayStart \/ XrayStop \/ ApiRestart
    \/ \E c \in Clients : Traffic(c)

Background == SnapTimer \/ SnapStep \/ SyncStep \/ EnsureSample \/ EnsureDecide \/ Probe

Next ==
    \/ Environment
    \/ Background
    \/ \E r \in Requests : Arrive(r) \/ ReqStep(r)
    \/ \E r \in Requests : ImportStep(r) \/ \E op \in Operations : Import(r, op)

Spec == Init /\ [][Next]_vars

\* Xray accepts client c exactly when its row says so.
InStep(c) == c \in users <=> Servable(db[c], now)

(***************************************************************************)
(* Node runs every task that can run, both timers keep firing, and Docker  *)
(* restarts Xray.  Nothing else is sure to happen: no request, no fault    *)
(* and no traffic.                                                         *)
(***************************************************************************)
Fairness ==
    /\ WF_vars(XrayStart)
    /\ WF_vars(SnapTimer) /\ WF_vars(SnapStep)
    /\ WF_vars(SyncStep)
    /\ WF_vars(EnsureSample) /\ WF_vars(EnsureDecide)
    /\ \A r \in Requests : WF_vars(ReqStep(r)) /\ WF_vars(ImportStep(r))

FairSpec == Spec /\ Fairness

-------------------------------------------------------------------------------
(* Safety.                                                                 *)

\* Bytes are recorded at most once: what the usage table, a snapshot in
\* progress and Xray's counters hold of a client never exceeds what it sent
\* and imports added, for QueryStats reads and resets in one call.
Pending(c) == usage[c] + snap.delta[c] + counters[c]
Due(c) == sent[c] + imported[c]
NoDoubleCounting == \A c \in Clients : Pending(c) <= Due(c)

\* Traffic of a stored client is lost only to a failed snapshot, a process
\* stop, or a reset, removal or import of that client; a snapshot that
\* succeeds keeps it all.
LosesTraffic(c) ==
    \/ XrayStop \/ ApiRestart \/ SnapQueryFails \/ SnapRecordFails
    \/ \E r \in Requests : req[r].c = c /\ (ResetWrite(r) \/ RemoveWrite(r) \/ ImportWrite(r))
TrafficKept ==
    [][\A c \in Clients :
          Stored(db[c]) /\ Pending(c)' < Pending(c) => LosesTraffic(c)]_vars

\* Usage table, snapshots and counters implement the account of TrafficLedger:
\* whatever requests, crashes and failed calls do in between, recorded traffic
\* grows only by what ceases to be pending, or by what an import brings for one
\* client; it shrinks only for one client, by a reset, a removal or an import.
\* None of these touches what is still with Xray or a snapshot.
Ledger == INSTANCE TrafficLedger WITH
    recorded <- usage,
    pending  <- [c \in Clients |-> snap.delta[c] + counters[c]],
    due      <- [c \in Clients |-> Due(c)]
AccountsLikeLedger == Ledger!LedgerSpec

-------------------------------------------------------------------------------
(* Liveness.                                                               *)

\* Every admin request is answered: a snapshot that fails releases the
\* requests that joined it like one that succeeds.
RequestsComplete == \A r \in Requests : req[r].pc # "idle" ~> req[r].pc = "idle"

\* A served client whose unread traffic takes it to its limit is cut off,
\* unless its limit or its traffic is taken back.
AtLimit(c) == OverQuota(db[c], Pending(c))
OverQuotaCutOff ==
    \A c \in Clients :
        c \in users /\ counters[c] > 0 /\ AtLimit(c) ~> c \notin users \/ ~AtLimit(c)

\* The comment on syncClientBestEffort: when Xray could not be reached, "the
\* periodic reconciler will repair runtime drift".
DriftRepaired == <>[](\A c \in Clients : InStep(c))

\* docs/TROUBLESHOOTING.md lists an expired client among those that cannot
\* connect: a row marked EXPIRED does not stay served for ever.
ExpiredCutOff ==
    \A c \in Clients :
        db[c].status = "EXPIRED" ~> db[c].status # "EXPIRED" \/ c \notin users
===============================================================================
