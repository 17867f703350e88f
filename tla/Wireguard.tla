------------------------------- MODULE Wireguard -------------------------------
(***************************************************************************)
(* WireguardService and the shell loop of its container.  Peers live in    *)
(* the database, one address each; the API renders the peers of the        *)
(* clients that may connect into a file, one rendering at a time, which    *)
(* callers share; the loop compares the file's hash and applies it.        *)
(*                                                                         *)
(* Of a client this component sees whether it may connect (ACTIVE) and     *)
(* whether WireGuard is enabled for it.  Each action is the code between   *)
(* two awaits of a job, or one command of the loop.                        *)
(***************************************************************************)
EXTENDS AddressPool

CONSTANTS
    Clients,
    Requests,       \* slots for the calls of admin requests
    Boot, Render,   \* the start-up task and the rendering
    Nobody, NoPeer, \* nulls of a job's client and of a peer
    NoFile,         \* the file is missing or empty
    AutoEnable,     \* WIREGUARD_AUTO_ENABLE_LEGACY_CLIENTS
    InitialRows,    \* client tables a start may find
    MaxRequests,    \* bound on the calls
    MaxLapses,      \* bound on changes nobody reports
    MaxRestarts     \* bound on restarts of the API and of the container

Jobs   == Requests \cup {Boot, Render}
Address == Words
Row    == [status : {"UNBORN", "ACTIVE", "INACTIVE", "DELETED"}, wg : BOOLEAN]
Config == [Clients -> Address \cup {NoPeer}]
File   == Config \cup {NoFile}
NoPeers == [c \in Clients |-> NoPeer]

ASSUME WireguardAssumption ==
    /\ Boot \notin Requests /\ Render \notin Requests /\ Boot # Render
    /\ Nobody \notin Clients
    /\ NoPeer \notin Int
    /\ NoFile \notin Config
    /\ AutoEnable \in BOOLEAN
    /\ InitialRows \subseteq [Clients -> Row]
    /\ {MaxRequests, MaxLapses, MaxRestarts} \subseteq Nat

VARIABLES
    row,        \* Client: status and wireguardEnabled
    peer,       \* WireguardPeer.assignedIpv4 of each client
    backfilled, \* the wireguardLegacyBackfillCompletedAt setting exists
    job,        \* what each task of the API is doing
    content,    \* the peers the rendering has read
    waiters,    \* jobs awaiting renderPromise
    file,       \* the generated configuration
    loop,       \* run.sh: its position, last_hash and current_hash
    iface,      \* the peers the WireGuard interface serves
    issued, lapses, restarts

dbVars     == <<row, peer, backfilled>>
renderVars == <<content, waiters, file>>
wgVars     == <<loop, iface>>
counts     == <<issued, lapses, restarts>>
vars       == <<dbVars, job, renderVars, wgVars, counts>>

Job == [pc   : {"idle", "setting", "enable", "find", "read", "create", "mark",
                "list", "join", "await", "reread", "truncate", "write"},
        op   : {"sync", "bundle", "backfill", "bootstrap", "render"},
        c    : Clients \cup {Nobody},             \* the client a request is about
        todo : SUBSET Clients,                    \* clients still to get a peer
        cur  : Clients \cup {Nobody},             \* ... the one in hand
        addr : Address \cup {NoPeer}]             \* ... and the address chosen

IdleJob(op) == [pc |-> "idle", op |-> op, c |-> Nobody, todo |-> {},
                cur |-> Nobody, addr |-> NoPeer]

Loop == [pc : {"wait", "up", "hash", "check", "apply"}, seen : File, found : File]
NewLoop == [pc |-> "wait", seen |-> NoFile, found |-> NoFile]

\* The types of all variables.
TypeOK ==
    /\ row \in [Clients -> Row]
    /\ peer \in Config
    /\ backfilled \in BOOLEAN
    /\ job \in [Jobs -> Job]
    /\ content \in Config
    /\ waiters \subseteq Jobs
    /\ file \in File
    /\ loop \in Loop
    /\ iface \in File
    /\ issued \in 0..MaxRequests
    /\ lapses \in 0..MaxLapses
    /\ restarts \in 0..MaxRestarts

\* The jobs of a process that has just started: the start-up task is due.
FreshJobs == [j \in Jobs |->
    CASE j = Boot   -> [IdleJob("backfill") EXCEPT !.pc = "setting"]
      [] j = Render -> IdleJob("render")
      [] OTHER      -> IdleJob("sync")]

Init ==
    /\ row \in InitialRows
    /\ peer = NoPeers
    /\ backfilled = FALSE
    /\ job = FreshJobs
    /\ content = NoPeers
    /\ waiters = {}
    /\ file = NoFile
    /\ loop = NewLoop
    /\ iface = NoFile
    /\ issued = 0 /\ lapses = 0 /\ restarts = 0

Stored(c)  == row[c].status \in {"ACTIVE", "INACTIVE"}
Wanted(c)  == row[c].status = "ACTIVE" /\ row[c].wg
InUse      == {peer[c] : c \in Clients} \ {NoPeer}

Move(j, rec) == job' = [job EXCEPT ![j] = rec]
At(j, pc)    == job[j].pc = pc

-------------------------------------------------------------------------------
(***************************************************************************)
(* Calls from the rest of the API, and what it does without calling.       *)
(***************************************************************************)

\* A job goes on with the clients that need a peer, and then with this.
After(op) == CASE op = "bundle"   -> "idle"
               [] op = "backfill" -> "mark"
               [] op = "render"   -> "reread"
               [] OTHER           -> "join"

Working(rec, todo) ==
    [rec EXCEPT !.pc   = IF todo = {} THEN After(rec.op) ELSE "find",
                !.todo = todo, !.cur = Nobody, !.addr = NoPeer]

Call(r, op, c, todo) ==
    /\ At(r, "idle")
    /\ issued < MaxRequests
    /\ issued' = issued + 1
    /\ Move(r, Working([IdleJob(op) EXCEPT !.c = c], todo))

\* create, update, extend, resetTraffic, an import and the expiry sweep store rows
\* and then call syncClient.
Store(r, c) ==
    /\ row[c].status # "DELETED"
    /\ \E status \in {"ACTIVE", "INACTIVE"}, wg \in BOOLEAN :
         /\ row' = [row EXCEPT ![c] = [status |-> status, wg |-> wg]]
         /\ Call(r, "sync", c, IF wg THEN {c} ELSE {})
    /\ UNCHANGED <<peer, backfilled, renderVars, wgVars, lapses, restarts>>

\* remove: the peer is deleted with the client, the call gets the old row.
Delete(r, c) ==
    /\ Stored(c)
    /\ row' = [row EXCEPT ![c].status = "DELETED"]
    /\ peer' = [peer EXCEPT ![c] = NoPeer]
    /\ Call(r, "sync", c, IF row[c].wg THEN {c} ELSE {})
    /\ UNCHANGED <<backfilled, renderVars, wgVars, lapses, restarts>>

\* getClientBundle, for a subscription page: makes sure of a peer, no rendering.
Bundle(r, c) ==
    /\ Stored(c) /\ row[c].wg
    /\ Call(r, "bundle", c, {c})
    /\ UNCHANGED <<dbVars, renderVars, wgVars, lapses, restarts>>

\* The clock, the quota and access limits of the Xray snapshot and the dashboard
\* end a client's access; none of them calls this service.
Lapse(c) ==
    /\ row[c].status = "ACTIVE"
    /\ lapses < MaxLapses
    /\ lapses' = lapses + 1
    /\ row' = [row EXCEPT ![c].status = "INACTIVE"]
    /\ UNCHANGED <<peer, backfilled, job, renderVars, wgVars, issued, restarts>>

ApiRestart ==
    /\ restarts < MaxRestarts
    /\ restarts' = restarts + 1
    /\ job' = FreshJobs
    /\ content' = NoPeers
    /\ waiters' = {}
    /\ UNCHANGED <<dbVars, file, wgVars, issued, lapses>>

-------------------------------------------------------------------------------
(***************************************************************************)
(* ensurePeerForClientId, for one client after the other.                  *)
(***************************************************************************)

\* A job ends, by an error or else: requests and the start-up task swallow the
\* error, the rendering settles the promise its callers await, which ends them
\* too.  In the slip it leaves them waiting.
EndsAlone(j) ==
    /\ job' = [job EXCEPT ![j] = IdleJob(@.op)]
    /\ UNCHANGED waiters
Ends(j) ==
    LET ended == IF j = Render THEN waiters \cup {Render} ELSE {j}
    IN  /\ job' = [i \in Jobs |-> IF i \in ended THEN IdleJob(job[i].op) ELSE job[i]]
        /\ waiters' = waiters \ ended

PeerFound(j, c) ==
    /\ At(j, "find")
    /\ c \in job[j].todo
    /\ peer[c] # NoPeer
    /\ Move(j, Working(job[j], job[j].todo \ {c}))
    /\ UNCHANGED <<dbVars, renderVars, wgVars, counts>>

PeerMissing(j, c) ==
    /\ At(j, "find")
    /\ c \in job[j].todo
    /\ peer[c] = NoPeer
    /\ Move(j, [job[j] EXCEPT !.pc = "read", !.cur = c])
    /\ UNCHANGED <<dbVars, renderVars, wgVars, counts>>

\* The client and the addresses in use are read together; a client that is
\* gone gets nothing, and without a free address the allocator throws.
PeerSkip(j) ==
    /\ At(j, "read")
    /\ ~Stored(job[j].cur)
    /\ Move(j, Working(job[j], job[j].todo \ {job[j].cur}))
    /\ UNCHANGED <<dbVars, renderVars, wgVars, counts>>

PeerChoose(j) ==
    /\ At(j, "read")
    /\ Stored(job[j].cur)
    /\ Candidates(InUse) # {}
    /\ Move(j, [job[j] EXCEPT !.pc = "create", !.addr = Allocate(InUse)])
    /\ UNCHANGED <<dbVars, renderVars, wgVars, counts>>

PoolExhausted(j) ==
    /\ At(j, "read")
    /\ Stored(job[j].cur)
    /\ Candidates(InUse) = {}
    /\ Ends(j)
    /\ UNCHANGED <<dbVars, content, file, wgVars, counts>>

\* The unique indexes on client and address, and the reference to the client;
\* a slip would leave the address out of them.
InsertableAnyAddress(c, addr) == Stored(c) /\ peer[c] = NoPeer
Insertable(c, addr) == Stored(c) /\ peer[c] = NoPeer /\ addr \notin InUse

PeerCreate(j) ==
    /\ At(j, "create")
    /\ Insertable(job[j].cur, job[j].addr)
    /\ peer' = [peer EXCEPT ![job[j].cur] = job[j].addr]
    /\ Move(j, Working(job[j], job[j].todo \ {job[j].cur}))
    /\ UNCHANGED <<row, backfilled, renderVars, wgVars, counts>>

PeerCreateFails(j) ==
    /\ At(j, "create")
    /\ ~Insertable(job[j].cur, job[j].addr)
    /\ Ends(j)
    /\ UNCHANGED <<dbVars, content, file, wgVars, counts>>

-------------------------------------------------------------------------------
(***************************************************************************)
(* The start-up task: the backfill, then syncAllClients.                   *)
(***************************************************************************)

BootSetting ==
    /\ At(Boot, "setting")
    /\ Move(Boot, IF ~AutoEnable \/ backfilled
                  THEN [IdleJob("bootstrap") EXCEPT !.pc = "list"]
                  ELSE [job[Boot] EXCEPT !.pc = "enable",
                                         !.todo = {c \in Clients : Stored(c)}])
    /\ UNCHANGED <<dbVars, renderVars, wgVars, counts>>

\* updateMany, unless no client was read.
BootEnable ==
    /\ At(Boot, "enable")
    /\ row' = [c \in Clients |->
                 IF job[Boot].todo # {} /\ Stored(c) THEN [row[c] EXCEPT !.wg = TRUE]
                 ELSE row[c]]
    /\ Move(Boot, Working(job[Boot], job[Boot].todo))
    /\ UNCHANGED <<peer, backfilled, renderVars, wgVars, counts>>

BootMark ==
    /\ At(Boot, "mark")
    /\ backfilled' = TRUE
    /\ Move(Boot, [IdleJob("bootstrap") EXCEPT !.pc = "list"])
    /\ UNCHANGED <<row, peer, renderVars, wgVars, counts>>

BootList ==
    /\ At(Boot, "list")
    /\ Move(Boot, Working(job[Boot], {c \in Clients : Stored(c) /\ row[c].wg}))
    /\ UNCHANGED <<dbVars, renderVars, wgVars, counts>>

-------------------------------------------------------------------------------
(***************************************************************************)
(* renderConfigForCurrentClients and performRenderConfig.                  *)
(***************************************************************************)

\* Joins the rendering under way or starts one; a slip would only start one.
JoinIfIdle(j) ==
    /\ At(j, "join")
    /\ IF At(Render, "idle")
       THEN /\ waiters' = waiters \cup {j}
            /\ job' = [job EXCEPT ![j].pc = "await", ![Render].pc = "list"]
       ELSE /\ UNCHANGED waiters
            /\ Move(j, IdleJob(job[j].op))
    /\ UNCHANGED <<dbVars, content, file, wgVars, counts>>
Join(j) ==
    /\ At(j, "join")
    /\ waiters' = waiters \cup {j}
    /\ job' = [i \in Jobs |->
                 IF i = j THEN [job[i] EXCEPT !.pc = "await"]
                 ELSE IF i = Render /\ At(Render, "idle") THEN [job[i] EXCEPT !.pc = "list"]
                 ELSE job[i]]
    /\ UNCHANGED <<dbVars, content, file, wgVars, counts>>

RenderList ==
    /\ At(Render, "list")
    /\ Move(Render, Working(job[Render],
                            {c \in Clients : Stored(c) /\ row[c].wg /\ peer[c] = NoPeer}))
    /\ UNCHANGED <<dbVars, renderVars, wgVars, counts>>

\* The peers of the clients that may connect.
Rendered == [c \in Clients |-> IF Wanted(c) THEN peer[c] ELSE NoPeer]

RenderReread ==
    /\ At(Render, "reread")
    /\ content' = Rendered
    /\ Move(Render, [job[Render] EXCEPT !.pc = "truncate"])
    /\ UNCHANGED <<dbVars, waiters, file, wgVars, counts>>

\* writeFile opens the file empty, then writes it, and the promise settles.
RenderTruncate ==
    /\ At(Render, "truncate")
    /\ file' = NoFile
    /\ Move(Render, [job[Render] EXCEPT !.pc = "write"])
    /\ UNCHANGED <<dbVars, content, waiters, wgVars, counts>>

RenderWrite ==
    /\ At(Render, "write")
    /\ file' = content
    /\ content' = NoPeers
    /\ Ends(Render)
    /\ UNCHANGED <<dbVars, wgVars, counts>>

-------------------------------------------------------------------------------
(***************************************************************************)
(* run.sh.                                                                 *)
(***************************************************************************)

LoopWait ==
    /\ loop.pc = "wait"
    /\ file # NoFile
    /\ loop' = [loop EXCEPT !.pc = "up"]
    /\ UNCHANGED <<dbVars, job, renderVars, iface, counts>>

LoopUp ==
    /\ loop.pc = "up"
    /\ iface' = file
    /\ loop' = [loop EXCEPT !.pc = "hash"]
    /\ UNCHANGED <<dbVars, job, renderVars, counts>>

LoopHash ==
    /\ loop.pc = "hash"
    /\ loop' = [loop EXCEPT !.pc = "check", !.seen = file]
    /\ UNCHANGED <<dbVars, job, renderVars, iface, counts>>

LoopCheck ==
    /\ loop.pc = "check"
    /\ file # loop.seen
    /\ loop' = [loop EXCEPT !.pc = "apply", !.found = file]
    /\ UNCHANGED <<dbVars, job, renderVars, iface, counts>>

\* The file is read again to be applied; the hash kept is the earlier one.  A
\* slip would go on when `wg syncconf` fails.
LoopApplyAtBest ==
    /\ loop.pc = "apply"
    /\ iface' \in {iface, file}
    /\ loop' = [pc |-> "check", seen |-> loop.found, found |-> NoFile]
    /\ UNCHANGED <<dbVars, job, renderVars, counts>>
LoopApply ==
    /\ loop.pc = "apply"
    /\ iface' = file
    /\ loop' = [pc |-> "check", seen |-> loop.found, found |-> NoFile]
    /\ UNCHANGED <<dbVars, job, renderVars, counts>>

\* The container stops.  Its trap takes the interface down, unless it is killed
\* first: the interface is the host's and outlives the container.
LoopRestart ==
    /\ restarts < MaxRestarts
    /\ restarts' = restarts + 1
    /\ loop' = NewLoop
    /\ iface' \in {iface, NoFile}
    /\ UNCHANGED <<dbVars, job, renderVars, issued, lapses>>

-------------------------------------------------------------------------------
PeerStep(j) ==
    \/ \E c \in Clients : PeerFound(j, c) \/ PeerMissing(j, c)
    \/ PeerSkip(j) \/ PeerChoose(j) \/ PoolExhausted(j)
    \/ PeerCreate(j) \/ PeerCreateFails(j)

BootStep   == BootSetting \/ BootEnable \/ BootMark \/ BootList
RenderStep == RenderList \/ RenderReread \/ RenderTruncate \/ RenderWrite
LoopStep   == LoopWait \/ LoopUp \/ LoopHash \/ LoopCheck \/ LoopApply

Environment ==
    \/ \E r \in Requests, c \in Clients : Store(r, c) \/ Delete(r, c) \/ Bundle(r, c)
    \/ \E c \in Clients : Lapse(c)
    \/ ApiRestart \/ LoopRestart

Next ==
    \/ Environment
    \/ \E j \in Jobs : PeerStep(j) \/ Join(j)
    \/ BootStep \/ RenderStep \/ LoopStep

Spec == Init /\ [][Next]_vars

\* Node runs every task that can run and the shell loop keeps turning.
Fairness ==
    /\ \A j \in Jobs : WF_vars(PeerStep(j) \/ Join(j))
    /\ WF_vars(BootStep) /\ WF_vars(RenderStep) /\ WF_vars(LoopStep)

FairSpec == Spec /\ Fairness

-------------------------------------------------------------------------------
(* Properties.                                                             *)

\* No two clients ever share an address, among the peers stored, in the file
\* or on the interface, whoever is deleted and whatever is rendered meanwhile.
Exclusive(config) ==
    \A c, d \in Clients : config[c] = config[d] /\ config[c] # NoPeer => c = d
AddressesExclusive ==
    /\ Exclusive(peer)
    /\ file # NoFile => Exclusive(file)
    /\ iface # NoFile => Exclusive(iface)

\* The check of allocateWireguardPeerIpv4 for the server's and used addresses:
\* with the peers there are, it finds the lowest free host, if there is one.
PoolServes == AllocatesLowestHost(InUse)

\* Every task of the service ends, also when the rendering it joined fails.
CallsComplete == \A j \in Jobs : job[j].pc # "idle" ~> job[j].pc = "idle"

\* A client's entry in the file, and that it is what the table asks for.
Entry(c)  == IF file = NoFile THEN NoPeer ELSE file[c]
InFile(c) == IF Wanted(c) THEN peer[c] # NoPeer /\ Entry(c) = peer[c]
             ELSE Entry(c) = NoPeer
===============================================================================
