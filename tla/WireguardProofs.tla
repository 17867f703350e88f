---------------------------- MODULE WireguardProofs ----------------------------
(***************************************************************************)
(* Theorems about Wireguard for any clients, requests, network and bounds, *)
(* and about its allocator of addresses for any word and any network.      *)
(***************************************************************************)
EXTENDS WireguardHistory, TLAPS, WellFoundedInduction

-------------------------------------------------------------------------------
(* The allocator, for any network in the half of the address space where a *)
(* word is its own signed value.                                           *)

\* A block that divides an interval and meets it lies in it.
LEMMA BlockBounds ==
    ASSUME NEW k \in Nat, NEW top \in Nat, top = k * Block, Server < top
    PROVE  /\ Base \in Nat
           /\ Base + Block <= top
<1>1. Server \in Nat /\ Block \in Nat \ {0}
  BY PoolAssumption DEF Words
<1> DEFINE q == Server \div Block
<1>2. q \in Nat /\ Base = q * Block
  BY <1>1, Z3 DEF Base
<1>3. q < k
  <2>1. q * Block <= Server
    BY <1>1, Z3
  <2>2. ~(k <= q)
    BY <1>1, <1>2, <2>1, Z3
  <2> QED  BY <1>2, <2>2
<1>4. (q + 1) * Block <= k * Block
  BY <1>1, <1>2, <1>3, Z3
<1>5. (q + 1) * Block = Base + Block
  BY <1>1, <1>2, Z3
<1>6. Base \in Nat
  <2> HIDE DEF q
  <2> QED  BY <1>1, <1>2, Z3
<1>7. Base + Block <= top
  BY <1>4, <1>5
<1> QED  BY <1>6, <1>7

\* The network, base and broadcast address included, lies in the word, and in
\* its lower half when the server's address does.
LEMMA NetworkInWords == Base \in Words /\ Base + Block - 1 \in Words
<1>1. Half \in Nat \ {0} /\ Server \in Words /\ Block \in Nat \ {0}
  BY PoolAssumption DEF Words
<1>2. \E k \in Nat : 2 * Half = k * Block
  <2>1. CASE Block = 2 * Half
    BY <1>1, <2>1
  <2>2. CASE \E k \in 1..Half : Half = k * Block
    <3>1. PICK k \in 1..Half : Half = k * Block
      BY <2>2
    <3>2. 2 * Half = (2 * k) * Block /\ 2 * k \in Nat
      BY <1>1, <3>1, Z3
    <3> QED  BY <3>2
  <2> QED  BY <2>1, <2>2, PoolAssumption
<1>3. Base \in Nat /\ Base + Block <= 2 * Half
  BY <1>1, <1>2, BlockBounds DEF Words
<1> QED  BY <1>1, <1>3 DEF Words

LEMMA NetworkInLowHalf ==
    ASSUME Server < Half, Block <= Half
    PROVE  Base \in Nat /\ Base + Block - 1 < Half
<1>1. Half \in Nat \ {0} /\ Server \in Words /\ Block \in Nat \ {0}
  BY PoolAssumption DEF Words
<1>2. PICK k \in Nat : Half = k * Block
  BY <1>1, PoolAssumption
<1>3. Base \in Nat /\ Base + Block <= Half
  BY <1>1, <1>2, BlockBounds
<1> QED  BY <1>1, <1>3

\* A set of natural numbers that is not empty has a least element.
LEMMA LeastNumber ==
    ASSUME NEW S, S \subseteq Nat, S # {}
    PROVE  \E n \in S : \A m \in S : n <= m
<1> DEFINE less == {p \in Nat \X Nat : p[1] < p[2]}
<1>1. IsWellFoundedOn(less, Nat)
  BY NatLessThanWellFounded DEF OpToRel
<1>2. PICK n \in S : \A m \in S : <<m, n>> \notin less
  <2> HIDE DEF less
  <2> QED  BY <1>1, WFMin
<1>3. ASSUME NEW m \in S PROVE n <= m
  <2>1. <<m, n>> \in Nat \X Nat /\ <<m, n>>[1] = m /\ <<m, n>>[2] = n
    OBVIOUS
  <2>2. ~(m < n)
    BY <1>2, <2>1
  <2> QED  BY <2>2
<1> QED  BY <1>3

\* So has a set of integers with a lower bound: count from there.
LEMMA LeastInteger ==
    ASSUME NEW S, S # {}, NEW low \in Int, \A n \in S : n \in Int /\ low <= n
    PROVE  \E n \in S : \A m \in S : n <= m
<1> DEFINE T == {n - low : n \in S}
<1>1. T \subseteq Nat /\ T # {}
  OBVIOUS
<1>2. PICK t \in T : \A u \in T : t <= u
  BY <1>1, LeastNumber
<1>3. PICK n \in S : t = n - low
  OBVIOUS
<1>4. ASSUME NEW m \in S PROVE n <= m
  <2>1. m - low \in T
    OBVIOUS
  <2> QED  BY <1>2, <1>3, <2>1
<1> QED  BY <1>4

\* With a server address in the lower half of the address space (10.44.0.1/24,
\* the default, is), allocateWireguardPeerIpv4 finds the lowest free host
\* address, and refuses only when there is none, whatever is in use.
THEOREM LowHalfAllocation ==
    ASSUME Server < Half, Block <= Half, NEW used
    PROVE  AllocatesLowestHost(used)
<1> DEFINE free == Hosts \ used
<1>1. /\ Base \in Nat /\ Block \in Nat /\ Half \in Nat
      /\ Base + Block - 1 < Half /\ Block # 0
  BY NetworkInLowHalf, PoolAssumption DEF Words
<1>2. NetworkAddress = Base /\ BroadcastAddress = Base + Block - 1
  BY <1>1 DEF NetworkAddress, BroadcastAddress, Signed
<1>3. Candidates(used) = free
  BY <1>1, <1>2 DEF Candidates, Hosts, Words
<1>4. free \subseteq Nat
  BY <1>1 DEF Hosts, Words
<1>5. ASSUME free # {}
      PROVE  Allocate(used) \in free /\ \A a \in free : Allocate(used) <= a
  <2> DEFINE least == CHOOSE n \in free : \A m \in free : n <= m
  <2>1. least \in free /\ \A a \in free : least <= a
    BY <1>4, <1>5, LeastNumber
  <2>2. Allocate(used) = least
    <3>1. Allocate(used) = ToAddress(least)
      BY <1>3 DEF Allocate
    <3> QED  BY <1>4, <2>1, <3>1 DEF ToAddress
  <2> QED  BY <2>1, <2>2
<1> QED  BY <1>3, <1>5 DEF AllocatesLowestHost

-------------------------------------------------------------------------------
(* The component.                                                          *)

\* The allocator returns an address, wherever the network lies.
LEMMA AllocateType ==
    ASSUME NEW used, Candidates(used) # {}
    PROVE  Allocate(used) \in Address
<1>1. Half \in Nat \ {0} /\ Server \in Words /\ Block \in Nat \ {0}
  BY PoolAssumption DEF Words
<1>2. Base \in Words /\ Base + Block - 1 \in Words
  BY NetworkInWords
<1>3. /\ NetworkAddress \in (-Half)..(Half - 1)
      /\ BroadcastAddress \in (-Half)..(Half - 1)
  BY <1>1, <1>2 DEF NetworkAddress, BroadcastAddress, Signed, Words
<1> DEFINE least == CHOOSE n \in Candidates(used) : \A m \in Candidates(used) : n <= m
<1>4. Candidates(used) \subseteq (-Half)..(Half - 1)
  BY <1>1, <1>3 DEF Candidates
<1>5. least \in Candidates(used)
  <2>1. \A n \in Candidates(used) : n \in Int /\ -Half <= n
    BY <1>1, <1>4
  <2>2. \E n \in Candidates(used) : \A m \in Candidates(used) : n <= m
    BY <1>1, <2>1, LeastInteger
  <2> QED  BY <2>2
<1>6. least \in (-Half)..(Half - 1)
  BY <1>4, <1>5
<1>7. ToAddress(least) \in Words
  <2> HIDE DEF least
  <2> QED  BY <1>1, <1>6 DEF ToAddress, Words
<1> QED  BY <1>7 DEF Allocate, Address

\* The jobs the actions write are jobs.
LEMMA IdleType ==
    ASSUME NEW op \in {"sync", "bundle", "backfill", "bootstrap", "render"}
    PROVE  IdleJob(op) \in Job
  BY DEF IdleJob, Job

LEMMA WorkingType ==
    ASSUME NEW rec \in Job, NEW todo \in SUBSET Clients
    PROVE  Working(rec, todo) \in Job
<1>1. After(rec.op) \in {"idle", "mark", "reread", "join"}
  BY DEF After
<1> QED  BY <1>1 DEF Working, Job

LEMMA FreshTypes == FreshJobs \in [Jobs -> Job]
<1>1. [IdleJob("backfill") EXCEPT !.pc = "setting"] \in Job
  BY DEF IdleJob, Job
<1> QED  BY <1>1, IdleType DEF FreshJobs

\* What a step writes to job when it ends jobs, or moves one.
LEMMA EndsType ==
    ASSUME TypeOK, NEW j \in Jobs, Ends(j)
    PROVE  job' \in [Jobs -> Job] /\ waiters' \subseteq Jobs
<1>1. \A i \in Jobs : IdleJob(job[i].op) \in Job
  BY IdleType DEF TypeOK, Job
<1> QED  BY <1>1 DEF Ends, TypeOK

LEMMA MoveType ==
    ASSUME TypeOK, NEW j \in Jobs, NEW rec \in Job, Move(j, rec)
    PROVE  job' \in [Jobs -> Job]
  BY DEF Move, TypeOK

LEMMA CallType ==
    ASSUME TypeOK, NEW r \in Requests, NEW op \in {"sync", "bundle"}, NEW c \in Clients,
           NEW todo \in SUBSET Clients, Call(r, op, c, todo)
    PROVE  job' \in [Jobs -> Job] /\ issued' \in 0..MaxRequests
<1>1. [IdleJob(op) EXCEPT !.c = c] \in Job
  BY DEF IdleJob, Job
<1>2. Working([IdleJob(op) EXCEPT !.c = c], todo) \in Job
  BY <1>1, WorkingType
<1>3. r \in Jobs
  BY DEF Jobs
<1>4. job' \in [Jobs -> Job]
  BY <1>2, <1>3, MoveType DEF Call
<1> QED  BY <1>4, WireguardAssumption DEF Call, TypeOK

-------------------------------------------------------------------------------
LEMMA TypeInit == Init => TypeOK
<1> SUFFICES ASSUME Init PROVE TypeOK
  OBVIOUS
<1>1. row \in [Clients -> Row]
  BY WireguardAssumption DEF Init
<1>2. job \in [Jobs -> Job]
  BY FreshTypes DEF Init
<1>3. NoPeers \in Config
  BY DEF NoPeers, Config
<1>4. NewLoop \in Loop /\ NoFile \in File
  BY DEF NewLoop, Loop, File
<1>5. 0 \in 0..MaxRequests /\ 0 \in 0..MaxLapses /\ 0 \in 0..MaxRestarts
  BY WireguardAssumption
<1> QED  BY <1>1, <1>2, <1>3, <1>4, <1>5 DEF Init, TypeOK

LEMMA TypeEnvironment == TypeOK /\ Environment => TypeOK'
<1> SUFFICES ASSUME TypeOK, Environment PROVE TypeOK'
  OBVIOUS
<1> USE DEF dbVars, renderVars, wgVars, counts
<1>1. ASSUME NEW r \in Requests, NEW c \in Clients, Store(r, c) PROVE TypeOK'
  <2>1. PICK status \in {"ACTIVE", "INACTIVE"}, wg \in BOOLEAN :
           /\ row' = [row EXCEPT ![c] = [status |-> status, wg |-> wg]]
           /\ Call(r, "sync", c, IF wg THEN {c} ELSE {})
    BY <1>1 DEF Store
  <2>2. row' \in [Clients -> Row]
    BY <2>1 DEF TypeOK, Row
  <2>3. job' \in [Jobs -> Job] /\ issued' \in 0..MaxRequests
    BY <2>1, CallType
  <2> QED  BY <1>1, <2>2, <2>3 DEF Store, TypeOK
<1>2. ASSUME NEW r \in Requests, NEW c \in Clients, Delete(r, c) PROVE TypeOK'
  <2>1. row' \in [Clients -> Row]
    BY <1>2 DEF Delete, TypeOK, Row
  <2>2. peer' \in Config
    BY <1>2 DEF Delete, TypeOK, Config
  <2>3. job' \in [Jobs -> Job] /\ issued' \in 0..MaxRequests
    BY <1>2, CallType DEF Delete
  <2> QED  BY <1>2, <2>1, <2>2, <2>3 DEF Delete, TypeOK
<1>3. ASSUME NEW r \in Requests, NEW c \in Clients, Bundle(r, c) PROVE TypeOK'
  <2>1. job' \in [Jobs -> Job] /\ issued' \in 0..MaxRequests
    BY <1>3, CallType DEF Bundle
  <2> QED  BY <1>3, <2>1 DEF Bundle, TypeOK
<1>4. ASSUME NEW c \in Clients, Lapse(c) PROVE TypeOK'
  <2>1. row' \in [Clients -> Row]
    BY <1>4 DEF Lapse, TypeOK, Row
  <2>2. lapses' \in 0..MaxLapses
    BY <1>4, WireguardAssumption DEF Lapse, TypeOK
  <2> QED  BY <1>4, <2>1, <2>2 DEF Lapse, TypeOK
<1>5. CASE ApiRestart
  <2>1. content' \in Config
    BY <1>5 DEF ApiRestart, NoPeers, Config
  <2>2. restarts' \in 0..MaxRestarts
    BY <1>5, WireguardAssumption DEF ApiRestart, TypeOK
  <2> QED  BY <1>5, <2>1, <2>2, FreshTypes DEF ApiRestart, TypeOK
<1>6. CASE LoopRestart
  <2>1. loop' \in Loop /\ iface' \in File
    BY <1>6 DEF LoopRestart, NewLoop, Loop, File, TypeOK
  <2>2. restarts' \in 0..MaxRestarts
    BY <1>6, WireguardAssumption DEF LoopRestart, TypeOK
  <2> QED  BY <1>6, <2>1, <2>2 DEF LoopRestart, TypeOK
<1> QED  BY <1>1, <1>2, <1>3, <1>4, <1>5, <1>6 DEF Environment

LEMMA TypePeerStep ==
    ASSUME TypeOK, NEW j \in Jobs, PeerStep(j)
    PROVE  TypeOK'
<1> USE DEF dbVars, renderVars, wgVars, counts
<1>1. job[j] \in Job /\ job[j].todo \in SUBSET Clients
  BY DEF TypeOK, Job
<1>2. \A done : Working(job[j], job[j].todo \ {done}) \in Job
  BY <1>1, WorkingType
<1>3. ASSUME NEW c \in Clients, PeerFound(j, c) PROVE TypeOK'
  <2>1. job' \in [Jobs -> Job]
    BY <1>2, <1>3, MoveType DEF PeerFound
  <2> QED  BY <1>3, <2>1 DEF PeerFound, TypeOK
<1>4. ASSUME NEW c \in Clients, PeerMissing(j, c) PROVE TypeOK'
  <2>1. [job[j] EXCEPT !.pc = "read", !.cur = c] \in Job
    BY <1>1 DEF Job
  <2>2. job' \in [Jobs -> Job]
    BY <1>4, <2>1, MoveType DEF PeerMissing
  <2> QED  BY <1>4, <2>2 DEF PeerMissing, TypeOK
<1>5. CASE PeerSkip(j)
  <2>1. job' \in [Jobs -> Job]
    BY <1>2, <1>5, MoveType DEF PeerSkip
  <2> QED  BY <1>5, <2>1 DEF PeerSkip, TypeOK
<1>6. CASE PeerChoose(j)
  <2>1. Allocate(InUse) \in Address
    BY <1>6, AllocateType DEF PeerChoose
  <2>2. [job[j] EXCEPT !.pc = "create", !.addr = Allocate(InUse)] \in Job
    BY <1>1, <2>1 DEF Job
  <2>3. job' \in [Jobs -> Job]
    BY <1>6, <2>2, MoveType DEF PeerChoose
  <2> QED  BY <1>6, <2>3 DEF PeerChoose, TypeOK
<1>7. CASE PoolExhausted(j)
  BY <1>7, EndsType DEF PoolExhausted, TypeOK
<1>8. CASE PeerCreate(j)
  <2>1. peer' \in Config
    BY <1>1, <1>8 DEF PeerCreate, Config, Job, TypeOK
  <2>2. job' \in [Jobs -> Job]
    BY <1>2, <1>8, MoveType DEF PeerCreate
  <2> QED  BY <1>8, <2>1, <2>2 DEF PeerCreate, TypeOK
<1>9. CASE PeerCreateFails(j)
  BY <1>9, EndsType DEF PeerCreateFails, TypeOK
<1> QED  BY <1>3, <1>4, <1>5, <1>6, <1>7, <1>8, <1>9 DEF PeerStep

LEMMA TypeBootStep == TypeOK /\ BootStep => TypeOK'
<1> SUFFICES ASSUME TypeOK, BootStep PROVE TypeOK'
  OBVIOUS
<1> USE DEF renderVars, wgVars, counts
<1>1. Boot \in Jobs /\ job[Boot] \in Job /\ job[Boot].todo \in SUBSET Clients
  BY DEF Jobs, TypeOK, Job
<1>2. [IdleJob("bootstrap") EXCEPT !.pc = "list"] \in Job
  BY DEF IdleJob, Job
<1>3. CASE BootSetting
  <2>1. [job[Boot] EXCEPT !.pc = "enable", !.todo = {c \in Clients : Stored(c)}] \in Job
    BY <1>1 DEF Job
  <2>2. job' \in [Jobs -> Job]
    BY <1>1, <1>2, <1>3, <2>1, MoveType DEF BootSetting
  <2> QED  BY <1>3, <2>2 DEF BootSetting, dbVars, TypeOK
<1>4. CASE BootEnable
  <2>1. row' \in [Clients -> Row]
    BY <1>4 DEF BootEnable, TypeOK, Row
  <2>2. job' \in [Jobs -> Job]
    BY <1>1, <1>4, WorkingType, MoveType DEF BootEnable
  <2> QED  BY <1>4, <2>1, <2>2 DEF BootEnable, TypeOK
<1>5. CASE BootMark
  <2>1. job' \in [Jobs -> Job]
    BY <1>1, <1>2, <1>5, MoveType DEF BootMark
  <2> QED  BY <1>5, <2>1 DEF BootMark, TypeOK
<1>6. CASE BootList
  <2>1. job' \in [Jobs -> Job]
    BY <1>1, <1>6, WorkingType, MoveType DEF BootList
  <2> QED  BY <1>6, <2>1 DEF BootList, dbVars, TypeOK
<1> QED  BY <1>3, <1>4, <1>5, <1>6 DEF BootStep

LEMMA TypeJoin ==
    ASSUME TypeOK, NEW j \in Jobs, Join(j)
    PROVE  TypeOK'
<1>1. \A i \in Jobs, pc \in {"await", "list"} : [job[i] EXCEPT !.pc = pc] \in Job
  BY DEF TypeOK, Job
<1>2. job' \in [Jobs -> Job]
  BY <1>1 DEF Join, TypeOK
<1>3. waiters' \subseteq Jobs
  BY DEF Join, TypeOK
<1> QED  BY <1>2, <1>3 DEF Join, TypeOK, dbVars, wgVars, counts

LEMMA TypeRenderStep == TypeOK /\ RenderStep => TypeOK'
<1> SUFFICES ASSUME TypeOK, RenderStep PROVE TypeOK'
  OBVIOUS
<1> USE DEF dbVars, wgVars, counts
<1>1. Render \in Jobs /\ job[Render] \in Job
  BY DEF Jobs, TypeOK
<1>2. CASE RenderList
  <2>1. job' \in [Jobs -> Job]
    BY <1>1, <1>2, WorkingType, MoveType DEF RenderList
  <2> QED  BY <1>2, <2>1 DEF RenderList, renderVars, TypeOK
<1>3. CASE RenderReread
  <2>1. content' \in Config
    BY <1>3 DEF RenderReread, Rendered, Config, TypeOK
  <2>2. [job[Render] EXCEPT !.pc = "truncate"] \in Job
    BY <1>1 DEF Job
  <2>3. job' \in [Jobs -> Job]
    BY <1>1, <1>3, <2>2, MoveType DEF RenderReread
  <2> QED  BY <1>3, <2>1, <2>3 DEF RenderReread, TypeOK
<1>4. CASE RenderTruncate
  <2>1. [job[Render] EXCEPT !.pc = "write"] \in Job
    BY <1>1 DEF Job
  <2>2. job' \in [Jobs -> Job]
    BY <1>1, <1>4, <2>1, MoveType DEF RenderTruncate
  <2> QED  BY <1>4, <2>2 DEF RenderTruncate, File, TypeOK
<1>5. CASE RenderWrite
  <2>1. NoPeers \in Config
    BY DEF NoPeers, Config
  <2>2. job' \in [Jobs -> Job] /\ waiters' \subseteq Jobs
    BY <1>1, <1>5, EndsType DEF RenderWrite
  <2> QED  BY <1>5, <2>1, <2>2 DEF RenderWrite, File, TypeOK
<1> QED  BY <1>2, <1>3, <1>4, <1>5 DEF RenderStep

LEMMA TypeLoopStep == TypeOK /\ LoopStep => TypeOK'
<1> SUFFICES ASSUME TypeOK, LoopStep PROVE TypeOK'
  OBVIOUS
<1> USE DEF dbVars, renderVars, counts
<1>1. loop' \in Loop /\ iface' \in File
  <2> USE DEF Loop, TypeOK
  <2>1. CASE LoopWait
    BY <2>1 DEF LoopWait
  <2>2. CASE LoopUp
    BY <2>2 DEF LoopUp
  <2>3. CASE LoopHash
    BY <2>3 DEF LoopHash
  <2>4. CASE LoopCheck
    BY <2>4 DEF LoopCheck
  <2>5. CASE LoopApply
    <3>1. NoFile \in File /\ loop.found \in File /\ file \in File
      BY DEF File
    <3> QED  BY <2>5, <3>1 DEF LoopApply
  <2> QED  BY <2>1, <2>2, <2>3, <2>4, <2>5 DEF LoopStep
<1>2. UNCHANGED <<dbVars, job, renderVars, counts>>
  BY DEF LoopStep, LoopWait, LoopUp, LoopHash, LoopCheck, LoopApply
<1> QED  BY <1>1, <1>2 DEF TypeOK

LEMMA TypeStep == TypeOK /\ [Next]_vars => TypeOK'
<1> SUFFICES ASSUME TypeOK, [Next]_vars PROVE TypeOK'
  OBVIOUS
<1>1. CASE Next
  BY <1>1, TypeEnvironment, TypePeerStep, TypeJoin, TypeBootStep, TypeRenderStep,
     TypeLoopStep DEF Next
<1>2. CASE UNCHANGED vars
  BY <1>2 DEF vars, dbVars, renderVars, wgVars, counts, TypeOK
<1> QED  BY <1>1, <1>2

\* Every variable of the component keeps its type.
THEOREM WireguardTypeCorrect == Spec => []TypeOK
  BY TypeInit, TypeStep, PTL DEF Spec

-------------------------------------------------------------------------------
(***************************************************************************)
(* Addresses.  AddressesExclusive is not inductive: what a rendering is    *)
(* about to write must be free of shared addresses as well.                *)
(***************************************************************************)
ExclusiveInv == AddressesExclusive /\ Exclusive(content)

LEMMA NoPeersExclusive == Exclusive(NoPeers)
  BY DEF Exclusive, NoPeers

LEMMA ExclusiveInit == Init => ExclusiveInv
  BY NoPeersExclusive DEF Init, ExclusiveInv, AddressesExclusive

\* Of the steps that give or take peers, only PeerCreate adds an address, and
\* the unique index has just seen that nobody has it.
LEMMA PeersStayExclusive ==
    ASSUME TypeOK, Exclusive(peer),
           \/ \E r \in Requests, c \in Clients : Delete(r, c)
           \/ \E j \in Jobs : PeerCreate(j)
    PROVE  Exclusive(peer)'
<1>1. ASSUME NEW r \in Requests, NEW c \in Clients, Delete(r, c)
      PROVE  Exclusive(peer)'
  BY <1>1 DEF Delete, Exclusive, TypeOK, Config
<1>2. ASSUME NEW j \in Jobs, PeerCreate(j)
      PROVE  Exclusive(peer)'
  <2>1. peer' = [peer EXCEPT ![job[j].cur] = job[j].addr]
    BY <1>2 DEF PeerCreate
  <2>2. job[j].addr = NoPeer \/ \A c \in Clients : peer[c] # job[j].addr
    BY <1>2 DEF PeerCreate, Insertable, InUse
  <2> QED  BY <2>1, <2>2 DEF Exclusive, TypeOK, Config
<1> QED  BY <1>1, <1>2

LEMMA RenderedExclusive == Exclusive(peer) => Exclusive(Rendered)
  BY DEF Exclusive, Rendered

\* No other step changes peers, the rendering's content, the file or the
\* interface, except for a copy of one to the next.
LEMMA ExclusiveStep == TypeOK /\ ExclusiveInv /\ [Next]_vars => ExclusiveInv'
<1> SUFFICES ASSUME TypeOK, ExclusiveInv, [Next]_vars PROVE ExclusiveInv'
  OBVIOUS
<1> USE DEF ExclusiveInv, AddressesExclusive
<1>1. ASSUME UNCHANGED <<peer, content, file, iface>> PROVE ExclusiveInv'
  BY <1>1 DEF Exclusive
<1>2. ASSUME UNCHANGED <<content, file, iface>>, Exclusive(peer)' PROVE ExclusiveInv'
  BY <1>2 DEF Exclusive
<1>3. CASE Environment
  <2>1. ASSUME NEW r \in Requests, NEW c \in Clients, Store(r, c) \/ Bundle(r, c)
        PROVE  ExclusiveInv'
    BY <1>1, <2>1 DEF Store, Bundle, dbVars, renderVars, wgVars
  <2>2. ASSUME NEW r \in Requests, NEW c \in Clients, Delete(r, c) PROVE ExclusiveInv'
    BY <1>2, <2>2, PeersStayExclusive DEF Delete, renderVars, wgVars
  <2>3. ASSUME NEW c \in Clients, Lapse(c) PROVE ExclusiveInv'
    BY <1>1, <2>3 DEF Lapse, renderVars, wgVars
  <2>4. CASE ApiRestart
    BY <2>4, NoPeersExclusive DEF ApiRestart, dbVars, wgVars, Exclusive, NoPeers
  <2>5. CASE LoopRestart
    BY <2>5 DEF LoopRestart, dbVars, renderVars, Exclusive
  <2> QED  BY <1>3, <2>1, <2>2, <2>3, <2>4, <2>5 DEF Environment
<1>4. ASSUME NEW j \in Jobs, PeerStep(j) PROVE ExclusiveInv'
  <2>1. CASE PeerCreate(j)
    BY <1>2, <2>1, PeersStayExclusive DEF PeerCreate, renderVars, wgVars
  <2>2. CASE PoolExhausted(j) \/ PeerCreateFails(j)
    BY <1>1, <2>2 DEF PoolExhausted, PeerCreateFails, dbVars, wgVars
  <2>3. CASE PeerSkip(j) \/ PeerChoose(j)
    BY <1>1, <2>3 DEF PeerSkip, PeerChoose, dbVars, renderVars, wgVars
  <2>4. CASE \E c \in Clients : PeerFound(j, c) \/ PeerMissing(j, c)
    BY <1>1, <2>4 DEF PeerFound, PeerMissing, dbVars, renderVars, wgVars
  <2> QED  BY <1>4, <2>1, <2>2, <2>3, <2>4 DEF PeerStep
<1>5. ASSUME NEW j \in Jobs, Join(j) PROVE ExclusiveInv'
  BY <1>1, <1>5 DEF Join, dbVars, wgVars
<1>6. CASE BootStep
  BY <1>1, <1>6 DEF BootStep, BootSetting, BootEnable, BootMark, BootList,
                    dbVars, renderVars, wgVars
<1>7. CASE RenderStep
  <2>1. CASE RenderList
    BY <1>1, <2>1 DEF RenderList, dbVars, renderVars, wgVars
  <2>2. CASE RenderReread
    BY <2>2, RenderedExclusive DEF RenderReread, dbVars, wgVars, Exclusive
  <2>3. CASE RenderTruncate
    BY <2>3 DEF RenderTruncate, dbVars, wgVars, Exclusive
  <2>4. CASE RenderWrite
    BY <2>4, NoPeersExclusive DEF RenderWrite, dbVars, wgVars, Exclusive, NoPeers
  <2> QED  BY <1>7, <2>1, <2>2, <2>3, <2>4 DEF RenderStep
<1>8. CASE LoopStep
  BY <1>8 DEF LoopStep, LoopWait, LoopUp, LoopHash, LoopCheck, LoopApply,
              dbVars, renderVars, Exclusive
<1>9. CASE UNCHANGED vars
  BY <1>1, <1>9 DEF vars, dbVars, renderVars, wgVars
<1> QED  BY <1>3, <1>4, <1>5, <1>6, <1>7, <1>8, <1>9 DEF Next

\* Two clients never share an address: not in the table, not in the file that
\* was rendered from it earlier, and not on the interface.
THEOREM NoSharedAddress == Spec => []AddressesExclusive
<1>1. Spec => [](TypeOK /\ ExclusiveInv)
  BY TypeInit, TypeStep, ExclusiveInit, ExclusiveStep, PTL DEF Spec
<1>2. ExclusiveInv => AddressesExclusive
  BY DEF ExclusiveInv
<1> QED  BY <1>1, <1>2, PTL

\* With the server's address in the lower half of the address space, a peer is
\* refused only when no host address is free, whatever happened before.
THEOREM PoolAlwaysServes ==
    ASSUME Server < Half, Block <= Half
    PROVE  Spec => []PoolServes
<1>1. PoolServes
  BY LowHalfAllocation DEF PoolServes
<1> QED  BY <1>1, PTL

-------------------------------------------------------------------------------
(***************************************************************************)
(* The loop of run.sh.  InterfaceFollows says what an unchanged hash       *)
(* means; it holds because, without a race, the hash kept is always the    *)
(* one of what the interface serves, and the hash found the file's.        *)
(***************************************************************************)
LoopInv ==
    ~raced => /\ loop.pc = "hash"  => iface = file
              /\ loop.pc = "check" => iface = loop.seen
              /\ loop.pc = "apply" => loop.found = file

\* The steps of the rest of the system leave the loop and the interface alone.
LEMMA OthersLeaveLoop ==
    ASSUME Next, ~LoopStep, ~LoopRestart
    PROVE  UNCHANGED wgVars
<1>1. ASSUME NEW r \in Requests, NEW c \in Clients, Store(r, c) \/ Delete(r, c) \/ Bundle(r, c)
      PROVE  UNCHANGED wgVars
  BY <1>1 DEF Store, Delete, Bundle
<1>2. ASSUME NEW c \in Clients, Lapse(c) PROVE UNCHANGED wgVars
  BY <1>2 DEF Lapse
<1>3. CASE ApiRestart
  BY <1>3 DEF ApiRestart
<1>4. ASSUME NEW j \in Jobs, PeerStep(j) \/ Join(j) PROVE UNCHANGED wgVars
  BY <1>4 DEF PeerStep, PeerFound, PeerMissing, PeerSkip, PeerChoose, PoolExhausted,
              PeerCreate, PeerCreateFails, Join
<1>5. CASE BootStep
  BY <1>5 DEF BootStep, BootSetting, BootEnable, BootMark, BootList
<1>6. CASE RenderStep
  BY <1>6 DEF RenderStep, RenderList, RenderReread, RenderTruncate, RenderWrite
<1> QED  BY <1>1, <1>2, <1>3, <1>4, <1>5, <1>6 DEF Next, Environment

LEMMA LoopInvInit == HistoryInit => LoopInv
  BY DEF HistoryInit, Init, NewLoop, LoopInv

LEMMA LoopInvStep == TypeOK /\ LoopInv /\ [HistoryNext]_historyVars => LoopInv'
<1> SUFFICES ASSUME TypeOK, LoopInv, [HistoryNext]_historyVars PROVE LoopInv'
  OBVIOUS
<1>1. CASE UNCHANGED historyVars
  BY <1>1 DEF historyVars, vars, renderVars, wgVars, LoopInv
<1>2. CASE HistoryNext
  <2> USE <1>2 DEF HistoryNext, TrackRaced
  <2>1. CASE LoopRestart
    BY <2>1 DEF LoopRestart, NewLoop, LoopInv
  <2>2. CASE LoopStep
    <3> USE DEF LoopInv, renderVars, TypeOK, Loop
    <3>1. CASE LoopWait
      BY <3>1 DEF LoopWait
    <3>2. CASE LoopUp
      BY <3>2 DEF LoopUp
    <3>3. CASE LoopHash
      BY <3>3 DEF LoopHash
    <3>4. CASE LoopCheck
      BY <3>4 DEF LoopCheck
    <3>5. CASE LoopApply
      BY <3>5 DEF LoopApply
    <3> QED  BY <2>2, <3>1, <3>2, <3>3, <3>4, <3>5 DEF LoopStep
  <2>3. CASE ~LoopStep /\ ~LoopRestart
    <3>1. UNCHANGED <<loop, iface>>
      BY <2>3, OthersLeaveLoop DEF wgVars
    <3>2. CASE loop.pc \in {"hash", "apply"} /\ file' # file
      BY <3>1, <3>2 DEF LoopInv
    <3>3. CASE ~(loop.pc \in {"hash", "apply"} /\ file' # file)
      BY <3>1, <3>3 DEF LoopInv
    <3> QED  BY <3>2, <3>3
  <2> QED  BY <2>1, <2>2, <2>3
<1> QED  BY <1>1, <1>2

\* When the loop finds nothing to do, the interface serves the file, unless the
\* file changed between one of its hashes and the command that used it.
THEOREM LoopAppliesFile == HistorySpec => []InterfaceFollows
<1>1. HistoryInit => TypeOK
  BY TypeInit DEF HistoryInit
<1>2. TypeOK /\ [HistoryNext]_historyVars => TypeOK'
  <2>1. [HistoryNext]_historyVars => [Next]_vars
    BY DEF HistoryNext, historyVars
  <2> QED  BY <2>1, TypeStep
<1>3. LoopInv => InterfaceFollows
  BY DEF LoopInv, InterfaceFollows
<1> QED  BY <1>1, <1>2, <1>3, LoopInvInit, LoopInvStep, PTL DEF HistorySpec

-------------------------------------------------------------------------------
(***************************************************************************)
(* The file.  FileExplained has to be followed through a rendering: what   *)
(* it has read stands for the file until it is written, and a client       *)
(* without a peer has a job that will see to it, or a known cause.         *)
(***************************************************************************)

\* What the parts of a job have to do with one another.
Form(j, rec) ==
    /\ rec.pc \in {"read", "create"} => rec.cur \in Clients
    /\ rec.pc = "create" => rec.addr \in Address
    /\ rec.todo # {} => rec.pc \in {"enable", "find", "read", "create"}
    /\ j = Render => /\ rec.op = "render"
                     /\ rec.pc \in {"idle", "list", "find", "read", "create",
                                    "reread", "truncate", "write"}
    /\ j = Boot =>
          \/ /\ rec.op = "backfill"
             /\ rec.pc \in {"idle", "setting", "enable", "find", "read", "create", "mark"}
          \/ /\ rec.op = "bootstrap"
             /\ rec.pc \in {"idle", "list", "find", "read", "create", "join", "await"}
    /\ j \in Requests =>
          \/ rec.op = "sync" /\ rec.pc \in {"idle", "find", "read", "create", "join", "await"}
          \/ rec.op = "bundle" /\ rec.pc \in {"idle", "find", "read", "create"}

JobForm ==
    /\ \A j \in Jobs : Form(j, job[j])
    /\ \A j \in waiters : job[j].pc = "await"

\* The jobs that will render what the table holds of a client.
Concerned(j, c) == j = Boot \/ (j \in Requests /\ job[j].op = "sync" /\ job[j].c = c)
Busy(c)    == \E j \in Jobs : Concerned(j, c) /\ job[j].pc # "idle"
Pending(c) == \E j \in Jobs : Concerned(j, c) /\ job[j].pc \notin {"idle", "await"}

\* ... and those that will give it a peer first.
Gives(j, c) ==
    \/ c \in job[j].todo
    \/ j = Boot /\ job[j].op = "backfill" /\ job[j].pc # "idle"
    \/ j = Boot /\ job[j].pc = "list"

InContent(c) ==
    IF Wanted(c) THEN peer[c] # NoPeer /\ content[c] = peer[c] ELSE content[c] = NoPeer

Rewriting == job[Render].pc \in {"truncate", "write"}

MissingExplained == \A c \in Clients :
    Missing(c) => c \in stale \/ \E j \in Jobs : Concerned(j, c) /\ Gives(j, c)
ContentExplained ==
    Rewriting => \A c \in Clients : Pending(c) \/ c \in stale \/ InContent(c)
EntriesExplained ==
    ~Rewriting => \A c \in Clients : Busy(c) \/ c \in stale \/ InFile(c)

FileInv ==
    TypeOK /\ JobForm /\ MissingExplained /\ ContentExplained /\ EntriesExplained

LEMMA JobTyped == TypeOK => job \in [Jobs -> Job] /\ \A j \in Jobs : job[j] \in Job
  BY DEF TypeOK

LEMMA JobsApart ==
    /\ Boot \in Jobs /\ Render \in Jobs /\ Requests \subseteq Jobs
    /\ Boot # Render /\ Boot \notin Requests /\ Render \notin Requests
    /\ Jobs = Requests \cup {Boot, Render}
  BY WireguardAssumption DEF Jobs

\* Records the actions write.
LEMMA WorkingFields ==
    ASSUME NEW rec \in Job, NEW todo
    PROVE  /\ Working(rec, todo).op = rec.op /\ Working(rec, todo).c = rec.c
           /\ Working(rec, todo).todo = todo
           /\ Working(rec, todo).pc = IF todo = {} THEN After(rec.op) ELSE "find"
  BY DEF Working, Job

LEMMA IdleFields ==
    ASSUME NEW op
    PROVE  /\ IdleJob(op).pc = "idle" /\ IdleJob(op).op = op /\ IdleJob(op).todo = {}
           /\ IdleJob(op).c = Nobody
  BY DEF IdleJob

\* A job that goes on with fewer clients, or with other ones.
LEMMA WorkingForm ==
    ASSUME NEW j \in Jobs, NEW rec \in Job, NEW todo,
           j = Render => rec.op = "render",
           j = Boot => rec.op \in {"backfill", "bootstrap"},
           j \in Requests => rec.op \in {"sync", "bundle"}
    PROVE  Form(j, Working(rec, todo))
<1> DEFINE w == Working(rec, todo)
<1>1. w.op = rec.op /\ w.todo = todo /\ w.pc = IF todo = {} THEN After(rec.op) ELSE "find"
  BY WorkingFields
<1> HIDE DEF w
<1>2. w.pc \notin {"read", "create"} /\ (w.todo # {} => w.pc = "find")
  BY <1>1 DEF After
<1>3. j = Render => w.op = "render" /\ w.pc \in {"find", "reread"}
  BY <1>1 DEF After
<1>4. j = Boot => \/ w.op = "backfill" /\ w.pc \in {"find", "mark"}
                  \/ w.op = "bootstrap" /\ w.pc \in {"find", "join"}
  BY <1>1 DEF After
<1>5. j \in Requests => \/ w.op = "sync" /\ w.pc \in {"find", "join"}
                        \/ w.op = "bundle" /\ w.pc \in {"find", "idle"}
  BY <1>1 DEF After
<1>6. Form(j, w)
  BY <1>2, <1>3, <1>4, <1>5 DEF Form
<1> QED  BY <1>6 DEF w

LEMMA IdleForm ==
    ASSUME NEW j \in Jobs, NEW rec \in Job, Form(j, rec)
    PROVE  Form(j, IdleJob(rec.op))
<1>1. /\ IdleJob(rec.op).pc = "idle" /\ IdleJob(rec.op).op = rec.op
      /\ IdleJob(rec.op).todo = {}
  BY IdleFields
<1> QED  BY <1>1, JobsApart DEF Form

LEMMA FreshForm == \A j \in Jobs : Form(j, FreshJobs[j])
<1> TAKE j \in Jobs
<1>1. CASE j = Boot
  <2>1. FreshJobs[j] = [IdleJob("backfill") EXCEPT !.pc = "setting"]
    BY <1>1, JobsApart DEF FreshJobs
  <2>2. /\ FreshJobs[j].pc = "setting" /\ FreshJobs[j].op = "backfill"
        /\ FreshJobs[j].todo = {}
    BY <2>1 DEF IdleJob
  <2> QED  BY <1>1, <2>2, JobsApart DEF Form
<1>2. CASE j = Render
  <2>1. FreshJobs[j].pc = "idle" /\ FreshJobs[j].op = "render" /\ FreshJobs[j].todo = {}
    BY <1>2, JobsApart DEF FreshJobs, IdleJob
  <2> QED  BY <1>2, <2>1, JobsApart DEF Form
<1>3. CASE j \in Requests
  <2>1. FreshJobs[j].pc = "idle" /\ FreshJobs[j].op = "sync" /\ FreshJobs[j].todo = {}
    BY <1>3, JobsApart DEF FreshJobs, IdleJob
  <2> QED  BY <1>3, <2>1, JobsApart DEF Form
<1> QED  BY <1>1, <1>2, <1>3, JobsApart

\* One job moves; one ends, and with the rendering those that await it.
LEMMA MoveForm ==
    ASSUME TypeOK, JobForm, NEW j \in Jobs, NEW rec, Form(j, rec), Move(j, rec),
           job[j].pc # "await", UNCHANGED waiters
    PROVE  JobForm'
<1>1. \A i \in Jobs : job'[i] = IF i = j THEN rec ELSE job[i]
  BY DEF Move, TypeOK
<1>2. \A i \in waiters' : job'[i].pc = "await"
  BY <1>1 DEF JobForm, TypeOK
<1> QED  BY <1>1, <1>2 DEF JobForm

LEMMA EndsForm ==
    ASSUME TypeOK, JobForm, NEW j \in Jobs, Ends(j)
    PROVE  JobForm'
<1>1. \A i \in Jobs : job'[i] = job[i] \/ job'[i] = IdleJob(job[i].op)
  BY DEF Ends
<1>2. \A i \in waiters' : i \in waiters /\ job'[i] = job[i]
  BY DEF Ends, TypeOK
<1>3. \A i \in Jobs : Form(i, job'[i])
  BY <1>1, JobTyped, IdleForm DEF JobForm
<1> QED  BY <1>2, <1>3 DEF JobForm

LEMMA CallForm ==
    ASSUME TypeOK, JobForm, NEW r \in Requests, NEW op \in {"sync", "bundle"},
           NEW c \in Clients, NEW todo, Call(r, op, c, todo), UNCHANGED waiters
    PROVE  /\ JobForm'
           /\ job[r].pc = "idle" /\ job'[r].pc # "await"
           /\ job'[r].op = op /\ job'[r].c = c /\ job'[r].todo = todo
           /\ op = "sync" => job'[r].pc # "idle"
           /\ \A i \in Jobs \ {r} : job'[i] = job[i]
<1> DEFINE rec == [IdleJob(op) EXCEPT !.c = c]
<1>1. rec \in Job /\ rec.op = op /\ rec.c = c /\ r \in Jobs
  BY JobsApart DEF IdleJob, Job
<1>2. Move(r, Working(rec, todo)) /\ job[r].pc = "idle"
  BY DEF Call, At
<1> HIDE DEF rec
<1>3. Form(r, Working(rec, todo))
  BY <1>1, JobsApart, WorkingForm
<1>4. JobForm'
  BY <1>1, <1>2, <1>3, MoveForm
<1>5. job' = [job EXCEPT ![r] = Working(rec, todo)]
  BY <1>2 DEF Move
<1>6. job'[r] = Working(rec, todo) /\ \A i \in Jobs \ {r} : job'[i] = job[i]
  BY <1>1, <1>5, JobTyped
<1>7. job'[r].pc \in {"find", After(op)}
  BY <1>1, <1>6, WorkingFields
<1> QED  BY <1>1, <1>2, <1>4, <1>6, <1>7, WorkingFields DEF After

\* The parts of a job fit together, whatever it does.
LEMMA FormEnvironment == TypeOK /\ JobForm /\ Environment => JobForm'
<1> SUFFICES ASSUME TypeOK, JobForm, Environment PROVE JobForm'
  OBVIOUS
<1>1. ASSUME NEW r \in Requests, NEW c \in Clients, Store(r, c) \/ Delete(r, c) \/ Bundle(r, c)
      PROVE  JobForm'
  <2>1. PICK op \in {"sync", "bundle"}, todo \in SUBSET Clients : Call(r, op, c, todo)
    BY <1>1 DEF Store, Delete, Bundle
  <2> QED  BY <1>1, <2>1, CallForm DEF Store, Delete, Bundle, renderVars
<1>2. CASE LoopRestart \/ \E c \in Clients : Lapse(c)
  BY <1>2 DEF LoopRestart, Lapse, renderVars, JobForm
<1>3. CASE ApiRestart
  BY <1>3, FreshForm DEF ApiRestart, JobForm
<1> QED  BY <1>1, <1>2, <1>3 DEF Environment

LEMMA FormPeerStep ==
    ASSUME TypeOK, JobForm, NEW j \in Jobs, PeerStep(j)
    PROVE  JobForm'
<1>0. job[j] \in Job /\ Form(j, job[j]) /\ job[j].todo \subseteq Clients
  BY JobTyped DEF JobForm, Job
<1>1. \A todo : Form(j, Working(job[j], todo))
  BY <1>0, WorkingForm DEF Form
<1>2. CASE PeerSkip(j) \/ PeerCreate(j) \/ \E c \in Clients : PeerFound(j, c)
  BY <1>1, <1>2, MoveForm DEF PeerSkip, PeerCreate, PeerFound, At, renderVars
<1>3. ASSUME NEW c \in Clients, PeerMissing(j, c) PROVE JobForm'
  <2> DEFINE rec == [job[j] EXCEPT !.pc = "read", !.cur = c]
  <2>1. rec.pc = "read" /\ rec.cur = c /\ rec.op = job[j].op /\ rec.todo = job[j].todo
    BY <1>0 DEF Job
  <2>2. job[j].pc = "find" /\ Move(j, rec) /\ UNCHANGED waiters
    BY <1>3 DEF PeerMissing, At, renderVars
  <2> HIDE DEF rec
  <2>3. Form(j, rec)
    BY <1>0, <2>1, <2>2 DEF Form
  <2> QED  BY <2>2, <2>3, MoveForm
<1>4. CASE PeerChoose(j)
  <2> DEFINE rec == [job[j] EXCEPT !.pc = "create", !.addr = Allocate(InUse)]
  <2>1. /\ rec.pc = "create" /\ rec.cur = job[j].cur /\ rec.op = job[j].op
        /\ rec.todo = job[j].todo /\ rec.addr = Allocate(InUse)
    BY <1>0 DEF Job
  <2>2. job[j].pc = "read" /\ Move(j, rec) /\ UNCHANGED waiters /\ Allocate(InUse) \in Address
    BY <1>4, AllocateType DEF PeerChoose, At, renderVars
  <2> HIDE DEF rec
  <2>3. Form(j, rec)
    BY <1>0, <2>1, <2>2 DEF Form
  <2> QED  BY <2>2, <2>3, MoveForm
<1>5. CASE PoolExhausted(j) \/ PeerCreateFails(j)
  BY <1>5, EndsForm DEF PoolExhausted, PeerCreateFails
<1> QED  BY <1>2, <1>3, <1>4, <1>5 DEF PeerStep

LEMMA FormBootStep == TypeOK /\ JobForm /\ BootStep => JobForm'
<1> SUFFICES ASSUME TypeOK, JobForm, BootStep PROVE JobForm'
  OBVIOUS
<1>0. /\ Boot \in Jobs /\ job[Boot] \in Job /\ Form(Boot, job[Boot])
      /\ \A todo : Form(Boot, Working(job[Boot], todo))
  BY JobTyped, JobsApart, WorkingForm DEF JobForm, Form
<1> DEFINE list == [IdleJob("bootstrap") EXCEPT !.pc = "list"]
           enable == [job[Boot] EXCEPT !.pc = "enable", !.todo = {c \in Clients : Stored(c)}]
<1>1. Form(Boot, list)
  <2>1. list.pc = "list" /\ list.op = "bootstrap" /\ list.todo = {}
    BY DEF IdleJob
  <2> HIDE DEF list
  <2> QED  BY <2>1, JobsApart DEF Form
<1>2. ASSUME job[Boot].pc = "setting" PROVE Form(Boot, enable)
  <2>1. enable.pc = "enable" /\ enable.op = job[Boot].op
    BY <1>0 DEF Job
  <2> HIDE DEF enable
  <2> QED  BY <1>0, <1>2, <2>1, JobsApart DEF Form
<1>3. CASE BootSetting
  <2>1. job[Boot].pc = "setting" /\ UNCHANGED waiters /\ (Move(Boot, list) \/ Move(Boot, enable))
    BY <1>3 DEF BootSetting, At, renderVars
  <2> HIDE DEF list, enable
  <2> QED  BY <1>0, <1>1, <1>2, <2>1, MoveForm
<1>4. CASE BootMark
  <2>1. job[Boot].pc = "mark" /\ UNCHANGED waiters /\ Move(Boot, list)
    BY <1>4 DEF BootMark, At, renderVars
  <2> HIDE DEF list
  <2> QED  BY <1>0, <1>1, <2>1, MoveForm
<1>5. CASE BootEnable \/ BootList
  BY <1>0, <1>5, MoveForm DEF BootEnable, BootList, At, renderVars
<1> QED  BY <1>3, <1>4, <1>5 DEF BootStep

\* Who joins a rendering is no rendering; the others stay as they are.
LEMMA JoinAfter ==
    ASSUME TypeOK, JobForm, NEW j \in Jobs, Join(j)
    PROVE  /\ j # Render /\ job[j].pc = "join"
           /\ job'[j] = [job[j] EXCEPT !.pc = "await"]
           /\ \A i \in Jobs \ {j, Render} : job'[i] = job[i]
           /\ \/ job'[Render] = job[Render]
              \/ /\ job[Render].pc = "idle"
                 /\ job'[Render] = [job[Render] EXCEPT !.pc = "list"]
           /\ waiters' = waiters \cup {j}
<1>1. job[j].pc = "join" /\ Form(j, job[j])
  BY DEF Join, At, JobForm
<1>2. j # Render
  BY <1>1 DEF Form
<1> QED  BY <1>1, <1>2, JobsApart DEF Join, At

LEMMA FormJoin ==
    ASSUME TypeOK, JobForm, NEW j \in Jobs, Join(j)
    PROVE  JobForm'
<1>0. job[j] \in Job /\ job[Render] \in Job /\ Form(j, job[j]) /\ Form(Render, job[Render])
  BY JobTyped, JobsApart DEF JobForm
<1>1. Form(j, job'[j]) /\ job'[j].pc = "await"
  <2>0. job'[j] = [job[j] EXCEPT !.pc = "await"]
    BY JoinAfter
  <2>1. job'[j].pc = "await" /\ job'[j].op = job[j].op /\ job'[j].todo = job[j].todo
    BY <1>0, <2>0 DEF Job
  <2>2. job[j].pc = "join" /\ j # Render
    BY JoinAfter
  <2> QED  BY <1>0, <2>1, <2>2 DEF Form
<1>2. Form(Render, job'[Render])
  <2>1. CASE job[Render].pc = "idle" /\ job'[Render] = [job[Render] EXCEPT !.pc = "list"]
    <3>1. job'[Render].pc = "list" /\ job'[Render].op = job[Render].op /\ job'[Render].todo = job[Render].todo
      BY <1>0, <2>1 DEF Job
    <3> QED  BY <1>0, <2>1, <3>1, JobsApart DEF Form
  <2> QED  BY <1>0, <2>1, JoinAfter
<1>3. Render \notin waiters
  BY <1>0, JobsApart DEF JobForm, Form
<1>4. \A i \in Jobs \ {j, Render} : job'[i] = job[i]
  BY JoinAfter
<1>5. \A i \in waiters' : job'[i].pc = "await"
  <2>1. waiters' = waiters \cup {j} /\ waiters \subseteq Jobs
    BY JoinAfter DEF TypeOK
  <2> QED  BY <1>1, <1>3, <1>4, <2>1 DEF JobForm
<1>6. \A i \in Jobs : Form(i, job'[i])
  BY <1>1, <1>2, <1>4 DEF JobForm
<1> QED  BY <1>5, <1>6 DEF JobForm

LEMMA FormRenderStep == TypeOK /\ JobForm /\ RenderStep => JobForm'
<1> SUFFICES ASSUME TypeOK, JobForm, RenderStep PROVE JobForm'
  OBVIOUS
<1>0. /\ Render \in Jobs /\ job[Render] \in Job /\ Form(Render, job[Render])
      /\ \A todo : Form(Render, Working(job[Render], todo))
  BY JobTyped, JobsApart, WorkingForm DEF JobForm, Form
<1>1. ASSUME NEW pc \in {"truncate", "write"}, job[Render].pc \in {"reread", "truncate"}
      PROVE  Form(Render, [job[Render] EXCEPT !.pc = pc])
  <2> DEFINE rec == [job[Render] EXCEPT !.pc = pc]
  <2>1. rec.pc = pc /\ rec.op = job[Render].op /\ rec.todo = job[Render].todo
    BY <1>0 DEF Job
  <2> HIDE DEF rec
  <2>2. Form(Render, rec)
    BY <1>0, <1>1, <2>1, JobsApart DEF Form
  <2> QED  BY <2>2 DEF rec
<1>2. CASE RenderList
  BY <1>0, <1>2, MoveForm DEF RenderList, At, renderVars
<1>3. CASE RenderReread
  BY <1>0, <1>1, <1>3, MoveForm DEF RenderReread, At
<1>4. CASE RenderTruncate
  BY <1>0, <1>1, <1>4, MoveForm DEF RenderTruncate, At
<1>5. CASE RenderWrite
  BY <1>0, <1>5, EndsForm DEF RenderWrite
<1> QED  BY <1>2, <1>3, <1>4, <1>5 DEF RenderStep

LEMMA FormStep == TypeOK /\ JobForm /\ [Next]_vars => JobForm'
<1> SUFFICES ASSUME TypeOK, JobForm, [Next]_vars PROVE JobForm'
  OBVIOUS
<1>1. CASE LoopStep
  BY <1>1 DEF LoopStep, LoopWait, LoopUp, LoopHash, LoopCheck, LoopApply, renderVars, JobForm
<1>2. CASE UNCHANGED vars
  BY <1>2 DEF vars, renderVars, JobForm
<1> QED
  BY <1>1, <1>2, FormEnvironment, FormPeerStep, FormJoin, FormBootStep, FormRenderStep DEF Next

\* A step on the way to a client's peer, for a job that is no rendering.
LEMMA PeerStepAfter ==
    ASSUME TypeOK, JobForm, NEW j \in Jobs \ {Render}, PeerStep(j)
    PROVE  /\ job[j].pc \in {"find", "read", "create"}
           /\ \A i \in Jobs \ {j} : job'[i] = job[i]
           /\ \/ job[j].pc \in {"read", "create"} /\ job'[j] = IdleJob(job[j].op)
              \/ /\ job'[j].pc \in {"read", "create"}
                 /\ job'[j].op = job[j].op /\ job'[j].c = job[j].c
                 /\ job'[j].todo = job[j].todo
              \/ \E done : /\ job'[j] = Working(job[j], job[j].todo \ {done})
                           /\ done \in Clients /\ Stored(done) => peer'[done] # NoPeer
<1>0. /\ job[j] \in Job /\ Form(j, job[j]) /\ job \in [Jobs -> Job] /\ peer \in Config
      /\ NoPeer \notin Address
  BY JobTyped, PoolAssumption, WireguardAssumption DEF JobForm, TypeOK, Address, Words
<1>1. ASSUME NEW rec, Move(j, rec)
      PROVE  job'[j] = rec /\ \A i \in Jobs \ {j} : job'[i] = job[i]
  BY <1>0, <1>1 DEF Move
<1>2. ASSUME NEW c \in Clients, PeerFound(j, c)
      PROVE  /\ job[j].pc = "find" /\ peer'[c] # NoPeer
             /\ Move(j, Working(job[j], job[j].todo \ {c}))
  BY <1>2 DEF PeerFound, At, dbVars
<1>3. ASSUME NEW c \in Clients, PeerMissing(j, c)
      PROVE  /\ job[j].pc = "find" /\ \A i \in Jobs \ {j} : job'[i] = job[i]
             /\ job'[j].pc = "read" /\ job'[j].op = job[j].op /\ job'[j].c = job[j].c
             /\ job'[j].todo = job[j].todo
  <2>1. job[j].pc = "find" /\ Move(j, [job[j] EXCEPT !.pc = "read", !.cur = c])
    BY <1>3 DEF PeerMissing, At
  <2>2. job'[j] = [job[j] EXCEPT !.pc = "read", !.cur = c]
    BY <1>1, <2>1
  <2>3. /\ job'[j].pc = "read" /\ job'[j].op = job[j].op /\ job'[j].c = job[j].c
        /\ job'[j].todo = job[j].todo
    BY <1>0, <2>2 DEF Job
  <2> QED  BY <1>1, <2>1, <2>3
<1>4. CASE PeerSkip(j)
  <2>1. /\ job[j].pc = "read" /\ ~Stored(job[j].cur)
        /\ Move(j, Working(job[j], job[j].todo \ {job[j].cur}))
    BY <1>4 DEF PeerSkip, At
  <2> QED  BY <1>1, <2>1
<1>5. CASE PeerChoose(j)
  <2>1. job[j].pc = "read" /\ Move(j, [job[j] EXCEPT !.pc = "create", !.addr = Allocate(InUse)])
    BY <1>5 DEF PeerChoose, At
  <2>2. job'[j] = [job[j] EXCEPT !.pc = "create", !.addr = Allocate(InUse)]
    BY <1>1, <2>1
  <2>3. /\ job'[j].pc = "create" /\ job'[j].op = job[j].op /\ job'[j].c = job[j].c
        /\ job'[j].todo = job[j].todo
    BY <1>0, <2>2 DEF Job
  <2> QED  BY <1>1, <2>1, <2>3
<1>6. CASE PeerCreate(j)
  <2>1. /\ job[j].pc = "create" /\ peer' = [peer EXCEPT ![job[j].cur] = job[j].addr]
        /\ Move(j, Working(job[j], job[j].todo \ {job[j].cur}))
    BY <1>6 DEF PeerCreate, At
  <2>2. job[j].cur \in Clients /\ job[j].addr \in Address
    BY <1>0, <2>1 DEF Form
  <2>3. peer'[job[j].cur] # NoPeer
    BY <1>0, <2>1, <2>2 DEF Config
  <2> QED  BY <1>1, <2>1, <2>3
<1>7. CASE PoolExhausted(j) \/ PeerCreateFails(j)
  <2>1. job[j].pc \in {"read", "create"} /\ Ends(j)
    BY <1>7 DEF PoolExhausted, PeerCreateFails, At
  <2> QED  BY <2>1 DEF Ends
<1>8. ASSUME NEW c \in Clients, PeerFound(j, c)
      PROVE  /\ job[j].pc = "find" /\ \A i \in Jobs \ {j} : job'[i] = job[i]
             /\ job'[j] = Working(job[j], job[j].todo \ {c}) /\ peer'[c] # NoPeer
  BY <1>1, <1>2, <1>8
<1> QED  BY <1>3, <1>4, <1>5, <1>6, <1>7, <1>8 DEF PeerStep

\* Whose step it is when the record of a job that is no rendering changes.
LEMMA JobChange ==
    ASSUME TypeOK, JobForm, Next, NEW j \in Jobs \ {Render}, job'[j] # job[j]
    PROVE  /\ ~RenderReread
           /\ \/ ApiRestart
              \/ j \in Requests /\ job[j].pc = "idle"
              \/ PeerStep(j)
              \/ Join(j)
              \/ j = Boot /\ BootStep
              \/ /\ job[j].pc = "await" /\ job'[j] = IdleJob(job[j].op)
                 /\ RenderWrite \/ job[Render].pc # "write"
<1>0. job \in [Jobs -> Job] /\ Render \in Jobs /\ Boot \in Jobs
  BY JobTyped, JobsApart
<1>1. ASSUME NEW i \in Jobs, NEW rec, Move(i, rec) PROVE i = j
  BY <1>0, <1>1 DEF Move
<1>2. ASSUME NEW i \in Jobs, Ends(i) PROVE \/ i = j
                                           \/ i = Render /\ j \in waiters /\ job'[j] = IdleJob(job[j].op)
  BY <1>0, <1>2 DEF Ends
<1>3. ~RenderReread /\ ~RenderList /\ ~RenderTruncate
  BY <1>0, <1>1 DEF RenderReread, RenderList, RenderTruncate
<1>4. \A i \in waiters : job[i].pc = "await"
  BY DEF JobForm
<1>5. CASE Environment
  <2>1. ASSUME NEW r \in Requests, NEW c \in Clients, Store(r, c) \/ Delete(r, c) \/ Bundle(r, c)
        PROVE  j \in Requests /\ job[j].pc = "idle"
    <3>1. \E op, todo : Call(r, op, c, todo)
      BY <2>1 DEF Store, Delete, Bundle
    <3>2. r \in Jobs /\ job[r].pc = "idle" /\ \E rec : Move(r, rec)
      BY <3>1, JobsApart DEF Call, At
    <3> QED  BY <1>1, <3>2
  <2>2. ~LoopRestart /\ \A c \in Clients : ~Lapse(c)
    BY DEF LoopRestart, Lapse
  <2> QED  BY <1>3, <1>5, <2>1, <2>2 DEF Environment
<1>6. ASSUME NEW i \in Jobs, PeerStep(i)
      PROVE  \/ i = j
             \/ /\ job[j].pc = "await" /\ job'[j] = IdleJob(job[j].op)
                /\ job[Render].pc # "write"
  <2>1. CASE PoolExhausted(i) \/ PeerCreateFails(i)
    <3>1. Ends(i) /\ job[i].pc \in {"read", "create"}
      BY <2>1 DEF PoolExhausted, PeerCreateFails, At
    <3> QED  BY <1>2, <1>4, <3>1
  <2>2. CASE ~(PoolExhausted(i) \/ PeerCreateFails(i))
    <3>1. \E rec : Move(i, rec)
      BY <1>6, <2>2 DEF PeerStep, PeerFound, PeerMissing, PeerSkip, PeerChoose, PeerCreate
    <3> QED  BY <1>1, <3>1
  <2> QED  BY <2>1, <2>2
<1>7. ASSUME NEW i \in Jobs, Join(i) PROVE i = j
  BY <1>7, JoinAfter
<1>8. CASE BootStep
  <2>1. \E rec : Move(Boot, rec)
    BY <1>8 DEF BootStep, BootSetting, BootEnable, BootMark, BootList
  <2> QED  BY <1>0, <1>1, <1>3, <1>8, <2>1
<1>9. CASE RenderStep
  <2>1. RenderWrite
    BY <1>3, <1>9 DEF RenderStep
  <2>2. Ends(Render)
    BY <2>1 DEF RenderWrite
  <2>3. j \in waiters /\ job'[j] = IdleJob(job[j].op)
    BY <1>0, <1>2, <2>2
  <2> QED  BY <1>3, <1>4, <2>1, <2>3
<1>10. ~LoopStep
  BY DEF LoopStep, LoopWait, LoopUp, LoopHash, LoopCheck, LoopApply
<1> QED  BY <1>3, <1>5, <1>6, <1>7, <1>8, <1>9, <1>10 DEF Next

\* What stays in `stale`, and what comes to it.
LEMMA StaleAfter ==
    ASSUME HistoryNext, NEW c \in Clients
    PROVE  /\ c \in stale /\ (~RenderReread \/ Missing(c)) => c \in stale'
           /\ ~RenderReread /\ (ApiRestart \/ Lapse(c)) => c \in stale'
           /\ \A j \in Jobs \ {Render} :
                 ~RenderReread /\ Concerned(j, c) /\ Unrendered(j) => c \in stale'
<1>1. stale' = IF RenderReread THEN {d \in stale : Missing(d)} ELSE stale \cup Missed
  BY DEF HistoryNext, TrackStale
<1>2. ApiRestart \/ Lapse(c) => c \in Missed
  BY DEF Missed
<1>3. ASSUME NEW j \in Jobs \ {Render}, Concerned(j, c), Unrendered(j) PROVE c \in Missed
  <2>1. c \in Concerns(j)
    BY <1>3, JobsApart DEF Concerned, Concerns
  <2> QED  BY <1>3, <2>1 DEF Missed
<1> QED  BY <1>1, <1>2, <1>3

\* Counted steps are not the rendering's read, which is not counted.
LEMMA NotReread ==
    ASSUME TypeOK, ApiRestart \/ \E c \in Clients : Lapse(c)
    PROVE  ~RenderReread
<1>1. restarts \in Nat /\ lapses \in Nat
  BY WireguardAssumption DEF TypeOK
<1>2. restarts' # restarts \/ lapses' # lapses
  BY <1>1 DEF ApiRestart, Lapse
<1> QED  BY <1>2 DEF RenderReread, counts

\* What a step does to the table's entry of one client.
LEMMA TableAfter ==
    ASSUME TypeOK, JobForm, Next, NEW c \in Clients
    PROVE  \/ row'[c] = row[c] /\ peer'[c] = peer[c]
           \/ row'[c] = row[c] /\ peer[c] = NoPeer
           \/ /\ ~Wanted(c)' /\ Lapse(c)
           \/ /\ \E r \in Requests : /\ Concerned(r, c)' /\ job'[r].pc \notin {"idle", "await"}
                                     /\ Wanted(c)' => c \in job'[r].todo
           \/ BootEnable
<1>0. row \in [Clients -> Row] /\ peer \in Config
  BY DEF TypeOK
<1>1. ASSUME NEW r \in Requests, NEW d \in Clients, Store(r, d), d = c
      PROVE  /\ Concerned(r, c)' /\ job'[r].pc \notin {"idle", "await"}
             /\ Wanted(c)' => c \in job'[r].todo
  <2>1. PICK status \in {"ACTIVE", "INACTIVE"}, wg \in BOOLEAN :
           /\ row' = [row EXCEPT ![c] = [status |-> status, wg |-> wg]]
           /\ Call(r, "sync", c, IF wg THEN {c} ELSE {})
    BY <1>1 DEF Store
  <2>2. row'[c].wg = wg
    BY <1>0, <2>1
  <2>3. UNCHANGED waiters
    BY <1>1 DEF Store, renderVars
  <2>4. /\ job'[r].op = "sync" /\ job'[r].c = c /\ job'[r].pc \notin {"idle", "await"}
        /\ job'[r].todo = IF wg THEN {c} ELSE {}
    BY <2>1, <2>3, CallForm
  <2> QED  BY <2>2, <2>4 DEF Concerned, Wanted
<1>2. ASSUME NEW r \in Requests, NEW d \in Clients, Delete(r, d), d = c
      PROVE  /\ Concerned(r, c)' /\ job'[r].pc \notin {"idle", "await"}
             /\ Wanted(c)' => c \in job'[r].todo
  <2>1. row'[c].status = "DELETED"
    BY <1>0, <1>2 DEF Delete, Row
  <2>2. Call(r, "sync", c, IF row[c].wg THEN {c} ELSE {}) /\ UNCHANGED waiters
    BY <1>2 DEF Delete, renderVars
  <2>3. job'[r].op = "sync" /\ job'[r].c = c /\ job'[r].pc \notin {"idle", "await"}
    BY <2>2, CallForm
  <2> QED  BY <2>1, <2>3 DEF Concerned, Wanted
<1>3. ASSUME NEW r \in Requests, NEW d \in Clients, Store(r, d) \/ Delete(r, d), d # c
      PROVE  row'[c] = row[c] /\ peer'[c] = peer[c]
  BY <1>0, <1>3 DEF Store, Delete, Config
<1>4. ASSUME NEW d \in Clients, Lapse(d)
      PROVE  \/ row'[c] = row[c] /\ peer'[c] = peer[c]
             \/ ~Wanted(c)' /\ Lapse(c)
  <2>1. CASE d = c
    <3>1. row'[c].status = "INACTIVE"
      BY <1>0, <1>4, <2>1 DEF Lapse, Row
    <3> QED  BY <1>4, <2>1, <3>1 DEF Wanted
  <2>2. CASE d # c
    BY <1>0, <1>4, <2>2 DEF Lapse
  <2> QED  BY <2>1, <2>2
<1>5. ASSUME NEW j \in Jobs, PeerStep(j) \/ Join(j)
      PROVE  row'[c] = row[c] /\ (peer'[c] = peer[c] \/ peer[c] = NoPeer)
  <2>1. CASE PeerCreate(j)
    <3>1. peer' = [peer EXCEPT ![job[j].cur] = job[j].addr] /\ peer[job[j].cur] = NoPeer
          /\ UNCHANGED row
      BY <2>1 DEF PeerCreate, Insertable
    <3> QED  BY <1>0, <3>1 DEF Config
  <2>2. CASE ~PeerCreate(j)
    BY <1>5, <2>2 DEF PeerStep, PeerFound, PeerMissing, PeerSkip, PeerChoose, PoolExhausted,
                      PeerCreateFails, Join, dbVars
  <2> QED  BY <2>1, <2>2
<1>6. CASE ApiRestart \/ LoopRestart \/ \E r \in Requests, d \in Clients : Bundle(r, d)
  BY <1>6 DEF ApiRestart, LoopRestart, Bundle, dbVars
<1>7. CASE (BootStep /\ ~BootEnable) \/ RenderStep \/ LoopStep
  BY <1>7 DEF BootStep, BootSetting, BootMark, BootList, RenderStep, RenderList, RenderReread,
              RenderTruncate, RenderWrite, LoopStep, LoopWait, LoopUp, LoopHash, LoopCheck,
              LoopApply, dbVars
<1> QED  BY <1>1, <1>2, <1>3, <1>4, <1>5, <1>6, <1>7 DEF Next, Environment, BootStep

\* The start-up task in its own steps.
LEMMA BootAfter ==
    ASSUME TypeOK, JobForm, BootStep
    PROVE  /\ job[Boot].pc \notin {"idle", "await"} /\ job'[Boot].pc \notin {"idle", "await"}
           /\ \/ job'[Boot].op = "backfill"
              \/ job'[Boot].pc = "list"
              \/ BootList /\ job'[Boot].todo = {c \in Clients : Stored(c) /\ row[c].wg}
           /\ BootEnable => job'[Boot].op = "backfill"
<1>0. /\ Boot \in Jobs /\ job[Boot] \in Job /\ Form(Boot, job[Boot])
      /\ job \in [Jobs -> Job] /\ Boot # Render
      /\ \A rec : Move(Boot, rec) => job'[Boot] = rec
  BY JobTyped, JobsApart DEF JobForm, Move
<1> DEFINE list == [IdleJob("bootstrap") EXCEPT !.pc = "list"]
<1>1. list.pc = "list"
  BY DEF IdleJob
<1>2. CASE BootSetting
  <2> DEFINE enable == [job[Boot] EXCEPT !.pc = "enable", !.todo = {c \in Clients : Stored(c)}]
  <2>1. job[Boot].pc = "setting" /\ (job'[Boot] = list \/ job'[Boot] = enable)
    BY <1>0, <1>2 DEF BootSetting, At
  <2>2. enable.pc = "enable" /\ enable.op = job[Boot].op
    BY <1>0 DEF Job
  <2>3. ~BootEnable /\ job[Boot].op = "backfill"
    BY <1>0, <2>1 DEF BootEnable, At, Form
  <2> HIDE DEF list, enable
  <2> QED  BY <1>1, <2>1, <2>2, <2>3
<1>3. CASE BootEnable
  <2>1. job[Boot].pc = "enable" /\ job'[Boot] = Working(job[Boot], job[Boot].todo)
    BY <1>0, <1>3 DEF BootEnable, At
  <2>2. job[Boot].op = "backfill"
    BY <1>0, <2>1 DEF Form
  <2>3. job'[Boot].op = "backfill" /\ job'[Boot].pc \in {"find", "mark"}
    BY <1>0, <2>1, <2>2, WorkingFields DEF After
  <2> QED  BY <2>1, <2>3
<1>4. CASE BootMark
  <2>1. job[Boot].pc = "mark" /\ job'[Boot] = list
    BY <1>0, <1>4 DEF BootMark, At
  <2>2. ~BootEnable
    BY <2>1 DEF BootEnable, At
  <2> HIDE DEF list
  <2> QED  BY <1>1, <2>1, <2>2
<1>5. CASE BootList
  <2> DEFINE todo == {c \in Clients : Stored(c) /\ row[c].wg}
  <2>1. job[Boot].pc = "list" /\ job'[Boot] = Working(job[Boot], todo)
    BY <1>0, <1>5 DEF BootList, At
  <2>2. job[Boot].op = "bootstrap" /\ ~BootEnable
    BY <1>0, <2>1 DEF Form, BootEnable, At
  <2> HIDE DEF todo
  <2>3. job'[Boot].todo = todo /\ job'[Boot].pc \in {"find", "join"}
    BY <1>0, <2>1, <2>2, WorkingFields DEF After
  <2> QED  BY <1>5, <2>1, <2>2, <2>3 DEF todo
<1> QED  BY <1>2, <1>3, <1>4, <1>5 DEF BootStep

\* A job that has a client in hand keeps it, unless that is a known cause, and
\* joins no rendering that has read the clients already.
LEMMA PendingAfter ==
    ASSUME TypeOK, JobForm, HistoryNext, NEW c \in Clients, NEW j \in Jobs,
           Concerned(j, c), job[j].pc \notin {"idle", "await"}
    PROVE  \/ c \in stale'
           \/ Concerned(j, c)' /\ job'[j].pc \notin {"idle", "await"}
           \/ Concerned(j, c)' /\ job'[j].pc = "await" /\ Join(j) /\ ~Rewriting
<1>0. /\ Next /\ j # Render /\ job[j] \in Job /\ Form(j, job[j])
      /\ job[j].op \in {"sync", "backfill", "bootstrap"}
  BY JobTyped, JobsApart DEF HistoryNext, Concerned, JobForm, Form
<1>1. CASE job'[j] = job[j]
  BY <1>1 DEF Concerned
<1>2. ASSUME job'[j] # job[j], Unrendered(j) PROVE c \in stale'
  BY <1>0, <1>2, JobChange, StaleAfter
<1>3. CASE ApiRestart
  <2>1. ~RenderReread
    BY <1>3, NotReread
  <2> QED  BY <1>3, <2>1, StaleAfter
<1>4. CASE PeerStep(j)
  <2>1. CASE job[j].pc \in {"read", "create"} /\ job'[j] = IdleJob(job[j].op)
    <3>1. Unrendered(j) /\ job'[j] # job[j]
      BY <1>0, <2>1, IdleFields DEF Unrendered
    <3> QED  BY <1>2, <3>1
  <2>2. CASE /\ job'[j].pc \in {"read", "create"}
             /\ job'[j].op = job[j].op /\ job'[j].c = job[j].c
    BY <2>2 DEF Concerned
  <2>3. ASSUME NEW todo, job'[j] = Working(job[j], todo)
        PROVE  Concerned(j, c)' /\ job'[j].pc \notin {"idle", "await"}
    <3>1. job'[j].op = job[j].op /\ job'[j].c = job[j].c /\ job'[j].pc \in {"find", After(job[j].op)}
      BY <1>0, <2>3, WorkingFields
    <3> QED  BY <1>0, <3>1 DEF After, Concerned
  <2> QED  BY <1>0, <1>4, <2>1, <2>2, <2>3, PeerStepAfter
<1>5. CASE Join(j)
  <2>1. job'[j] = [job[j] EXCEPT !.pc = "await"] /\ job[j].pc = "join"
    BY <1>5, JoinAfter
  <2>2. job'[j].pc = "await" /\ job'[j].op = job[j].op /\ job'[j].c = job[j].c
    BY <1>0, <2>1 DEF Job
  <2>3. Rewriting => Unrendered(j) /\ job'[j] # job[j]
    BY <2>1, <2>2 DEF Rewriting, Unrendered
  <2> QED  BY <1>2, <1>5, <2>2, <2>3 DEF Concerned
<1>6. CASE j = Boot /\ BootStep
  BY <1>6, BootAfter DEF Concerned
<1> QED  BY <1>0, <1>1, <1>3, <1>4, <1>5, <1>6, JobChange

LEMMA BusyAfter ==
    ASSUME TypeOK, JobForm, HistoryNext, NEW c \in Clients, NEW j \in Jobs,
           Concerned(j, c), job[j].pc # "idle"
    PROVE  \/ c \in stale'
           \/ Concerned(j, c)' /\ job'[j].pc # "idle"
           \/ RenderWrite /\ job[j].pc = "await"
<1>0. Next /\ j # Render
  BY JobsApart DEF HistoryNext, Concerned
<1>1. CASE job[j].pc # "await"
  BY <1>1, PendingAfter
<1>2. CASE job[j].pc = "await" /\ job'[j] = job[j]
  BY <1>2 DEF Concerned
<1>3. CASE job[j].pc = "await" /\ job'[j] # job[j]
  <2>1. ~PeerStep(j) /\ ~Join(j) /\ ~(j = Boot /\ BootStep)
    BY <1>0, <1>3, PeerStepAfter, JoinAfter, BootAfter
  <2>2. CASE ApiRestart
    BY <1>0, <1>3, <2>2, JobChange, StaleAfter
  <2>3. CASE job'[j] = IdleJob(job[j].op) /\ (RenderWrite \/ job[Render].pc # "write")
    <3>1. ~RenderReread
      BY <1>0, <1>3, JobChange
    <3>2. RenderWrite \/ Unrendered(j)
      BY <1>3, <2>3, IdleFields DEF Unrendered
    <3> QED  BY <1>0, <1>3, <3>1, <3>2, StaleAfter
  <2> QED  BY <1>0, <1>3, <2>1, <2>2, <2>3, JobChange
<1> QED  BY <1>1, <1>2, <1>3

\* A job that will give a client a peer does, or fails.
LEMMA GivesAfter ==
    ASSUME TypeOK, JobForm, HistoryNext, NEW c \in Clients, NEW j \in Jobs,
           Concerned(j, c), Gives(j, c), Missing(c), Missing(c)'
    PROVE  c \in stale' \/ (Concerned(j, c)' /\ Gives(j, c)')
<1>0. /\ Next /\ j # Render /\ job[j] \in Job /\ Form(j, job[j])
      /\ job[j].op \in {"sync", "backfill", "bootstrap"}
      /\ Wanted(c) /\ Stored(c) /\ peer'[c] = NoPeer
  BY JobTyped, JobsApart DEF HistoryNext, Concerned, JobForm, Form, Missing, Wanted, Stored
<1>1. job[j].pc \notin {"idle", "await", "join"}
  BY <1>0, JobsApart DEF Gives, Form
<1>2. CASE job'[j] = job[j]
  BY <1>2 DEF Concerned, Gives
<1>3. ASSUME job'[j] # job[j], Unrendered(j) PROVE c \in stale'
  BY <1>0, <1>3, JobChange, StaleAfter
<1>4. CASE ApiRestart
  <2>1. ~RenderReread
    BY <1>4, NotReread
  <2> QED  BY <1>4, <2>1, StaleAfter
<1>5. CASE PeerStep(j)
  <2>0. job[j].pc # "list"
    BY <1>0, <1>5, PeerStepAfter
  <2>1. CASE job[j].pc \in {"read", "create"} /\ job'[j] = IdleJob(job[j].op)
    <3>1. Unrendered(j) /\ job'[j] # job[j]
      BY <1>0, <2>1, IdleFields DEF Unrendered
    <3> QED  BY <1>3, <3>1
  <2>2. CASE /\ job'[j].pc \in {"read", "create"} /\ job'[j].op = job[j].op
             /\ job'[j].c = job[j].c /\ job'[j].todo = job[j].todo
    BY <2>0, <2>2 DEF Concerned, Gives
  <2>3. ASSUME NEW done, job'[j] = Working(job[j], job[j].todo \ {done}),
               done \in Clients /\ Stored(done) => peer'[done] # NoPeer
        PROVE  Concerned(j, c)' /\ Gives(j, c)'
    <3>1. /\ job'[j].op = job[j].op /\ job'[j].c = job[j].c
          /\ job'[j].todo = job[j].todo \ {done}
          /\ job'[j].pc \in {"find", After(job[j].op)}
      BY <1>0, <2>3, WorkingFields
    <3>2. done # c
      BY <1>0, <2>3
    <3> QED  BY <1>0, <2>0, <3>1, <3>2 DEF After, Concerned, Gives
  <2> QED  BY <1>0, <1>5, <2>1, <2>2, <2>3, PeerStepAfter
<1>6. CASE j = Boot /\ BootStep
  <2>1. job'[Boot].pc # "idle" /\ Concerned(j, c)'
    BY <1>6, BootAfter DEF Concerned
  <2>2. BootList => c \in {d \in Clients : Stored(d) /\ row[d].wg}
    BY <1>0 DEF Wanted
  <2> QED  BY <1>6, <2>1, <2>2, BootAfter DEF Gives
<1>7. ~Join(j)
  BY <1>1, JoinAfter
<1> QED  BY <1>0, <1>1, <1>2, <1>4, <1>5, <1>6, <1>7, JobChange

\* Between the rendering's read and its write nothing else touches what it has
\* read, and nothing but a rendering the file.
LEMMA RewritingAfter ==
    ASSUME TypeOK, JobForm, Next
    PROVE  /\ RenderReread => Rewriting'
           /\ Rewriting' => RenderReread \/ (Rewriting /\ UNCHANGED content)
           /\ ~Rewriting' => RenderWrite \/ ApiRestart \/ (~Rewriting /\ UNCHANGED file)
<1>0. /\ Render \in Jobs /\ job[Render] \in Job /\ Form(Render, job[Render])
      /\ job \in [Jobs -> Job] /\ Boot # Render /\ Render \notin Requests
      /\ \A rec : Move(Render, rec) => job'[Render] = rec
  BY JobTyped, JobsApart DEF JobForm, Move
<1>1. ASSUME NEW pc \in {"truncate", "write"}, Move(Render, [job[Render] EXCEPT !.pc = pc])
      PROVE  job'[Render].pc = pc
  <2>1. job'[Render] = [job[Render] EXCEPT !.pc = pc]
    BY <1>0, <1>1
  <2> QED  BY <1>0, <2>1 DEF Job
<1>2. CASE RenderReread
  BY <1>0, <1>1, <1>2 DEF RenderReread, At, Rewriting
<1>3. SUFFICES ASSUME ~RenderReread
               PROVE  /\ Rewriting' => Rewriting /\ UNCHANGED content
                      /\ ~Rewriting' => RenderWrite \/ ApiRestart \/ (~Rewriting /\ UNCHANGED file)
  BY <1>2
<1>4. CASE RenderTruncate
  BY <1>0, <1>1, <1>4 DEF RenderTruncate, At, Rewriting
<1>5. CASE RenderWrite \/ ApiRestart
  <2>1. job'[Render].pc = "idle"
    <3>1. CASE RenderWrite
      <4>1. job'[Render] = IdleJob(job[Render].op)
        BY <1>0, <3>1 DEF RenderWrite, Ends
      <4> QED  BY <4>1, IdleFields
    <3>2. CASE ApiRestart
      <4>1. job'[Render] = IdleJob("render")
        BY <1>0, <3>2 DEF ApiRestart, FreshJobs
      <4> QED  BY <4>1, IdleFields
    <3> QED  BY <1>5, <3>1, <3>2
  <2> QED  BY <1>5, <2>1 DEF Rewriting
<1>6. ASSUME UNCHANGED <<content, file>>,
             \/ job'[Render] = job[Render]
             \/ /\ job[Render].pc \notin {"truncate", "write"}
                /\ job'[Render].pc \notin {"truncate", "write"}
      PROVE  /\ Rewriting' => Rewriting /\ UNCHANGED content
             /\ ~Rewriting' => RenderWrite \/ ApiRestart \/ (~Rewriting /\ UNCHANGED file)
  BY <1>6 DEF Rewriting
<1>7. CASE RenderList \/ PeerStep(Render)
  <2>0. UNCHANGED <<content, file>>
    BY <1>7 DEF RenderList, PeerStep, PeerFound, PeerMissing, PeerSkip, PeerChoose,
                PoolExhausted, PeerCreate, PeerCreateFails, renderVars
  <2>1. job[Render].pc \in {"list", "find", "read", "create"}
    BY <1>7 DEF RenderList, PeerStep, PeerFound, PeerMissing, PeerSkip, PeerChoose,
                PoolExhausted, PeerCreate, PeerCreateFails, At
  <2>2. job[Render].op = "render"
    BY <1>0 DEF Form
  <2>3. ASSUME NEW todo, Move(Render, Working(job[Render], todo))
        PROVE  job'[Render].pc \notin {"truncate", "write"}
    <3>1. job'[Render].pc \in {"find", After(job[Render].op)}
      BY <1>0, <2>3, WorkingFields
    <3> QED  BY <2>2, <3>1 DEF After
  <2>4. ASSUME Ends(Render)
        PROVE  job'[Render].pc \notin {"truncate", "write"}
    <3>1. job'[Render] = IdleJob(job[Render].op)
      BY <1>0, <2>4 DEF Ends
    <3> QED  BY <3>1, IdleFields
  <2>5. ASSUME NEW c, Move(Render, [job[Render] EXCEPT !.pc = "read", !.cur = c])
        PROVE  job'[Render].pc \notin {"truncate", "write"}
    <3>1. job'[Render] = [job[Render] EXCEPT !.pc = "read", !.cur = c]
      BY <1>0, <2>5
    <3> QED  BY <1>0, <3>1 DEF Job
  <2>6. ASSUME NEW a, Move(Render, [job[Render] EXCEPT !.pc = "create", !.addr = a])
        PROVE  job'[Render].pc \notin {"truncate", "write"}
    <3>1. job'[Render] = [job[Render] EXCEPT !.pc = "create", !.addr = a]
      BY <1>0, <2>6
    <3> QED  BY <1>0, <3>1 DEF Job
  <2>7. job'[Render].pc \notin {"truncate", "write"}
    BY <1>7, <2>3, <2>4, <2>5, <2>6
       DEF RenderList, PeerStep, PeerFound, PeerMissing, PeerSkip, PeerChoose,
           PoolExhausted, PeerCreate, PeerCreateFails
  <2> QED  BY <1>6, <2>0, <2>1, <2>7
<1>8. ASSUME NEW j \in Jobs \ {Render}, PeerStep(j)
      PROVE  UNCHANGED <<content, file>> /\ job'[Render] = job[Render]
  <2>1. UNCHANGED <<content, file>>
    BY <1>8 DEF PeerStep, PeerFound, PeerMissing, PeerSkip, PeerChoose, PoolExhausted,
                PeerCreate, PeerCreateFails, renderVars
  <2> QED  BY <1>0, <1>8, <2>1, PeerStepAfter
<1>9. ASSUME NEW j \in Jobs, Join(j)
      PROVE  /\ UNCHANGED <<content, file>>
             /\ \/ job'[Render] = job[Render]
                \/ /\ job[Render].pc \notin {"truncate", "write"}
                   /\ job'[Render].pc \notin {"truncate", "write"}
  <2>1. UNCHANGED <<content, file>>
    BY <1>9 DEF Join
  <2>2. CASE job[Render].pc = "idle" /\ job'[Render] = [job[Render] EXCEPT !.pc = "list"]
    BY <1>0, <2>1, <2>2 DEF Job
  <2> QED  BY <1>9, <2>1, <2>2, JoinAfter
<1>10. CASE BootStep
  <2>1. UNCHANGED <<content, file>> /\ \E rec : Move(Boot, rec)
    BY <1>10 DEF BootStep, BootSetting, BootEnable, BootMark, BootList, renderVars
  <2>2. job'[Render] = job[Render]
    BY <1>0, <2>1 DEF Move
  <2> QED  BY <1>6, <2>1, <2>2
<1>11. ASSUME NEW r \in Requests, NEW c \in Clients, Store(r, c) \/ Delete(r, c) \/ Bundle(r, c)
       PROVE  UNCHANGED <<content, file>> /\ job'[Render] = job[Render]
  <2>1. UNCHANGED <<content, file>> /\ \E rec : Move(r, rec)
    BY <1>11 DEF Store, Delete, Bundle, Call, renderVars
  <2> QED  BY <1>0, <2>1 DEF Move
<1>12. CASE LoopStep \/ LoopRestart \/ \E c \in Clients : Lapse(c)
  <2>1. UNCHANGED <<job, content, file>>
    BY <1>12 DEF LoopStep, LoopWait, LoopUp, LoopHash, LoopCheck, LoopApply, LoopRestart, Lapse,
                 renderVars
  <2> QED  BY <1>6, <2>1
<1> QED
  <2>1. CASE Environment
    BY <1>5, <1>6, <1>11, <1>12, <2>1 DEF Environment
  <2>2. ASSUME NEW j \in Jobs, PeerStep(j) \/ Join(j)
        PROVE  /\ Rewriting' => Rewriting /\ UNCHANGED content
               /\ ~Rewriting' => RenderWrite \/ ApiRestart \/ (~Rewriting /\ UNCHANGED file)
    BY <1>6, <1>7, <1>8, <1>9, <2>2
  <2>3. CASE RenderStep
    BY <1>3, <1>4, <1>5, <1>7, <2>3 DEF RenderStep
  <2> QED  BY <1>10, <1>12, <2>1, <2>2, <2>3 DEF Next
\* A job that will give a client a peer is on its way.
LEMMA GivesPending ==
    ASSUME JobForm, NEW c \in Clients, NEW j \in Jobs, Concerned(j, c), Gives(j, c)
    PROVE  job[j].pc \notin {"idle", "await"}
<1>1. Form(j, job[j])
  BY DEF JobForm
<1> QED  BY <1>1, JobsApart DEF Form, Gives

\* A step after which the file or what was read of a client may be wrong: its
\* access lapsed, or a job has just been given the client.
LEMMA NewlyWrong ==
    ASSUME TypeOK, JobForm, HistoryNext, ~RenderReread, NEW c \in Clients
    PROVE  \/ c \in stale' \/ Pending(c)'
           \/ row'[c] = row[c] /\ peer'[c] = peer[c]
           \/ row'[c] = row[c] /\ peer[c] = NoPeer
<1>0. Next
  BY DEF HistoryNext
<1>1. ASSUME NEW r \in Requests, Concerned(r, c)', job'[r].pc \notin {"idle", "await"}
      PROVE  Pending(c)'
  BY <1>1, JobsApart DEF Pending
<1>2. CASE BootEnable
  <2>1. Concerned(Boot, c)' /\ job'[Boot].pc \notin {"idle", "await"} /\ Boot \in Jobs
    BY <1>2, BootAfter, JobsApart DEF BootStep, Concerned
  <2> QED  BY <2>1 DEF Pending
<1> QED  BY <1>0, <1>1, <1>2, TableAfter, StaleAfter

\* A client without a peer has a cause for it or a job that sees to it.
LEMMA MissingStep ==
    TypeOK /\ JobForm /\ MissingExplained /\ HistoryNext => MissingExplained'
<1> SUFFICES ASSUME TypeOK, JobForm, MissingExplained, HistoryNext,
                    NEW c \in Clients, Missing(c)'
             PROVE  c \in stale' \/ \E j \in Jobs : Concerned(j, c)' /\ Gives(j, c)'
  BY DEF MissingExplained
<1>0. Next
  BY DEF HistoryNext
<1>1. CASE Missing(c)
  <2>1. c \in stale => c \in stale'
    BY <1>1, StaleAfter
  <2>2. ASSUME NEW j \in Jobs, Concerned(j, c), Gives(j, c)
        PROVE  c \in stale' \/ (Concerned(j, c)' /\ Gives(j, c)')
    BY <1>1, <2>2, GivesAfter
  <2> QED  BY <1>1, <2>1, <2>2 DEF MissingExplained
<1>2. CASE ~Missing(c)
  <2>1. ~(row'[c] = row[c] /\ (peer'[c] = peer[c] \/ peer[c] = NoPeer)) /\ Wanted(c)'
    BY <1>2 DEF Missing, Wanted
  <2>2. ASSUME NEW r \in Requests, Concerned(r, c)', c \in job'[r].todo
        PROVE  r \in Jobs /\ Gives(r, c)'
    BY <2>2, JobsApart DEF Gives
  <2>3. CASE BootEnable
    <3>1. job'[Boot].op = "backfill" /\ job'[Boot].pc # "idle" /\ Boot \in Jobs
      BY <2>3, BootAfter, JobsApart DEF BootStep
    <3>2. Concerned(Boot, c)' /\ Gives(Boot, c)'
      BY <3>1 DEF Concerned, Gives
    <3> QED  BY <3>1, <3>2
  <2> QED  BY <1>0, <2>1, <2>2, <2>3, TableAfter
<1> QED  BY <1>1, <1>2

\* What a rendering has read is right, but for a known cause or a job that will
\* have it read again.
LEMMA ContentStep ==
    TypeOK /\ JobForm /\ MissingExplained /\ ContentExplained /\ HistoryNext
    => ContentExplained'
<1> SUFFICES ASSUME TypeOK, JobForm, MissingExplained, ContentExplained, HistoryNext,
                    Rewriting', NEW c \in Clients
             PROVE  Pending(c)' \/ c \in stale' \/ InContent(c)'
  BY DEF ContentExplained
<1>0. Next
  BY DEF HistoryNext
<1>1. CASE RenderReread
  <2>1. row' = row /\ peer' = peer /\ content' = Rendered
    BY <1>1 DEF RenderReread, dbVars
  <2>2. CASE Missing(c)
    <3>1. c \in stale => c \in stale'
      BY <2>2, StaleAfter
    <3>2. ASSUME NEW j \in Jobs, Concerned(j, c), Gives(j, c) PROVE Pending(c)'
      <4>1. job[j].pc \notin {"idle", "await"} /\ j # Render
        BY <3>2, GivesPending, JobsApart DEF Concerned
      <4>2. job'[j] = job[j]
        BY <1>0, <1>1, <4>1, JobChange
      <4>3. Concerned(j, c)' /\ job'[j].pc \notin {"idle", "await"}
        BY <3>2, <4>1, <4>2 DEF Concerned
      <4> QED  BY <4>3 DEF Pending
    <3> QED  BY <2>2, <3>1, <3>2 DEF MissingExplained
  <2>3. CASE ~Missing(c)
    BY <2>1, <2>3 DEF Missing, InContent, Wanted, Rendered
  <2> QED  BY <2>2, <2>3
<1>2. CASE ~RenderReread
  <2>1. Rewriting /\ content' = content
    BY <1>0, <1>2, RewritingAfter
  <2>2. ASSUME NEW j \in Jobs, Concerned(j, c), job[j].pc \notin {"idle", "await"}
        PROVE  Pending(c)' \/ c \in stale'
    BY <2>1, <2>2, PendingAfter DEF Pending
  <2>3. c \in stale => c \in stale'
    BY <1>2, StaleAfter
  <2>4. CASE InContent(c)
    <3>1. row'[c] = row[c] /\ (peer'[c] = peer[c] \/ peer[c] = NoPeer) => InContent(c)'
      BY <2>1, <2>4 DEF InContent, Wanted
    <3> QED  BY <1>2, <3>1, NewlyWrong
  <2> QED  BY <2>1, <2>2, <2>3, <2>4 DEF ContentExplained, Pending
<1> QED  BY <1>1, <1>2

\* So is the file, once that has been written.
LEMMA EntriesStep ==
    TypeOK /\ JobForm /\ ContentExplained /\ EntriesExplained /\ HistoryNext
    => EntriesExplained'
<1> SUFFICES ASSUME TypeOK, JobForm, ContentExplained, EntriesExplained, HistoryNext,
                    ~Rewriting', NEW c \in Clients
             PROVE  Busy(c)' \/ c \in stale' \/ InFile(c)'
  BY DEF EntriesExplained
<1>0. Next /\ ~RenderReread
  BY RewritingAfter DEF HistoryNext
<1>1. c \in stale => c \in stale'
  BY <1>0, StaleAfter
<1>2. CASE ApiRestart
  BY <1>0, <1>2, StaleAfter
<1>3. CASE RenderWrite
  <2>1. Rewriting /\ row' = row /\ peer' = peer /\ file' = content
    BY <1>3 DEF RenderWrite, At, Rewriting, dbVars
  <2>2. file' # NoFile
    BY <2>1, WireguardAssumption DEF TypeOK
  <2>3. ASSUME NEW j \in Jobs, Concerned(j, c), job[j].pc \notin {"idle", "await"}
        PROVE  Busy(c)' \/ c \in stale'
    BY <2>1, <2>3, PendingAfter DEF Busy
  <2>4. InContent(c) => InFile(c)'
    BY <2>1, <2>2 DEF InContent, InFile, Entry, Wanted
  <2> QED  BY <1>1, <2>1, <2>3, <2>4 DEF ContentExplained, Pending
<1>4. CASE ~ApiRestart /\ ~RenderWrite
  <2>1. ~Rewriting /\ file' = file
    BY <1>0, <1>4, RewritingAfter
  <2>2. ASSUME NEW j \in Jobs, Concerned(j, c), job[j].pc # "idle"
        PROVE  Busy(c)' \/ c \in stale'
    BY <1>4, <2>2, BusyAfter DEF Busy
  <2>3. CASE InFile(c)
    <3>1. row'[c] = row[c] /\ (peer'[c] = peer[c] \/ peer[c] = NoPeer) => InFile(c)'
      BY <2>1, <2>3 DEF InFile, Entry, Wanted
    <3>2. Pending(c)' => Busy(c)'
      BY DEF Pending, Busy
    <3> QED  BY <1>0, <3>1, <3>2, NewlyWrong
  <2> QED  BY <1>1, <2>1, <2>2, <2>3 DEF EntriesExplained, Busy
<1> QED  BY <1>2, <1>3, <1>4

LEMMA FileInit == HistoryInit => FileInv
<1> SUFFICES ASSUME HistoryInit PROVE FileInv
  OBVIOUS
<1>1. TypeOK /\ job = FreshJobs /\ waiters = {}
  BY TypeInit DEF HistoryInit, Init
<1>2. JobForm
  BY <1>1, FreshForm DEF JobForm
<1>3. Boot \in Jobs /\ Render \in Jobs
  BY JobsApart
<1>4. job[Boot].pc = "setting" /\ job[Boot].op = "backfill"
  <2>1. job[Boot] = [IdleJob("backfill") EXCEPT !.pc = "setting"]
    BY <1>1, <1>3, JobsApart DEF FreshJobs
  <2> QED  BY <2>1 DEF IdleJob
<1>5. job[Render].pc = "idle"
  BY <1>1, <1>3, JobsApart DEF FreshJobs, IdleJob
<1>6. \A c \in Clients : Busy(c) /\ Concerned(Boot, c) /\ Gives(Boot, c)
  BY <1>3, <1>4 DEF Busy, Concerned, Gives
<1> QED
  BY <1>1, <1>2, <1>3, <1>5, <1>6
     DEF FileInv, MissingExplained, ContentExplained, EntriesExplained, Rewriting

LEMMA FileStep == FileInv /\ [HistoryNext]_historyVars => FileInv'
<1> SUFFICES ASSUME FileInv, [HistoryNext]_historyVars PROVE FileInv'
  OBVIOUS
<1>1. TypeOK /\ JobForm /\ MissingExplained /\ ContentExplained /\ EntriesExplained
  BY DEF FileInv
<1>2. TypeOK' /\ JobForm'
  BY <1>1, TypeStep, FormStep DEF HistoryNext, historyVars
<1>3. CASE HistoryNext
  BY <1>1, <1>2, <1>3, MissingStep, ContentStep, EntriesStep DEF FileInv
<1>4. CASE UNCHANGED historyVars
  <2>1. UNCHANGED <<row, peer, job, content, file, stale>>
    BY <1>4 DEF historyVars, vars, dbVars, renderVars
  <2>2. \A c \in Clients :
           /\ Missing(c)' <=> Missing(c)
           /\ InContent(c)' <=> InContent(c)
           /\ InFile(c)' <=> InFile(c)
           /\ \A j \in Jobs : /\ Concerned(j, c)' <=> Concerned(j, c)
                              /\ Gives(j, c)' <=> Gives(j, c)
    BY <2>1 DEF Missing, Wanted, Concerned, Gives, InContent, InFile, Entry
  <2>3. \A c \in Clients : (Busy(c)' <=> Busy(c)) /\ (Pending(c)' <=> Pending(c))
    BY <2>1, <2>2 DEF Busy, Pending
  <2>4. Rewriting' <=> Rewriting
    BY <2>1 DEF Rewriting
  <2>5. MissingExplained'
    BY <1>1, <2>1, <2>2 DEF MissingExplained
  <2>6. ContentExplained'
    BY <1>1, <2>1, <2>2, <2>3, <2>4 DEF ContentExplained
  <2>7. EntriesExplained'
    BY <1>1, <2>1, <2>2, <2>3, <2>4 DEF EntriesExplained
  <2> QED  BY <1>2, <2>5, <2>6, <2>7 DEF FileInv
<1> QED  BY <1>3, <1>4

\* Unless a rendering is about to rewrite the file, the entry of a client no
\* task of the service is about is what the table asks for, or one of the known
\* causes explains that it is not: the jobs, renderings and restarts miss
\* nothing else, however they interleave.
THEOREM FileStaysExplained == HistorySpec => []FileExplained
<1>1. FileInv => FileExplained
  <2> SUFFICES ASSUME FileInv, ~Rewriting, NEW c \in Clients
               PROVE  InHand(c) \/ c \in stale \/ InFile(c)
    BY DEF FileExplained, Rewriting
  <2>1. Busy(c) => InHand(c)
    BY DEF Busy, InHand, Concerned
  <2> QED  BY <2>1 DEF FileInv, EntriesExplained
<1> QED  BY <1>1, FileInit, FileStep, PTL DEF HistorySpec
===============================================================================
