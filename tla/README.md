# Formal model of the Xray VPN control plane

The program is a control plane for a VPN server: a NestJS API over PostgreSQL
that keeps VPN clients, pushes them into a running Xray process over gRPC and
into WireGuard through a rendered file, meters their traffic, enforces quotas
and expiry dates, backs itself up, and is driven by a React panel. PostgreSQL is
the canonical state; everything else is meant to follow it. These modules model
the parts that keep state, check them with TLC on small instances, and prove
most of what TLC checks with TLAPS for instances of any size: the accounting of traffic,
what a snapshot and a full sync achieve, why the table and Xray may differ, the addresses and
the file of WireGuard, sessions, accounts, retention and restore plans, and what the panel shows.

Paths below are relative to `src/`; `xray.service.ts` and the like stand for
`apps/api/src/modules/<name>/<name>.service.ts`.

## 1. The system

| Component | State it keeps | Operations | Hard behaviour | What makes it correct | Modelled |
|---|---|---|---|---|---|
| Client policy (`clients/client-presenter.ts`, DTOs) | none | effective status of a row, limit and date rules | boundaries (`<=`, `>=`), which of status, date and quota wins, which caller passes the quota in | one status for one row everywhere it is asked | yes |
| Xray runtime control (`xray.service.ts`) | `runtimeProvisioned`, `lastKnownXrayUptimeSeconds`, `inflightSnapshot`, `inflightSync`; Xray's user table and counters | usage snapshot with quota and access enforcement, full sync, single-client sync, reconciler, summary | tasks interleave at every await; destructive reads; restarts of either process; calls failing half way | nothing counted twice or lost; users in step with the table; quotas enforced | yes |
| Clients (`clients.service.ts`) | `Client`, `DailyClientUsage` rows | create, update, extend, resetTraffic, remove, list/get/export (with the expiry sweep), import | work goes on from rows read before an await; several requests at once; an import that stops half way | a stored change reaches Xray, or is repaired later | yes |
| Dashboard (`dashboard.service.ts`) | none | snapshot, expiry by one `updateMany`, summary, analytics | changes the table without telling the runtime; queries that see different moments; midnight | an expired client is not served; the numbers of a report agree | yes |
| WireGuard (`wireguard.service.ts`, `wireguard-ip.util.ts`, `infra/wireguard/run.sh`) | `WireGuardPeer` rows, rendered configuration, runtime dump | peer allocation, render, reload by a polling shell loop, dump import | racing allocations, a render joining an older one, 32-bit address arithmetic | unique addresses; the file follows the table | all but the dump import |
| Authentication (`auth.service.ts`, `login-attempt.service.ts`, `totp.util.ts`, guards) | `AdminSession` rows, the attempt map, 2FA secrets | login, refresh, logout, blocking | token rotation raced by refresh and logout; block windows; attempts in parallel | a session that is over is brought back only by a refresh that had found it live; a block lasts its window | yes |
| Admin users (`admin-users.service.ts`, bootstrap, the page) | `AdminUser` rows, setup sessions held by pages | create, remove, 2FA setup/enable/disable, bootstrap | checks and writes separated by a hash; setup sessions that outlive what they were made for | names are unique; the authenticator confirmed is the one asked for | yes |
| Backups and restore (`backups.service.ts`, its utilities, `restore.sh`) | `BackupSnapshot` rows, archives, work directories | create, maintain, prune, remove, restore plan, restore | crash while creating; names of one-second grain; a sweep over live work; a table replaced under a running API | a READY row has its archive; retention is kept; a plan that promises a restore is right | yes |
| Web session (`features/auth/auth-context.tsx`) | access token in memory and in localStorage, refresh cookie | bootstrap, fetch with refresh and retry, login, logout | concurrent refreshes of several calls and tabs against one rotating token | a valid session is not lost except by concurrency or loss; every call ends | yes |
| Web panel (`features/*`, the router) | view state | pages | answers in any order, handlers that hold an older rendering's query | what is shown is of the client and query asked for | the Clients page, dashboard and administrators pages |
| Subscriptions (`subscriptions.service.ts`) | none | links and bundles of a client | which usage and status they are judged by | no link for a client that is not served | the usage they read |
| Audit log, logs, health, system, deployment | rows and files | read-only endpoints, scripts | - | - | no (section 8) |

How they interact. An admin request runs in the API, reads a client, awaits the
usage snapshot or a transaction, and after the transaction calls Xray (and
WireGuard) "best effort": errors are swallowed. Two timers run in the same
process, the snapshot and the reconciler `ensureRuntimeProvisioned`, and a third
maintains the backups. The two, and requests, join a snapshot or a full sync already
in flight instead of starting another. Node runs one task at a time, so a task is
atomic between two awaits and everything may happen at an await. Docker starts Xray
once the container of the API has started (`service_started` in `docker-compose.yml`), with an
empty user table, so it may be up before or after the API's first call; a restart of it
loses users and counters. The panel is another process on another machine: its tasks
await answers of the API, which come late, out of order, or not at all, and all tabs of
a browser share one refresh cookie. `restore.sh` runs on the host, beside all of
this, and replaces the database under the API.

## 2. Modules

    ClientPolicy              pure rules over rows and payloads
      ControlState            constants, variables, task records, Init, the calls to Xray
        XrayService           environment, snapshot, full sync, reconciler
          ClientsService      requests, the sweep, the dashboard's expiry
            ClientImport      imports, item by item
              ControlPlane    Next, Spec, fairness, properties
                ControlHistory        history variables; properties that need them
                ControlPlaneProofs    type invariant, proved
                  TrafficProofs       accounting of traffic and its refinement, proved
                    EnforcementProofs over ControlHistory: quotas, repair by a full sync, drift
    TrafficLedger             abstract: an account of recorded and pending traffic,
                              which ControlPlane implements (INSTANCE ... WITH)

    AddressPool               the address allocator and its 32-bit arithmetic
      Wireguard               peers, shared rendering, the loop of run.sh
        WireguardHistory
          WireguardProofs     the allocator against its reference, addresses, file, loop

    Sessions                  session rows of the API, tabs, calls, cookie
      SessionsHistory
        SessionsProofs        proofs of all its safety properties and its refinement
    SessionLife               abstract: the life of a session, which Sessions
                              implements (INSTANCE ... WITH)
    LoginAttempts             the attempt map, as pure operators
      Accounts                administrators, second factor, logins
        AccountsHistory
          AccountsProofs      proofs of all its safety properties
    Backups                   rows, archives, maintenance, restore plan, restore.sh
      BackupsHistory
        BackupsProofs         types, retention and restore plans, proved

    Panel                     the Clients page
      PanelHistory
    Analytics                 the usage table, snapshots' rows, reports
      AnalyticsHistory
    Pages                     PanelHistory and AnalyticsHistory behind the router
      PanelProofs             both pages, proved

    MC*                       instances for TLC

A `...History` module adds variables that no step reads and that record why two
things may disagree; section 3 says why they are needed.

The components are composed where the code lets one's decisions reach
another's. Requests, imports, snapshots, syncs and the reconciler share one
`Next`, because they meet in one table and one Xray. `Accounts` composes the
account rows with the attempt map. `Sessions` composes the API's session rows
with the browser that presents tokens to it, and `Backups` the API's tasks with
`restore.sh`. Elsewhere the coupling is narrow and stated in the smaller model:

* No decision of the Xray half reads a peer, and WireGuard sees of a client only whether it
  may connect and whether WireGuard is enabled. So `Wireguard` has its own `row`,
  which every action of the other half that matters to it changes in one of two
  ways: with a call to `syncClient` (`Store`, `Delete`) or without (`Lapse`).
* `Sessions` knows of accounts only whether the one it is about exists; the
  passwords, codes and blocks before a session are those of `Accounts`.
* `Panel` sees the API as a set of clients and answers; `Analytics` has the usage
  table by day, which `ControlPlane` has summed per client. A router mounts one
  page at a time, which is `Pages`.

### The control plane

| Variable | In the code |
|---|---|
| `db` | `Client` rows: status, expiresAt, trafficLimitBytes, isTrafficUnlimited, vlessEnabled |
| `usage` | `DailyClientUsage`, summed per client |
| `up`, `users`, `counters`, `uptime` | the Xray process as its API shows it |
| `provisioned`, `lastUptime` | `runtimeProvisioned`, `lastKnownXrayUptimeSeconds` |
| `snap` | `inflightSnapshot`, the locals of `performCaptureUsageSnapshot`, and who awaits it |
| `sync` | `inflightSync` and the locals of `performSyncAllClients` |
| `ensure` | `ensureRuntimeProvisioned` between the answer of GetSysStats and its decision |
| `req` | admin requests: the await they are at, the row they read, the sweep's ids, an import's items and the rows it wrote |
| `now`, `sent`, `imported`, `issued`, `faults` | the clock, traffic sent and traffic that imports put on record so far, and what the bounds count |

One action is the code of one task between two awaits. The prefix names the
task: `Snap*` the snapshot, `Sync*` the full sync, `Ensure*` the reconciler,
`Client*` the single sync of a request, `Sweep*` the expiry sweep, `Import*` an
import. `pc` fields name the await. A request that joined the snapshot continues in
the step that settles the shared promise (`Settled`).

### WireGuard

| Variable | In the code |
|---|---|
| `row` | `Client` rows: may connect (`ACTIVE`) or not, wireguardEnabled |
| `peer` | `WireguardPeer.assignedIpv4` of each client |
| `backfilled` | the setting `wireguardLegacyBackfillCompletedAt` |
| `job` | each task: a request's `syncClient` or `getClientBundle`, the start-up task, the rendering; its await, the clients left to do, the address chosen |
| `content`, `waiters` | what the rendering has read; who awaits `renderPromise` |
| `file`, `loop`, `iface` | the rendered file; run.sh with `last_hash` and `current_hash`; the interface |

`Peer*` is `ensurePeerForClientId`, `Boot*` the start-up task, `Render*` the
rendering, `Loop*` run.sh, one command at a time.

### Sessions and accounts

| Variable | In the code |
|---|---|
| `session` | `AdminSession`: the token whose hash the row holds, revokedAt |
| `account` (Sessions) | the administrator's row exists |
| `cookie`, `stored`, `tab` | the refresh cookie; the access token in localStorage; status and `accessTokenRef` of each tab |
| `call` | a request in flight: what the tab wants, which request of the chain it awaits, the step of its handler, token and cookie sent, the answer |
| `account` (Accounts) | `AdminUser`: role, names, 2FA secret |
| `attempts` | the map of `LoginAttemptService` |
| `page` | an administrators page: whose it is, the 2FA status shown, its setup session, the write it awaits |
| `login` | a login between its lookup and the outcome of the password comparison |

A call of `Sessions` is sent, handled in the steps between the awaits of its
handler (lookup, rotation, revocation), and answered; what a tab does with the
answer is the step of `auth-context.tsx` that the code resumes with. `Accounts`
has a step per await of a handler: read, hash or compare, write.

### Backups

| Variable | In the code |
|---|---|
| `row` | `BackupSnapshot` rows: status, creation time, fileName, checksum |
| `archive`, `dir` | the archives and the `.tmp-` directories in BACKUP_DIR, with the table a dump holds |
| `job` | the maintenance and the panel's requests, the await each is at |
| `work` | removals started by each, side by side (`Promise.all`), also those whose caller has failed (`Loose`) |
| `script` | restore.sh, the command it is at |

### The panel

`Panel` names its variables after the page's state and refs. A `task` is an
async handler at one of its awaits; `due` are the effects whose dependencies
changed. `Analytics` has `usage` by client and day, `status`, `today`, and
`report`: which of the parallel queries have been answered, with what.

### What the models keep and what they abstract

The control plane:

* Calls to Xray succeed, or fail: when Xray is down, always; when it is up, by a
  fault from the budget `MaxFaults`. A failed `QueryStats` may have reset the
  counters. A call that never returns is not modelled.
* Database calls fail by themselves only in the snapshot's transaction, the one
  place where that loses something, and in an import; a row deleted meanwhile makes
  every update of it throw.
* "Already exists" and the removal that answers it are one step; the second add
  is another, because a failure between them leaves the client out.
* Traffic is counted in units, both directions together. `emailTags` is the online users and
  everyone with traffic. Who is online, or sends, is a user of Xray or a client whose
  connections outlive its user (`Connected`), for a removal closes none. `Lingering` says
  which clients may have such connections: the one of `progress` may, in the other runs
  none does, which keeps them small, and the proofs are for any.
* Who exceeds deviceLimit or ipLimit is a free choice among the clients read,
  for it depends on addresses the model does not have.
* A snapshot without `force` is skipped when the last is recent; how recent is
  left open (`SkipSnapshot`).
* `findMany` has no order, so the loops visit clients in any order.
* `syncClient`, `performSyncAllClients` and the requests pass no used traffic to
  the effective status, so the quota does not make a row unservable there:
  `Servable` is judged with 0 used.
* Every client keeps WireGuard enabled, so VLESS may be off. In a body that
  leaves `vlessEnabled` out it arrives as true: the DTO has an initialiser, which
  `PartialType` inherits and the validation pipe keeps. So an update only keeps
  the stored value when the body says null.
* An item of an import brings any traffic, up to `MaxTraffic`: more than the table has, when
  the file was exported before a reset or by another panel, or less. It keeps the tag and
  the id of its client, and a file has one item per client, as an export has. A
  client deleted before is left out, for it would come back under a new id.
* `durationDays`, UUIDs, transport profiles, names, audit rows and the ownership
  check are left out; an email tag is the client's id.

WireGuard:

* An address is a number of a word with `2 * Half` values; `Signed` is what the
  bitwise operators return. A hash is the file itself. A file cut short between
  truncation and write is the missing file.
* Keys, preshared keys and the text of the configuration are left out. A peer's
  creation fails for the unique indexes and the reference to the client, which
  is what the races can do, not for want of a database.
* The expiry sweep is a lapse (the clock) and later a `Store`; an import
  is a `Store` per client.

Sessions and accounts:

* A token is its session and the second it was issued in; signing and hashing do
  not fail. Two rotations in one second give the same token, as in the code.
* A password is that of an account. What a login compares it with is the row
  `findFirst` returned, any of the rows that match the identifier.
* The clock of `Accounts` counts TOTP steps; a code is of a secret and a step.
* Handlers behind the guard answer 401 as well, for a wrong password, code or setup session
  (`admin-users.service.ts:238`, `283`, `326`, `335`, `395`), and `apiFetch` takes that for an
  expired token: it refreshes and sends the request again. The chain is in `Sessions`
  (`Handled`); `Accounts` has what the handlers do with one request.

Backups:

* tar reads the work directory in one step; what `pg_dump` saw is the table at one
  moment. The manifest, tar and its hash are one step (`Tar`): they read a directory and an
  archive nobody else writes, a second build of the same second and a sweep aside, and those
  come before or after it. The restore plan reads the row, then the archive in three steps.
* The dump replaces the database in one step (`RestoreTable`). `psql` runs without
  `--single-transaction` (`restore.sh:222`), so a failure in the middle leaves tables dropped or
  empty; in the model the script fails before the first table or after the last.
* The Xray configuration in an archive is left out, as is the size of archives.
* No time passes while restore.sh runs, which takes more than a second, so a safeguard
  never finds its name taken.

The panel:

* Rendering and the effects after it are one step (`Commit`), which may come after several
  handlers' steps.
* A query is the search text together with the page number; which clients it
  matches is a constant. The clamping of the page number, forms' fields, toasts
  and clipboard are left out.
* Search text and URL each write the other (`clients-page.tsx:712-745`) when both change
  between two renderings. The model has that swap, and no property demands
  that it ends.
* A snapshot's reads and its transaction are one step in `Analytics`; that
  nothing is lost between them is what `ControlPlane` is for. One report is read at
  a time, with snapshots, edits, imports and midnight between its queries.
* An item of an import replaces the rows of its client by one of today with the bytes and the
  connections it brings, or by none (`ImportUser`); `Items` are those it may bring. Of a row's
  bytes `totalBytes` is kept, which an item gives apart from the two directions.
* The comparison's percentage, the split by direction and host metrics are left out.

## 3. Properties

| Property | Kind | Says |
|---|---|---|
| `TypeOK` (control plane) | invariant, proved | types and bounds of all variables |
| `NoDoubleCounting` | invariant, proved | recorded + drained + still counted traffic never exceeds what was sent and what imports put on record |
| `TrafficKept` | action, proved | the traffic of a stored client shrinks only by a fault, a failed transaction or a reset, removal or import of that client |
| `AccountsLikeLedger` | refinement, proved | the control plane implements `TrafficLedger`: recorded traffic grows by what ceases to be pending or by what an import brings, and shrinks only by a reset, removal or import of that client |
| `DriftExplained` | invariant (history), proved | a client no task works on is out of step with Xray only after a fault, a lost call, an expiry, two tasks at once on it, an import that threw after storing it, or an access limit that removed it without blocking |
| `SyncRepairs` | action (history), proved | a full sync that completes leaves every client nobody else touched in step |
| `QuotaEnforced` | action (history), proved | a snapshot that succeeds leaves nobody it reported, and nobody else touched, over its quota and served |
| `RequestsComplete` | liveness | every request is answered |
| `OverQuotaCutOff` | liveness | a served client whose traffic reaches its limit is cut off |
| `ExpiredCutOff` | liveness, violated | a row marked EXPIRED does not stay served |
| `DriftRepaired` | liveness, violated | the reconciler repairs drift, as a comment claims |
| `AddressesExclusive` | invariant, proved | no two clients share an address in the table, the file or the interface |
| `PoolServes` | invariant, proved below 128.0.0.0, violated above | the allocator returns the lowest free host, and refuses only when none is free |
| `CallsComplete` | liveness | every WireGuard task ends, whatever throws |
| `FileExplained` | invariant (history), proved | a client's entry in the file is wrong only after a lapse, a failed or late call, or a restart |
| `InterfaceFollows` | invariant (history), proved | an unchanged hash means that the interface serves the file, unless a write raced a hash |
| `TypeOK` (sessions) | invariant, proved | types; in particular every answer that grants a cookie grants an access token |
| `TabSettled` | invariant (history), proved | a tab without a call in progress shows a page exactly if it holds a token; only a profile that comes after a sign-out spoils that |
| `CookieAccepted` | invariant (history), proved | while no exchange is in progress, the browser's cookie is refused only after a lost call, two exchanges at once or the account's removal |
| `SessionsLiveOnce` | refinement, proved | `Sessions` implements `SessionLife`: its login opens a session once, only a refresh that found it live renews it, and one that is over while no refresh has read it is over for good |
| `RetryAccepted` | action, proved | after a refresh the guard refuses the retry only if the account is gone or the new token has expired |
| `CallsEnd` | liveness | every fetch, with its refresh and retry, ends |
| `TypeOK` (accounts) | invariant, proved | types; a known key has at least one failure |
| `AccountsSound` | invariant, proved | there is always a super administrator, and no two accounts share a name or an address, whichever creations and removals race |
| `FailuresBounded` | invariant, proved | failures on a key exceed the limit at most by the attempts that had passed the check when it was reached |
| `BlockHolds` | action, proved | from the failure that reaches the limit until its window is over, no login with that key gets as far as the password |
| `OwnPasswordWorks` | action, proved | a login with an account's own name or address is compared with that account, unless the identifier is also in another account's other field |
| `EnabledAsTold` | invariant (history), proved | the authenticator confirmed as enabled is the one logins ask for until it is disabled, two requests at once on one account aside |
| `TypeOK` (backups) | invariant, proved | types of rows, archives, tasks and script |
| `ReadyRestorable` | invariant (history), proved | a READY row names an archive that is its own, complete and has its checksum, unless a name was given twice, a sweep, a half removal or a restored table took it |
| `ArchivesNamed` | invariant (history), proved | every archive has a row that names it, a task at work on it, or was left by a failed build or a replaced table |
| `KeptUntilExpired` | action (history), proved | retention removes no archive of a READY row before its time |
| `PlanHonest` | action, proved | a plan that promises a restore is about an archive that restore.sh accepts and that is the backup's own |
| `BackupsKeepComing` | liveness | once time and faults are used up, no automatic backup is overdue, unless a young CREATING row stands in the way |
| `RestartsServices` | action, violated | a restore restarts the services, as the panel says |
| `PagesTypeOK` | invariant, proved | types of both pages |
| `CardOfOneClient` | invariant, proved | card, form, config and QR code shown are of one client |
| `ListExplained` | invariant (history), proved | the page loads exactly while its latest list request is under way; at rest the table is what the server has for the query shown, unless a handler used an older rendering's query or an answer was lost |
| `CardExplained` | invariant (history), proved | the open card is of the client asked for last, and a closed card stays closed, unless a list read again turned it |
| `ReportAddsUp` | invariant (history), proved | the numbers of a report agree, unless the tables they come from changed, or the day ended, between its queries |
| `OnlineExplained` | invariant (history), proved | a client is shown connected exactly if the last snapshot saw it so, or an import since says so of it, one case after midnight aside |

`Wireguard` has a `TypeOK` of its own, which is proved and not run.

Why history modules. The obvious invariant, "Xray serves exactly the
servable rows", is false in many states the code accepts: between a write and
its call, after a fault, when a date passes, when two requests interleave.
`drift` records those causes and nothing else, and is cleared when the client is
quiet and in step again; `DriftExplained` then says that there is no other way
to get out of step, and it is violated as soon as a path forgets its call. The
same holds of the other stores that follow one another: the rendered file
(`stale`), the interface (`raced`), cookie and session row (`torn`), token and
view (`overtaken`), READY rows and archives (`spoilt`), archives and rows
(`orphaned`), list and query (`cause`), card and click (`wanted`, `pulled`),
the numbers of a report (`moved`) and the connections shown (`lastSeen`). Each
cause is a behaviour the code really has; most are worth a look by who
maintains it. Such a property excuses its causes and does not prevent them: it says that
there is no other way, and the hazards in `PROJECT.json` that are causes say so in their
notes. Four of them as examples:

* A refresh that has passed its lookup rewrites the session's row
  (`auth.service.ts:282`), so it undoes a logout in between. `SessionLife` lets whoever
  found a session live renew it (`Find`, `Renew`), and that is the only way back.
* Pruning empties every `.tmp-` directory it finds (`backups.service.ts:500`), also
  that of an archive being built: `SweptAway`.
* After midnight, a client without a row of the new day whose counters Xray still
  names, with no bytes, is passed over by both loops of the snapshot
  (`xray.service.ts:361`, `:398`): yesterday's connections, or those an import brought, remain
  its latest and it is shown online until it is used again. `OnlineExplained` has exactly this case.
* A sweep that read an overdue client marks it EXPIRED by its id also after an
  extension has moved its date (`clients.service.ts:552`). The effective status of such a
  row is ACTIVE again, so the next full sync serves it, but a breach of a device or IP limit
  blocks only rows that say ACTIVE and removes the user of any
  (`xray.service.ts:544`, `:578`): the client is out while its row still calls
  for it (`Unblocked`). It takes two requests and a clock of 2, beyond
  the bounds of the runs; the search for an inductive invariant met it.

## 4. Runs

| Run | Instance | Question |
|---|---|---|
| `requests` | 1 client, new or with a quota, 2 requests (create, update, reset, import that overwrites, with or without traffic) and no fault, or 1 request and 1 fault | no traffic twice, none lost in silence, drift and quota under concurrent requests; the ledger is implemented |
| `faults` | 1 client from its creation on, any request but reset, import and full sync, 1 fault; or 2 clients with quotas, one expiring, list, extend or import, clock 1 | drift is explained, and a full sync repairs it; loops that turn more than once |
| `progress` | 1 expiring client with quota whose connections may outlive its user, one request (list, update, extend, remove, or the full sync an administrator asks for), clock 1, no faults, fairness | requests end, quota overrun ends |
| `never_provisioned` | 1 client, no faults, fairness | finding 1 |
| `dashboard_expiry` | 1 expiring client, only the dashboard, fairness | finding 2 |
| `wireguard` | 2 clients, 1 call, 1 host, a lapse, a restart, fairness | addresses, file and interface under racing allocations and the shared rendering; every task ends, the pool being full |
| `wg_pool` | 2 clients, server above the sign bit | finding 3 |
| `sessions` | 2 tabs, 2 calls at once, 4 in all, 1 login, 1 lost call, tokens that expire, fairness | rotation, retry, logout and loss between tabs and API |
| `accounts` | 3 accounts, 2 pages, 2 logins at once, codes in time and late, a restart | names, second factor, blocks |
| `backups` | timer, 1 request or removal, restore.sh, 5 rows, clock 2, 2 events (requests, faults, restores), fairness | rows against archives, retention, plans, progress |
| `restore` | 1 build and 1 restore, no fault, fairness | finding 4 |
| `panel` | 2 clients, 2 queries, 2 tasks, 3 clicks; or 2 clients, 4 days, 2 snapshots, 2 edits or imports, 1 report | what the pages show |

Deadlock is checked in every run of the control plane: the snapshot timer can
always start or some task can go on. It is not in the others: once the calls, clicks
and events of the instance are used up, all that is left there is polling that
changes nothing, which is no step. That no task is stuck is what `CallsComplete`,
`CallsEnd` and `BackupsKeepComing` are for.

Bounds are guards of the actions they limit, named in the constants: `MaxEvents` bounds
requests and faults together (two requests or one and a fault), `MaxBusy` the
snapshots and edits while a report is read, `Visits` what the Clients page may find.
Constraints keep two instances small besides and are named in the `MC` modules:
`OneOfTwoInstances` (which requests and which clock go with one client and which with
two) and `FewSteps` (submissions, logins and restarts together).
Both runs with a constraint check safety only. Slots of requests, pages, logins and the
two operators are symmetric in `requests` and `accounts`, which check no liveness.

Bounds. The sweep compares a date with `<`, the policy with `<=`. A clock of 1 has a date that is
future and then equal, that of the row, and one that is equal and then past, that of an
extension (`faults`, `progress`); an uptime falls after a restart. `MaxTime` 2 (in
`dashboard_expiry`) lets the row's own date pass. One unit of traffic against a limit of one is
the boundary of `>=`. One fault is enough because a fault resets a task or a process to a state the model
also reaches otherwise, and two requests because every race here is between two
tasks, the timers always being there in addition. Two clients are needed only where a loop
goes on after another client, which is the second instance of `faults`; liveness is checked with one. With two
clients and a fault at once, `OverQuotaCutOff` does not hold: a failing removal
after the BLOCKED write is retried only when that client sends again (hazard at
`xray.service.ts:517`). That is why `progress` has no faults.
A removal meets no second request in any run: two tasks on one client are a recorded cause
of drift, so `DriftExplained` would ask nothing of the pair; it meets the timers, a fault (`faults`) and
a client over its quota (`progress`).

The word of the WireGuard runs has 16 values: a network of 4 has a single free host, which
two clients exhaust, one of 8 has five, and a server at 1 or 9 lies on
either side of the sign bit. Besides the call there are always the start-up
task and the rendering, so one call already lets three allocations race
(the start-up task lists both clients), and arrives at every point of a rendering
that the start-up task began.

In `sessions` two calls at once are what a race of rotations takes, four in all
let a refresh follow it, and a lifetime of 1 for the access and 2 for the refresh token
against a clock of 2 has each expire before, during and after a call. In `accounts`
two failures block, a window is two steps, and the second operator's user name is the
first administrator's address, which is the ambiguity `OwnPasswordWorks` is about. In `backups`
an interval of 2 with a retention of 1 has an archive expire before the next is due,
as the defaults do not, but their order decides nothing else; two events suffice for a restore of an archive
that a request then removes, or a fault on top of either. In `panel` two tasks
overtake each other, three clicks let a user return to what was left, and two days of history
with a midnight cover a client with and without a row of the new day.

## 5. Fairness

`FairSpec` of the control plane assumes weak fairness of each task's next step, of the snapshot and
reconciler timers and of Xray being started. Node's event loop resumes a task whose
await has settled; `onModuleInit` installs both intervals and nothing clears
them before shutdown; `docker-compose.yml` restarts Xray. Weak fairness suffices
since a step of a task stays enabled until the task takes one. The environment
(requests, traffic, ticks, faults, restarts of the API) has no fairness.

`Wireguard`: weak fairness of every task and of run.sh's loop,
which `restart: unless-stopped` keeps running, and none of calls, lapses and restarts.
`Sessions`: of the handling of a call and of what its tab does with the answer; none of
clicks, of time, of loss. `Backups`: of the maintenance timer, of every task's step, of restore.sh once it runs, and of
the clock, for a backup only becomes due if time passes; none of requests and faults.
`Accounts` and the panel are checked for safety only, and so state none.

## 6. Proofs

All proofs are for any sets of clients, requests, tabs, accounts, archives and tasks, any tables,
payloads and dates, and any bounds. They use the named assumptions of the modules, which
TLC evaluates in every run: `NullAssumption` and `ControlAssumption` (the nulls are not
numbers, bounds are naturals, tables are tables of rows), `PoolAssumption` (the
server's address is a word, the network's size a power of two that divides it) and
`WireguardAssumption`, and those of the other components, which say the same: bounds are naturals,
what stands for nothing is not a value, and what the instance enumerates has the right type.
Three of these say more: `SessionsAssumption` has at least one tab and finitely many calls
at once, and `AccountsAssumption` finitely many logins at once, for `FailuresBounded` counts them;
`AnalyticsAssumption` starts the day without rows of it, as midnight does, and has finitely many
clients and statuses, for their traffic is summed up.

The shape is the same everywhere. An inductive invariant is the conjunction of named parts;
a lemma per group of actions, with one step per action, shows that each part is kept; where few
steps write a variable, a lemma first says which (`DbWriters`, `SnapWriters`,
`ComparesAfterCheck`, `AccountWrites`). TLC checked the candidates on the runs' instances before they were
proved.

The control plane:

* `ControlPlaneProofs!TypeCorrect`: `Spec => []TypeOK`. `TypeOK` alone is not
  inductive: a replacement adds back `sync.cur` and a request writes
  `req[r].c`, which must be clients then, and the uptime is bounded only because
  it never passes the clock. `TypeInv` adds exactly that. One lemma per
  group of actions, one step per action.
* `TrafficProofs!CountedOnce`: `Spec => []NoDoubleCounting`. With the types
  the invariant is inductive. Three kinds of step: those that raise nothing
  (`NotRaised`), the two that move traffic (the drain and the record), and
  `Traffic` and the import, which raise both sides.
* `TrafficProofs!NothingLost`: `Spec => TrafficKept`. The record step would lose
  the traffic of a stored client that is not among those the snapshot found.
  `KeptInv` excludes this: drained traffic exists only between the drain
  and the record, on clients of the tags, and at the record every stored client
  that has some was found (`Drained`). A client created in between is no exception,
  because an id that has no row yet has no user, no counters, no
  delta and no place in a full sync (`Traceless`), and no request, imports
  included, has read it (`HeldRows`, `ImportsHold`); and a deleted row does not come back
  (`RowLife`). `DbWriters` lists the only steps that change the table.
* `TrafficProofs!LedgerImplemented`: `Spec => AccountsLikeLedger`, the refinement
  of `TrafficLedger` with `recorded` mapped to `usage`, `pending` to what the
  snapshot has drained plus what the counters hold, and `due` to what was sent or imported.
  Initial states map to initial states; `Traffic` is `Send`, a reset or removal is `Clear`, an
  import is `Clear` or `Credit`, every other step is `Settle` or a stutter.
* `EnforcementProofs!QuotasEnforced`: `HistorySpec => QuotaEnforced`. `QuotaForm` follows a
  client nobody else changed through the snapshot: the limit read is the row's,
  then the client is still in `over`, or blocked and out of Xray. That a removal follows each
  block, in the step that takes the client out of `over`, is what keeps it.
* `EnforcementProofs!SyncsRepair`: `HistorySpec => SyncRepairs`. `SyncForm` says that a
  pass holds the row the table has and has still to visit the client, or has brought it in
  step; between the two calls of a replacement the client may be served. It needs that a client
  only ever ceases to be servable as time passes (`Lapses`).
* `EnforcementProofs!DriftStaysExplained`: `HistorySpec => []DriftExplained`. The property
  says nothing of a client while a task holds it, so it is not inductive. `DriftForm` adds, for
  every client without a recorded cause (`Undrifted`), that at most one task holds it and what
  that task still owes it at each of its awaits (`ReqForm`, `SnapForm`, `PassForm`): the
  row it carries decides like the stored one, and the calls to Xray still to come bring the
  client in step. As these calls come later, the row has to decide like the stored one
  from now on, not only now (`Serves`). `Shapes` says where each kind of task may stand and
  what it holds there. When one task acts, the others keep what they owe, because they
  do not hold its client (`RequestMoves`, `SnapMoves`, `SyncMoves`); then there is one lemma for each
  kind of actor (`SnapDrift`, `SyncDrift`, `NamedDrift`, `SweepDrift`, `ArriveDrift`,
  `ImportDrift`, `JoinDrift`, and `RestDrift` for the environment).

WireGuard:

* `WireguardProofs!LowHalfAllocation`: below the sign bit the allocator serves
  the lowest free host. The network lies in one half because its size divides
  both (`BlockBounds`, the one place with non-linear arithmetic); then signed and
  unsigned agree, the candidates are the free hosts, and the least exists
  (`LeastNumber`, from the well-foundedness of the naturals).
  `WireguardProofs!PoolAlwaysServes` states it of every state of `Wireguard`.
* `WireguardProofs!WireguardTypeCorrect`: `Spec => []TypeOK`; inductive as it
  stands. That the allocator returns an address even above the sign bit is
  `AllocateType`.
* `WireguardProofs!NoSharedAddress`: `Spec => []AddressesExclusive`, made inductive
  by the same of `content`, the peers a rendering has read and is about to write.
  Addresses enter only in `PeerCreate`, behind the unique index; every other
  step copies one of the four tables to the next.
* `WireguardProofs!LoopAppliesFile`: `HistorySpec => []InterfaceFollows`. `LoopInv`
  says what each position of the loop knows without a race: after `up` the
  interface serves the file, at the comparison it serves what `last_hash` is of, and
  before applying `current_hash` is the file's.
* `WireguardProofs!FileStaysExplained`: `HistorySpec => []FileExplained`. `FileInv` adds where
  the change of a client may be while the file does not have it: with a call or
  the start-up task that has yet to render (`Pending`), in the peers a rendering has read
  (`InContent`), or recorded as stale; and the same of what a rendering is about to write.

Sessions and accounts:

* `SessionsProofs`: `TypeCorrect`, `RetriesAccepted`, `TabsSettle` and
  `CookiesAccepted`. `CallForm` ties the parts of a call to the request of the chain it is at,
  so that an answer with a cookie carries a token. `TabInv` says what a tab shows and
  holds at each stage of its bootstrap; `CookieInv` that an exchange on its own carries
  the browser's cookie and brings one the session accepts (`Accepted`).
* `SessionsProofs!LifeImplemented`: `Spec => SessionsLiveOnce`, the refinement of `SessionLife`.
  `live` is mapped to the rows that are neither revoked nor expired, `opening` to the ids of
  logins that have still to open their session, `renewing` to the sessions a handler has read and
  is about to rotate. A login that begins is `Draw`, its upsert `Open`, a lookup that
  succeeds `Find`, the rotation `Renew`; when the account is gone, or the lifetime is zero, these
  upserts are `End`, as is every other step: only those write a row back (`SessionWrites`, `LiveAfter`). That
  a login opens its own session and no other needs that ids are kept apart (`NewIds`,
  `KnownIds`). `OverStaysOver` is what follows: a session that was revoked, removed or has
  expired while nobody was about to renew it stays so.
* `AccountsProofs`: `AccountsStaySound`, because an account about to be created is not
  there (`CreatesApart`) and only operators are about to be removed (`RemovesOperators`).
  `FailuresStayBounded` counts: the failures of a key beyond the limit, with the logins that
  still compare, never grow (`EntrySound`). `BlocksHold` follows from it, and needs
  that a block outlasts its window (`SoundBlocks`). `SecondFactorAsTold` rests on one page
  at a time changing an account's second factor (`OneChange`); `OwnPasswordsWork` on types alone.

Backups and the panel:

* `BackupsProofs`: `ArchivesKept` (what pruning holds was read as expired,
  `WorkForm`, and time only grows) and `PlansHonest` (`PlansForm`: what a plan has seen of an
  archive is still there). Both rest on one task at most building for a row (`OneBuilder`) and
  on what a row may say while it is built, in the table and in every copy of it,
  dumped, archived or being restored (`TablesForm`).
* `BackupsProofs!ReadyStaysRestorable`: `HistorySpec => []ReadyRestorable`. An archive has one
  owner as long as no two rows or tasks go by its name (`SharedForm`, `OnlyClaimant`), so who
  writes or takes the archive of a row is about that row, and then the row follows. A READY row's
  archive is there as it was hashed (`ReadyForm`, `Intact`), and so is one a build is about to
  call READY (`BuildForm`) and the one `restore.sh` makes before it restores (`GuardForm`).
* `BackupsProofs!ArchivesStayNamed`: `HistorySpec => []ArchivesNamed`. Every archive that was not
  left behind has a row that will stay (`Keeps`), a task that gives it one or takes it away with the
  row (`Tends`), or is the one of `restore.sh` (`NamedForm`).
* `PanelProofs`: `CardStaysOfOneClient` (a QR code is of the config shown, `CodeForm`),
  `CardStaysExplained` (`DetailAsked`: the latest request for details still runs and
  is for the client wanted), `ListStaysExplained` (`LoadingTold`, `ReplyFresh`, `ListComes`: the
  list on its way is the server's, or will be read again), and `OnlineAsSeen` (no row of a
  later day, none of a removed client, `OnlineInv`; a snapshot and an import explain anew what
  is shown, `OnlineSnapshot`, `OnlineImport`, and other steps only take rows away).
* `PanelProofs!ReportsAddUp`: `PagesSpec => []ReportAddsUp`. `Told` says of each answer a report
  has got what the tables say, as long as the table it comes from has not changed since the first
  query, and of the trend at any rate that it has no row outside the window; an answer stays
  as it is told while other queries are read (`ToldStays`). When the report is built, its totals
  are compared: the buckets add up to the clients because the sums of rows and of columns of a
  table are equal (`SumExchange`), clients without rows and days without buckets
  add nothing (`SumOfSome`, `TheBuckets`), the statuses partition the clients (`SumCounts`). The
  lemmas on sums hold for any finite set: `SumFunctionOnSet` unfolds to a recursive function on its
  subsets, which exists, is unique and may take any element first (`SumTakes`).
  Induction takes a set of subsets in place of a predicate (`SubsetInduction`), from the
  well-foundedness of the inclusion of finite sets.

What the proofs changed. Each of these was met as an obligation that could not be proved:
`Unblocked` was missing among the causes of drift (section 3); the arms of
`OnlineIpCount` overlapped, so that CHOOSE decided what the code decides by
order; `TypeOK` of backups let a task remove what is no item; and a
first failure only opens the window, also when the maximum is one, so a block begins
with the second then (`BlockFrom`). Both properties of archives were false beyond the bounds of
their run: a restored table can bring back a row whose name was given again, whose archive
the removal of the other row then takes (`Shared` counts all who go by a name, not rows only), and
it can replace the row a removal is about to delete, which leaves the archive without
one (`LeftBehind`).
The reports of `Analytics` are written with sums of functions, which the prover can unfold,
where they folded an operator before.

Only model-checked:

* Every liveness property: the prover treats neither fairness nor ENABLED.

## 7. Findings

1. `never_provisioned`. A snapshot that succeeds sets `runtimeProvisioned`
   (`xray.service.ts:450`) although nothing has been synchronised. If it comes before
   the first reconciliation that finds Xray up, `lastKnownXrayUptimeSeconds`
   is still null and neither condition of `ensureRuntimeProvisioned` ever holds:
   the clients are never added. `clients.service.ts:908-909` says "the periodic
   reconciler will repair runtime drift".
2. `dashboard_expiry`. The dashboard marks overdue clients EXPIRED without calling
   Xray (`dashboard.service.ts:362`); the sweep visits ACTIVE rows only, so the
   client stays served. `docs/TROUBLESHOOTING.md:23` has it that an expired client
   cannot connect. The dashboard is not the only way there, and the sweep does not cure it
   alone: a full sync that read the row while it was ACTIVE replaces the user in two calls, the
   sweep marks the row and removes the user between them, and the second call adds it back
   for good (hazard at `xray.service.ts:592`). So no run claims `ExpiredCutOff`.
3. `wg_pool`. `serverInt & mask` is signed (`wireguard-ip.util.ts:41`), the server's
   and the used addresses are not, so from 128.0.0.0 on (172.16.0.1/24,
   192.168.0.1/24) the check at line 21 never matches: the first peer gets the
   lowest address, the server's own when that is .1, and every later allocation returns it
   again. The default, 10.44.0.1/24, is not affected, which `LowHalfAllocation` proves.
4. `restore`. With the safeguard, which is the default, `restore.sh:261` inserts an audit
   row without an id; the column has no default, so the script ends there
   and `compose restart api xray` (line 272) is never reached: table and
   configuration are replaced under an API and an Xray that keep running.
   `apps/web/src/i18n/en.ts:177` says that restore "restarts services in order".

The hazards in `PROJECT.json` list what else is delicate, each at its line, with the
property that guards it or the reason why none does.

## 8. Not modelled

* WireGuard's runtime dump (`syncRuntimeDump`, `getRuntimeSummary`): it stores what the
  panel shows and no decision reads it back. A client that loses access without a rendering
  keeps its entry; the code makes no promise to drop it, so `FileExplained` counts a lapse
  as a cause.
* Links, QR contents and bundles of `subscriptions.service.ts`, gRPC encoding, parsing
  of counter names, rendering of configurations: data without control.
* The analytics page, which the router does not mount; the pages of backups, logs, settings
  and subscriptions, which show one answer each.
* Audit rows, log views, health and system endpoints: nothing reads them back
  into a decision.
* Ownership of clients by managers: a filter on every query, the same everywhere.
* Installation and deployment scripts and the host-side `backup.sh`: they provide the
  order of container starts and the empty user table that `Init` and `XrayStart` assume.
* A gRPC call that is never answered. Nothing bounds it once the channel is ready
  (`xray.service.ts:194`), so it would block the shared snapshot, and every request
  that joins it, for good; fairness of `SnapStep` assumes an answer or an error.

## 9. Plan

Done: the control plane with imports and its refinement, WireGuard, sessions, accounts,
backups and restore, the Clients page and the reports; every invariant, action property and
refinement the runs check is proved. Left: WireGuard's runtime dump, once something reads it.
