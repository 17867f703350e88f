-------------------------------- MODULE Accounts --------------------------------
(***************************************************************************)
(* Administrator accounts: creation and removal by the super              *)
(* administrator, two-factor enrolment from the panel's pages, and logins. *)
(* A handler reads, awaits a password hash, and writes; what it read may   *)
(* be old by then.                                                         *)
(***************************************************************************)
EXTENDS LoginAttempts, FiniteSets

CONSTANTS
    Ids,         \* account ids
    Root,        \* the account the start of the API makes
    NoAccount,   \* no row with this id yet
    Removed,     \* the row with this id has been deleted
    Names,       \* user names and addresses
    RootNames,   \* INITIAL_ADMIN_USERNAME and INITIAL_ADMIN_EMAIL
    Newcomers,   \* names and addresses the run creates operators with
    Pages,       \* open admin users pages
    Logins,      \* slots for the logins in progress
    None,        \* no secret, no setup session, no code
    SetupTtl,    \* TWO_FACTOR_SETUP_TTL
    MaxTime,     \* bound on the clock, in TOTP steps
    MaxSecrets,  \* bound on the secrets generated
    MaxUses,     \* bound on what the pages submit
    MaxLogins,   \* bound on the logins begun
    MaxRestarts  \* bound on the restarts of the API

Secrets == 1 .. MaxSecrets
Named   == [username : Names, email : Names]
Row     == [role : {"SUPER_ADMIN", "OPERATOR"}, names : Named, secret : Secrets \cup {None}]
Setup   == [sub : Ids, secret : Secrets, until : Nat]
Code    == [secret : Secrets, at : Nat]

ASSUME AccountsAssumption ==
    /\ Root \in Ids
    /\ RootNames \in Named /\ Newcomers \subseteq Named
    /\ NoAccount \notin Row /\ Removed \notin Row /\ NoAccount # Removed
    /\ None \notin Secrets \cup Setup \cup Code
    /\ IsFiniteSet(Logins)
    /\ {SetupTtl, MaxTime, MaxSecrets, MaxUses, MaxLogins, MaxRestarts} \subseteq Nat

VARIABLES
    now,       \* the clock
    account,   \* AdminUser
    attempts,  \* the map of LoginAttemptService
    page,      \* the pages: whose they are, what they show, what they await
    login,     \* the logins in progress
    secrets,   \* secrets generated so far
    uses,      \* submissions and logins so far
    restarts   \* restarts so far

boundVars == <<secrets, uses, restarts>>
vars == <<now, account, attempts, page, login, boundVars>>

\* `pc` is the write or the reload a page's request goes on to; `row` what its
\* handler read, `arg` the setup, the names or the account it is about.
Page == [by      : Ids,
         shown   : BOOLEAN,                  \* twoFactorStatus.enabled
         setup   : Setup \cup {None},        \* setupSession
         pc      : {"idle", "enable", "disable", "create", "delete", "reload"},
         target  : Ids,
         names   : Named]

Login == [pc  : {"idle", "compare"},
          as  : Ids,                         \* whose password is typed
          key : Names,                       \* the identifier typed with it
          row : [id : Ids \cup {None}, secret : Secrets \cup {None}]]

IdlePage(id) == [by |-> id, shown |-> FALSE, setup |-> None, pc |-> "idle",
                 target |-> Root, names |-> RootNames]
IdleLogin    == [pc |-> "idle", as |-> Root, key |-> RootNames.username,
                 row |-> [id |-> None, secret |-> None]]

TypeOK ==
    /\ now \in 0 .. MaxTime
    /\ account \in [Ids -> Row \cup {NoAccount, Removed}]
    /\ attempts \in [Names -> Entry \cup {NoEntry}]
    /\ page \in [Pages -> Page]
    /\ login \in [Logins -> Login]
    /\ secrets \in 0 .. MaxSecrets
    /\ uses \in [pages : 0 .. MaxUses, logins : 0 .. MaxLogins]
    /\ restarts \in 0 .. MaxRestarts

Exists(id) == account[id] \notin {NoAccount, Removed}

\* AdminBootstrapService: only an empty table gets the initial account.
Bootstrapped(table) ==
    IF \A id \in Ids : table[id] = NoAccount
    THEN [table EXCEPT ![Root] =
             [role |-> "SUPER_ADMIN", names |-> RootNames, secret |-> None]]
    ELSE table

Init ==
    /\ now = 0
    /\ account = Bootstrapped([id \in Ids |-> NoAccount])
    /\ attempts = [k \in Names |-> NoEntry]
    /\ page = [p \in Pages |-> IdlePage(Root)]
    /\ login = [l \in Logins |-> IdleLogin]
    /\ secrets = 0
    /\ uses = [pages |-> 0, logins |-> 0]
    /\ restarts = 0

-------------------------------------------------------------------------------
(* The admin users page.  AdminAuthGuard and the handler's first read are  *)
(* one step; a handler that refuses leaves everything as it was.           *)

\* verifyTotpCode: the step before, this one and the next.
Verifies(secret, code) ==
    code.secret = secret /\ \E offset \in -1 .. 1 : now + offset = code.at

Submits(p) ==
    /\ page[p].pc = "idle"
    /\ Exists(page[p].by)
    /\ uses.pages < MaxUses
    /\ uses' = [uses EXCEPT !.pages = @ + 1]

Own(p) == account[page[p].by]

\* Somebody signs in on another page; its first load shows the current state.
Visit(p, id) ==
    /\ page[p].pc = "idle" /\ Exists(id)
    /\ uses.pages < MaxUses
    /\ uses' = [uses EXCEPT !.pages = @ + 1]
    /\ page' = [page EXCEPT ![p] = [IdlePage(id) EXCEPT !.shown = account[id].secret # None]]
    /\ UNCHANGED <<now, account, attempts, login, secrets, restarts>>

\* startTwoFactorSetup: the secret travels in a signed token; nothing is stored.
StartSetup(p) ==
    /\ ~page[p].shown /\ page[p].setup = None
    /\ Submits(p)
    /\ Own(p).secret = None
    /\ secrets < MaxSecrets
    /\ secrets' = secrets + 1
    /\ page' = [page EXCEPT ![p].setup =
                   [sub |-> page[p].by, secret |-> secrets + 1, until |-> now + SetupTtl]]
    /\ UNCHANGED <<now, account, attempts, login, restarts>>

\* The cancel button forgets the setup session; its token stays valid.
CancelSetup(p) ==
    /\ page[p].setup # None
    /\ page[p].pc = "idle"
    /\ page' = [page EXCEPT ![p].setup = None]
    /\ UNCHANGED <<now, account, attempts, login, boundVars>>

\* What enableTwoFactor checks before it writes; the slip forgets the secret
\* that may be there already.
EnablesAnyway(p, code) ==
    page[p].setup.until > now /\ Verifies(page[p].setup.secret, code)
Enables(p, code) ==
    /\ Own(p).secret = None
    /\ page[p].setup.sub = page[p].by /\ page[p].setup.until > now
    /\ Verifies(page[p].setup.secret, code)

SubmitCode(p, code) ==
    /\ page[p].setup # None
    /\ Submits(p)
    /\ Enables(p, code)
    /\ page' = [page EXCEPT ![p].pc = "enable"]
    /\ UNCHANGED <<now, account, attempts, login, secrets, restarts>>

\* update by id: it throws if the row is gone, and looks at nothing else.
EnableWrite(p) ==
    /\ page[p].pc = "enable"
    /\ IF Exists(page[p].by)
       THEN /\ account' = [account EXCEPT ![page[p].by].secret = page[p].setup.secret]
            /\ page' = [page EXCEPT ![p].pc = "reload", ![p].setup = None]
       ELSE /\ page' = [page EXCEPT ![p].pc = "idle"]
            /\ UNCHANGED account
    /\ UNCHANGED <<now, attempts, login, boundVars>>

SubmitDisable(p, code) ==
    /\ page[p].shown
    /\ Submits(p)
    /\ Own(p).secret # None /\ Verifies(Own(p).secret, code)
    /\ page' = [page EXCEPT ![p].pc = "disable"]
    /\ UNCHANGED <<now, account, attempts, login, secrets, restarts>>

DisableWrite(p) ==
    /\ page[p].pc = "disable"
    /\ IF Exists(page[p].by)
       THEN /\ account' = [account EXCEPT ![page[p].by].secret = None]
            /\ page' = [page EXCEPT ![p].pc = "reload", ![p].setup = None]
       ELSE /\ page' = [page EXCEPT ![p].pc = "idle"]
            /\ UNCHANGED account
    /\ UNCHANGED <<now, attempts, login, boundVars>>

\* Only the super administrator sees the forms, and RolesGuard enforces it.
Manages(p) == Own(p).role = "SUPER_ADMIN"

Taken(names) ==
    \E id \in Ids : /\ Exists(id)
                    /\ \/ account[id].names.email = names.email
                       \/ account[id].names.username = names.username

\* `id` stands for the one the insertion will draw.
Fresh(id) == account[id] = NoAccount /\ \A p \in Pages : page[p].pc = "create" => page[p].target # id
SubmitCreate(p, id, names) ==
    /\ Submits(p)
    /\ Manages(p)
    /\ ~Taken(names)
    /\ Fresh(id)
    /\ page' = [page EXCEPT ![p].pc = "create", ![p].target = id, ![p].names = names]
    /\ UNCHANGED <<now, account, attempts, login, secrets, restarts>>

\* The unique indexes have the last word; the slip is a table without them.
InsertableAlways(names) == TRUE
Insertable(names) == ~Taken(names)

CreateWrite(p) ==
    /\ page[p].pc = "create"
    /\ IF Insertable(page[p].names)
       THEN /\ account' = [account EXCEPT ![page[p].target] =
                  [role |-> "OPERATOR", names |-> page[p].names, secret |-> None]]
            /\ page' = [page EXCEPT ![p].pc = "reload"]
       ELSE page' = [page EXCEPT ![p].pc = "idle"] /\ UNCHANGED account
    /\ UNCHANGED <<now, attempts, login, boundVars>>

Removable(p, id) == Exists(id) /\ id # page[p].by /\ account[id].role # "SUPER_ADMIN"

SubmitRemove(p, id) ==
    /\ Submits(p)
    /\ Manages(p)
    /\ Removable(p, id)
    /\ page' = [page EXCEPT ![p].pc = "delete", ![p].target = id]
    /\ UNCHANGED <<now, account, attempts, login, secrets, restarts>>

RemoveWrite(p) ==
    /\ page[p].pc = "delete"
    /\ account' = [account EXCEPT ![page[p].target] = IF Exists(page[p].target) THEN Removed ELSE @]
    /\ page' = [page EXCEPT ![p].pc = IF Exists(page[p].target) THEN "reload" ELSE "idle"]
    /\ UNCHANGED <<now, attempts, login, boundVars>>

\* refreshSession and loadPage; both fail if the account is gone.
Reload(p) ==
    /\ page[p].pc = "reload"
    /\ page' = [page EXCEPT ![p].pc = "idle",
                   ![p].shown = IF Exists(page[p].by) THEN Own(p).secret # None ELSE @]
    /\ UNCHANGED <<now, account, attempts, login, boundVars>>

-------------------------------------------------------------------------------
(* Logins.                                                                 *)

\* The rows findFirst may answer with; the slip looks at user names only.
FoundByUsername(key) == {id \in Ids : Exists(id) /\ account[id].names.username = key}
Found(key) == {id \in Ids : /\ Exists(id)
                            /\ \/ account[id].names.username = key
                               \/ account[id].names.email = key}

CleanedAll == [k \in Names |-> Cleaned(attempts[k], now)]

\* login() up to bcrypt.compare; a blocked key gets no further.
LoginStart(l, id, key) ==
    /\ login[l].pc = "idle"
    /\ uses.logins < MaxLogins
    /\ uses' = [uses EXCEPT !.logins = @ + 1]
    /\ attempts' = CleanedAll
    /\ IF Blocked(CleanedAll[key], now)
       THEN UNCHANGED login
       ELSE \E row \in IF Found(key) = {} THEN {[id |-> None, secret |-> None]}
                       ELSE {[id |-> i, secret |-> account[i].secret] : i \in Found(key)} :
               login' = [login EXCEPT ![l] =
                   [pc |-> "compare", as |-> id, key |-> key, row |-> row]]
    /\ UNCHANGED <<now, account, page, secrets, restarts>>

Fails(l) == attempts' = [CleanedAll EXCEPT ![login[l].key] = Failed(@, now)]
Clears(l) == attempts' = [attempts EXCEPT ![login[l].key] = NoEntry]
Right(l) == login[l].row.id = login[l].as

LoginEnds(l) ==
    /\ login' = [login EXCEPT ![l] = IdleLogin]
    /\ UNCHANGED <<now, account, page, boundVars>>

LoginRefused(l) ==
    /\ login[l].pc = "compare" /\ ~Right(l)
    /\ Fails(l)
    /\ LoginEnds(l)

\* The password is right and no second factor was stored when the row was read.
LoginAccepted(l) ==
    /\ login[l].pc = "compare" /\ Right(l) /\ login[l].row.secret = None
    /\ Clears(l)
    /\ LoginEnds(l)

\* The first of the two requests: the answer is a challenge.  So it is, without
\* a failure on record, when the challenge sent along has expired.
LoginChallenged(l) ==
    /\ login[l].pc = "compare" /\ Right(l) /\ login[l].row.secret # None
    /\ UNCHANGED attempts
    /\ LoginEnds(l)

LoginCode(l, code) ==
    /\ login[l].pc = "compare" /\ Right(l) /\ login[l].row.secret # None
    /\ IF Verifies(login[l].row.secret, code) THEN Clears(l) ELSE Fails(l)
    /\ LoginEnds(l)

-------------------------------------------------------------------------------
\* The map is lost, and with it what was in progress.
ApiRestart ==
    /\ restarts < MaxRestarts
    /\ restarts' = restarts + 1
    /\ account' = Bootstrapped(account)
    /\ attempts' = [k \in Names |-> NoEntry]
    /\ page' = [p \in Pages |-> [page[p] EXCEPT !.pc = "idle"]]
    /\ login' = [l \in Logins |-> IdleLogin]
    /\ UNCHANGED <<now, secrets, uses>>

Tick ==
    /\ now < MaxTime
    /\ now' = now + 1
    /\ UNCHANGED <<account, attempts, page, login, boundVars>>

\* Codes of a generated secret, typed in time or late.
Codes == [secret : 1 .. secrets, at : 0 .. now]

PageStep(p) ==
    \/ StartSetup(p) \/ CancelSetup(p)
    \/ EnableWrite(p) \/ DisableWrite(p) \/ CreateWrite(p) \/ RemoveWrite(p) \/ Reload(p)
    \/ \E code \in Codes : SubmitCode(p, code) \/ SubmitDisable(p, code)
    \/ \E id \in Ids : Visit(p, id) \/ SubmitRemove(p, id)
    \/ \E id \in Ids, names \in Newcomers : SubmitCreate(p, id, names)

LoginStep(l) ==
    \/ \E id \in Ids, key \in Names : LoginStart(l, id, key)
    \/ LoginRefused(l) \/ LoginAccepted(l) \/ LoginChallenged(l)
    \/ \E code \in Codes : LoginCode(l, code)

Next ==
    \/ Tick \/ ApiRestart
    \/ \E p \in Pages : PageStep(p)
    \/ \E l \in Logins : LoginStep(l)

Spec == Init /\ [][Next]_vars

-------------------------------------------------------------------------------
(* Properties.                                                             *)

\* There is always a super administrator, and no two accounts share a name or
\* an address, whichever pages create and remove accounts at the same time.
AccountsSound ==
    /\ \E id \in Ids : Exists(id) /\ account[id].role = "SUPER_ADMIN"
    /\ \A id, other \in Ids \ {i \in Ids : ~Exists(i)} :
          (\/ account[id].names.email = account[other].names.email
           \/ account[id].names.username = account[other].names.username)
          => id = other

\* The failure that sets a block: the first one only opens the window, also
\* when the maximum is one.
BlockFrom == IF BlockMax = 1 THEN 2 ELSE BlockMax

\* Guesses per window: however many logins are in progress at once, an entry
\* never counts more failures than the maximum and the logins that had passed
\* the check when it was reached.
FailuresBounded ==
    \A k \in Names : attempts[k] # NoEntry =>
        attempts[k].failures <= BlockFrom - 1 + Cardinality(Logins)

\* From the failure that reaches the maximum on, no login with the key gets to
\* its password comparison before the window of the first failure is over, but
\* for a restart or a login that succeeds.
BlockHolds ==
    [][\A l \in Logins, k \in Names :
          /\ attempts[k] # NoEntry /\ attempts[k].failures >= BlockFrom
          /\ now - attempts[k].first < BlockTtl
          => ~(login[l].pc = "idle" /\ login'[l].pc = "compare" /\ login'[l].key = k)]_vars

\* A password typed with its own account's name or address is only refused if
\* some other account has that name or address in its other field: creation
\* compares names with names and addresses with addresses only.
OwnNames(id) == {account[id].names.username, account[id].names.email}
OwnPasswordWorks ==
    [][\A l \in Logins :
          /\ login[l].pc = "idle" /\ login'[l].pc = "compare"
          /\ Exists(login'[l].as) /\ login'[l].key \in OwnNames(login'[l].as)
          /\ \A id \in Ids \ {login'[l].as} : Exists(id) => login'[l].key \notin OwnNames(id)
          => login'[l].row.id = login'[l].as]_vars
===============================================================================
