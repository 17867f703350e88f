-------------------------------- MODULE Sessions --------------------------------
(***************************************************************************)
(* The sessions of one administrator: the rows the API keeps, and the tabs *)
(* of one browser, which share a refresh cookie and a stored access token. *)
(* Every fetch of a tab is a call that is sent, handled in the steps its   *)
(* handler awaits between, and answered; answers arrive in any order.      *)
(***************************************************************************)
EXTENDS Integers, FiniteSets

CONSTANTS
    Tabs,        \* tabs of the browser
    Calls,       \* slots for the calls in progress
    NoToken,     \* no cookie, no stored access token
    NoSession,   \* no row with this id
    NoReply,     \* a call that is not answered yet
    Keep,        \* an answer without Set-Cookie
    AccessTtl,   \* ACCESS_TOKEN_TTL
    RefreshTtl,  \* REFRESH_TOKEN_TTL
    MaxTime,     \* bound on the clock, in seconds
    MaxLogins,   \* bound on the logins, which create the sessions
    MaxCalls,    \* bound on what the tabs do, losses included
    MaxLost      \* bound on lost calls and answers

Sids    == 1 .. MaxLogins
Access  == Nat
Refresh == [sid : Sids, iat : Nat]

ASSUME SessionsAssumption ==
    /\ Tabs # {} /\ IsFiniteSet(Calls)
    /\ {AccessTtl, RefreshTtl, MaxTime, MaxLogins, MaxCalls, MaxLost} \subseteq Nat
    /\ NoToken \notin Access \cup Refresh
    /\ NoSession \notin [token : Refresh, revoked : BOOLEAN]
    /\ Keep \notin Refresh \cup {NoToken}
    /\ NoReply \notin [status : Nat, cookie : Refresh \cup {NoToken, Keep},
                       access : Access \cup {NoToken}]

VARIABLES
    now,      \* the clock
    account,  \* the row of the administrator exists
    session,  \* AdminSession: the token whose hash each row holds, and revokedAt
    logins,   \* logins begun so far, each with an id of its own
    cookie,   \* the browser's refresh cookie
    stored,   \* the access token in localStorage
    tab,      \* status and accessTokenRef of every tab
    call,     \* the calls in progress
    begun,    \* calls begun so far
    lost      \* calls and answers lost so far

serverVars  == <<account, session>>
browserVars == <<cookie, stored, tab>>
boundVars   == <<logins, begun, lost>>
vars == <<now, serverVars, browserVars, boundVars, call>>

-------------------------------------------------------------------------------
(* Calls.  `op` is what the tab is after, `at` the request it awaits, `pc` *)
(* the step of its handler.                                                *)

Ops    == {"boot", "api", "renew", "login", "logout"}
Stages == {"me", "api", "refresh", "retry", "login", "logout"}
Steps  == {"idle", "sent", "rotate", "revoke", "open", "answered"}

Reply == [status : {0, 200, 401, 500},          \* 0: the network failed
          cookie : Refresh \cup {NoToken, Keep},
          access : Access \cup {NoToken}]

Call == [pc : Steps, op : Ops, at : Stages, tab : Tabs,
         access : Access \cup {NoToken},        \* the Authorization header
         token  : Refresh \cup {NoToken},       \* the cookie sent along
         sid    : 0 .. MaxLogins,               \* the id a login will draw
         reply  : Reply \cup {NoReply}]

Status == {"closed", "loading", "authenticated", "unauthenticated"}

IdleCall == [pc |-> "idle", op |-> "api", at |-> "api",
             tab |-> CHOOSE t \in Tabs : TRUE,
             access |-> NoToken, token |-> NoToken, sid |-> 0, reply |-> NoReply]

TypeOK ==
    /\ now \in 0 .. MaxTime
    /\ account \in BOOLEAN
    /\ session \in [Sids -> [token : Refresh, revoked : BOOLEAN] \cup {NoSession}]
    /\ logins \in 0 .. MaxLogins
    /\ cookie \in Refresh \cup {NoToken}
    /\ stored \in Access \cup {NoToken}
    /\ tab \in [Tabs -> [status : Status, ref : Access \cup {NoToken}]]
    /\ call \in [Calls -> Call]
    /\ begun \in 0 .. MaxCalls
    /\ lost \in 0 .. MaxLost

\* The browser comes without a session, or with one from an earlier visit.
Init ==
    /\ now = 0
    /\ account = TRUE
    /\ logins \in {0, 1} \cap 0 .. MaxLogins
    /\ session = [s \in Sids |->
          IF s <= logins THEN [token |-> [sid |-> s, iat |-> 0], revoked |-> FALSE]
                         ELSE NoSession]
    /\ cookie = IF logins = 1 THEN [sid |-> 1, iat |-> 0] ELSE NoToken
    /\ stored = IF logins = 1 THEN 0 ELSE NoToken
    /\ tab = [t \in Tabs |-> [status |-> "closed", ref |-> NoToken]]
    /\ call = [i \in Calls |-> IdleCall]
    /\ begun = 0
    /\ lost = 0

-------------------------------------------------------------------------------
(* The API.                                                                *)

\* The row's expiresAt and the token's exp are set together, from one lifetime.
Expired(token) == token.iat + RefreshTtl <= now

\* AdminAuthGuard looks at the access token and the account, not the session.
Accepts(access) == account /\ access # NoToken /\ now < access + AccessTtl

Live(s) == session[s] # NoSession /\ ~session[s].revoked /\ ~Expired(session[s].token)

Plain(status)       == [status |-> status, cookie |-> Keep, access |-> NoToken]
Refused             == [status |-> 401, cookie |-> NoToken, access |-> NoToken]
\* The slip sets the cookie and returns nothing.
GrantedCookie(token) == [status |-> 200, cookie |-> token]
Granted(token)      == [status |-> 200, cookie |-> token, access |-> now]
Answered(c, reply)  == [c EXCEPT !.pc = "answered", !.reply = reply,
                                 !.access = NoToken, !.token = NoToken]
Answer(i, reply)    == call' = [call EXCEPT ![i] = Answered(@, reply)]
Proceed(i, pc)      == call' = [call EXCEPT ![i].pc = pc]
Handles(i, at)      == call[i].pc = "sent" /\ call[i].at = at

\* The upsert of issueSession; the slip keeps the old hash.
UpsertedInName(s, token) ==
    [session EXCEPT ![s] = IF @ = NoSession THEN [token |-> token, revoked |-> FALSE]
                                            ELSE [@ EXCEPT !.revoked = FALSE]]
Upserted(s, token) == [session EXCEPT ![s] = [token |-> token, revoked |-> FALSE]]

\* What refresh() refuses at once; the slip does not look at revokedAt.
RefusedUnlessKept(token) ==
    \/ Expired(token) \/ session[token.sid] = NoSession \/ Expired(session[token.sid].token)
RefusedAtOnce(token) == Expired(token) \/ ~Live(token.sid)

\* A request behind the guard, refused there.
GuardRefuses(i) ==
    /\ \E at \in {"me", "api", "retry"} : Handles(i, at)
    /\ ~Accepts(call[i].access)
    /\ Answer(i, Plain(401))
    /\ UNCHANGED <<now, serverVars, browserVars, boundVars>>

\* What a handler behind the guard does is not about sessions; but a wrong
\* password or code it answers with a 401 too, which the browser cannot tell
\* from the guard's.  That of the profile never does.
Handled(i) ==
    /\ \E at \in {"me", "api", "retry"} : Handles(i, at)
    /\ Accepts(call[i].access)
    /\ \/ Answer(i, Plain(200))
       \/ call[i].at # "me" /\ Answer(i, Plain(401))
    /\ UNCHANGED <<now, serverVars, browserVars, boundVars>>

Guarded(i) == GuardRefuses(i) \/ Handled(i)

\* refresh() up to its next write: the row is read once, before the await.
RefreshMissing(i) ==
    /\ Handles(i, "refresh")
    /\ call[i].token = NoToken
    /\ Answer(i, Plain(401))
    /\ UNCHANGED <<now, serverVars, browserVars, boundVars>>

RefreshLookup(i) ==
    LET token == call[i].token IN
    /\ Handles(i, "refresh")
    /\ token # NoToken
    /\ IF RefusedAtOnce(token)
       THEN Answer(i, Refused)
       ELSE Proceed(i, IF session[token.sid].token = token THEN "rotate" ELSE "revoke")
    /\ UNCHANGED <<now, serverVars, browserVars, boundVars>>

\* A superseded token ends the session; update throws if the row is gone.
RefreshRevoke(i) ==
    LET s == call[i].token.sid IN
    /\ call[i].pc = "revoke"
    /\ IF session[s] = NoSession
       THEN Answer(i, Plain(500)) /\ UNCHANGED session
       ELSE Answer(i, Refused) /\ session' = [session EXCEPT ![s].revoked = TRUE]
    /\ UNCHANGED <<now, account, browserVars, boundVars>>

\* issueSession for a known id.  The upsert makes the row again if it was
\* deleted, and writes revokedAt back to null if it was revoked meanwhile.
RefreshRotate(i) ==
    LET s     == call[i].token.sid
        token == [sid |-> s, iat |-> now]
    IN
    /\ call[i].pc = "rotate"
    /\ IF account
       THEN session' = Upserted(s, token) /\ Answer(i, Granted(token))
       ELSE Answer(i, Plain(500)) /\ UNCHANGED session
    /\ UNCHANGED <<now, account, browserVars, boundVars>>

\* login() with the right credentials: rows that are revoked or have expired go;
\* `lt`, where a row of this very moment is no longer live.
Stale(s) ==
    /\ session[s] # NoSession
    /\ session[s].revoked \/ session[s].token.iat + RefreshTtl < now
LoginVerify(i) ==
    /\ Handles(i, "login")
    /\ IF account
       THEN /\ session' = [s \in Sids |-> IF Stale(s) THEN NoSession ELSE session[s]]
            /\ Proceed(i, "open")
       ELSE Answer(i, Plain(401)) /\ UNCHANGED session
    /\ UNCHANGED <<now, account, browserVars, boundVars>>

LoginOpen(i) ==
    LET token == [sid |-> call[i].sid, iat |-> now] IN
    /\ call[i].pc = "open"
    /\ IF account
       THEN session' = Upserted(token.sid, token) /\ Answer(i, Granted(token))
       ELSE Answer(i, Plain(500)) /\ UNCHANGED session
    /\ UNCHANGED <<now, account, browserVars, boundVars>>

\* updateMany finds no row of an unknown id and is no error; neither is a
\* cookie that does not verify.
Logout(i) ==
    LET token == call[i].token
        named == {s \in Sids : /\ token # NoToken /\ s = token.sid
                               /\ ~Expired(token) /\ session[s] # NoSession}
    IN
    /\ Handles(i, "logout")
    /\ session' = [s \in Sids |-> IF s \in named THEN [session[s] EXCEPT !.revoked = TRUE]
                                                 ELSE session[s]]
    /\ Answer(i, [Refused EXCEPT !.status = 200])
    /\ UNCHANGED <<now, account, browserVars, boundVars>>

\* A super administrator removes the account; its sessions are cascaded.
RemoveAccount ==
    /\ account
    /\ account' = FALSE
    /\ session' = [s \in Sids |-> NoSession]
    /\ UNCHANGED <<now, browserVars, boundVars, call>>

ServerStep(i) ==
    \/ Guarded(i)
    \/ RefreshMissing(i) \/ RefreshLookup(i) \/ RefreshRevoke(i) \/ RefreshRotate(i)
    \/ LoginVerify(i) \/ LoginOpen(i) \/ Logout(i)

-------------------------------------------------------------------------------
(* The browser.                                                            *)

\* A cookie is dropped at its maxAge, the token's lifetime.
SentCookie == IF cookie' # NoToken /\ ~Expired(cookie') THEN cookie' ELSE NoToken

\* The call c of a tab goes on with a request, sent with what the tab and the
\* browser hold once this step is over: the guarded ones carry the access
\* token, and of the others refresh and logout read the cookie.
Sent(c, at) ==
    [c EXCEPT !.pc = "sent", !.at = at, !.reply = NoReply,
        !.access = IF at \in {"me", "api", "retry"} THEN tab'[c.tab].ref ELSE NoToken,
        !.token = IF at \in {"refresh", "logout"} THEN SentCookie ELSE NoToken]
Send(i, at) == call' = [call EXCEPT ![i] = Sent(@, at)]
Done(i)     == call' = [call EXCEPT ![i] = IdleCall]

\* persistToken, with the status the caller sets next.
Persist(t, access, status) ==
    /\ stored' = access
    /\ tab' = [tab EXCEPT ![t] = [status |-> status, ref |-> access]]
Hydrate(t, access) == Persist(t, access, "authenticated")
ClearSession(t)    == Persist(t, NoToken, "unauthenticated")

InProgress(t) == {i \in Calls : call[i].pc # "idle" /\ call[i].tab = t}

Begin(i, t, op, at, sid) ==
    /\ call[i].pc = "idle"
    /\ begun + lost < MaxCalls
    /\ begun' = begun + 1
    /\ UNCHANGED <<now, serverVars, cookie, lost>>
    /\ call' = [call EXCEPT ![i] = Sent([IdleCall EXCEPT !.op = op, !.tab = t, !.sid = sid], at)]

\* The page is loaded: bootstrap tries the stored token, or refreshes at once.
Open(i, t) ==
    /\ tab[t].status = "closed"
    /\ tab' = [tab EXCEPT ![t] = [status |-> "loading", ref |-> stored]]
    /\ Begin(i, t, "boot", IF stored # NoToken THEN "me" ELSE "refresh", 0)
    /\ UNCHANGED <<stored, logins>>

\* A page behind the shell fetches (apiFetch); the two-factor form of the
\* admin users page refreshes by itself (refreshSession); the sign-out button.
Use(i, t, op, at) ==
    /\ tab[t].status = "authenticated"
    /\ UNCHANGED <<stored, tab, logins>>
    /\ Begin(i, t, op, at, 0)
Fetch(i, t)   == Use(i, t, "api", "api")
Renew(i, t)   == Use(i, t, "renew", "refresh")
SignOut(i, t) == Use(i, t, "logout", "logout")

\* The login form, which is also there while the bootstrap is in progress.
SignIn(i, t) ==
    /\ tab[t].status \in {"loading", "unauthenticated"}
    /\ \A j \in InProgress(t) : call[j].op # "login"
    /\ logins < MaxLogins
    /\ logins' = logins + 1
    /\ UNCHANGED <<stored, tab>>
    /\ Begin(i, t, "login", "login", logins + 1)

\* An answer arrives: the browser takes its cookie, then the code that awaited
\* it goes on to its next await.
Arrives(i, at) ==
    /\ call[i].pc = "answered" /\ call[i].at = at
    /\ cookie' = IF call[i].reply.cookie = Keep THEN cookie ELSE call[i].reply.cookie
    /\ UNCHANGED <<now, serverVars, boundVars>>

Arrived(i, at, good) == Arrives(i, at) /\ (call[i].reply.status = 200) = good

ProfileLoaded(i) ==
    /\ Arrived(i, "me", TRUE)
    /\ tab' = [tab EXCEPT ![call[i].tab].status = "authenticated"]
    /\ Done(i)
    /\ UNCHANGED stored

\* Any error, a 401 or not, drops the token and tries the cookie; the slip
\* tries the profile again.
ProfileRetried(i) ==
    /\ Arrived(i, "me", FALSE)
    /\ Persist(call[i].tab, NoToken, tab[call[i].tab].status)
    /\ Send(i, "me")
ProfileFailed(i) ==
    /\ Arrived(i, "me", FALSE)
    /\ Persist(call[i].tab, NoToken, tab[call[i].tab].status)
    /\ Send(i, "refresh")

\* A slip repeats the request without the new token.
RetryUnchanged(i) ==
    call' = [call EXCEPT ![i] = [Sent(@, "retry") EXCEPT !.access = NoToken]]
Retry(i) == Send(i, "retry")

Refreshed(i) ==
    /\ Arrived(i, "refresh", TRUE)
    /\ Hydrate(call[i].tab, call[i].reply.access)
    /\ IF call[i].op = "api" THEN Retry(i) ELSE Done(i)

\* Only the bootstrap clears the session; a slip leaves even that out.
GiveUpSilently(i) == UNCHANGED <<stored, tab>>
GiveUp(i) ==
    IF call[i].op = "boot" THEN ClearSession(call[i].tab) ELSE UNCHANGED <<stored, tab>>

RefreshFailed(i) ==
    /\ Arrived(i, "refresh", FALSE)
    /\ GiveUp(i)
    /\ Done(i)

\* apiFetch: any 401, and nothing else, is answered by a refresh and one retry.
FetchRefused(i) ==
    /\ Arrived(i, "api", FALSE)
    /\ call[i].reply.status = 401
    /\ UNCHANGED <<stored, tab>>
    /\ Send(i, "refresh")

FetchEnds(i) ==
    /\ \/ Arrives(i, "api") /\ call[i].reply.status # 401
       \/ Arrives(i, "retry")
    /\ UNCHANGED <<stored, tab>>
    /\ Done(i)

SignedIn(i) ==
    /\ Arrived(i, "login", TRUE)
    /\ Hydrate(call[i].tab, call[i].reply.access)
    /\ Done(i)

SignInFailed(i) ==
    /\ Arrived(i, "login", FALSE)
    /\ UNCHANGED <<stored, tab>>
    /\ Done(i)

\* finally: also when the request failed.
SignedOut(i) ==
    /\ Arrives(i, "logout")
    /\ ClearSession(call[i].tab)
    /\ Done(i)

Receive(i) ==
    \/ ProfileLoaded(i) \/ ProfileFailed(i)
    \/ Refreshed(i) \/ RefreshFailed(i)
    \/ FetchRefused(i) \/ FetchEnds(i)
    \/ SignedIn(i) \/ SignInFailed(i) \/ SignedOut(i)

Start(i, t) == Open(i, t) \/ Fetch(i, t) \/ Renew(i, t) \/ SignIn(i, t) \/ SignOut(i, t)

-------------------------------------------------------------------------------
\* The network drops a request or its answer, or the API restarts under it.
Lose(i) ==
    /\ lost < MaxLost /\ begun + lost < MaxCalls
    /\ lost' = lost + 1
    /\ call[i].pc # "idle"
    /\ call[i].pc = "answered" => call[i].reply.status # 0
    /\ Answer(i, Plain(0))
    /\ UNCHANGED <<now, serverVars, browserVars, logins, begun>>

Tick ==
    /\ now < MaxTime
    /\ now' = now + 1
    /\ UNCHANGED <<serverVars, browserVars, boundVars, call>>

Next ==
    \/ Tick \/ RemoveAccount
    \/ \E i \in Calls : ServerStep(i) \/ Receive(i) \/ Lose(i) \/ \E t \in Tabs : Start(i, t)

Spec == Init /\ [][Next]_vars

\* The API handles what it receives and the browser goes on with an answer, or
\* an error, that has arrived.  Nobody is sure to use a tab.
Fairness == \A i \in Calls : WF_vars(ServerStep(i)) /\ WF_vars(Receive(i))

-------------------------------------------------------------------------------
(* Properties.                                                             *)

\* Every call a tab makes ends, through its refresh and its one retry.
CallsEnd == \A i \in Calls : call[i].pc # "idle" ~> call[i].pc = "idle"

\* A fetch that has just been through a refresh is refused again by the guard
\* only if the account is gone or the new token has expired on its way: the
\* retry carries the token the refresh brought.  A handler's own 401 is repeated
\* as well, and may be given again.
RetryAccepted ==
    [][\A i \in Calls :
          GuardRefuses(i) /\ call[i].at = "retry" =>
              \/ ~account
              \/ call[i].access # NoToken /\ call[i].access + AccessTtl <= now]_vars

\* Logins that have still to open their session, and refreshes that have found
\* it live and are about to rotate its token.
Entering(i) == call[i].pc \in {"sent", "open"} /\ call[i].at = "login"
Rotating(s) == \E i \in Calls : call[i].pc = "rotate" /\ call[i].token.sid = s

Opening  == {call[i].sid : i \in {j \in Calls : Entering(j)}}
LiveIds  == {s \in Sids : Live(s)}
Renewing == {s \in Sids : Rotating(s)}

\* The rows and the calls implement the life of a session: its login opens it
\* once, only a refresh that found it live renews it, and a session that was
\* revoked, removed or has expired while no refresh had read it is over for
\* good.  A refresh that had read it before undoes the revocation.
Life == INSTANCE SessionLife WITH
    Ids <- Sids, issued <- 1 .. logins,
    opening <- Opening, live <- LiveIds, renewing <- Renewing
SessionsLiveOnce == Life!LifeSpec
===============================================================================
