---------------------------- MODULE SessionsHistory ----------------------------
(***************************************************************************)
(* Sessions with history variables, which never influence a step and only  *)
(* record why the cookie and its row, or a tab and its token, may disagree. *)
(***************************************************************************)
EXTENDS Sessions

VARIABLES
    torn,       \* the browser's cookie has a known cause for being refused
    overtaken   \* tabs signed out while their bootstrap awaited the profile

historyVars == <<vars, torn, overtaken>>

\* Calls that may set the cookie or write the session's row.
Exchanging == {i \in Calls : call[i].pc # "idle" /\ call[i].at \in {"refresh", "login", "logout"}}
Quiet == Exchanging = {}

\* The cookie the browser would send is the one its session's row expects.
Usable   == cookie # NoToken /\ ~Expired(cookie)
InStep   == Usable => Live(cookie.sid) /\ session[cookie.sid].token = cookie

\* Two exchanges at once, an exchange that is lost, the account's removal.
TornNow == Cardinality(Exchanging') > 1 \/ lost' # lost \/ account' # account

\* A tab shows a page exactly if it holds an access token.
Agrees(t)  == tab[t].status = "authenticated" <=> tab[t].ref # NoToken
Loading(t) == \E i \in InProgress(t) : call[i].at = "me"

Track ==
    /\ torn' = ((torn \/ TornNow) /\ ~(Quiet' /\ InStep'))
    /\ overtaken' = {t \in Tabs :
          /\ \/ t \in overtaken
             \/ tab[t].status = "unauthenticated" /\ Loading(t)
          /\ Loading(t)' \/ ~Agrees(t)'}

HistoryInit == Init /\ torn = FALSE /\ overtaken = {}
HistoryNext == Next /\ Track
HistorySpec == HistoryInit /\ [][HistoryNext]_historyVars
FairHistorySpec == HistorySpec /\ Fairness

-------------------------------------------------------------------------------
\* While no exchange is in progress, the cookie in the browser is the one its
\* session accepts, however many tabs fetched, refreshed and signed in and out
\* one after the other: only a lost call, two exchanges at once or the removal
\* of the account can leave the browser with a cookie that is refused.
CookieAccepted == Quiet /\ ~torn => InStep

\* A tab with no call in progress shows a page or the login form, and shows a
\* page exactly if it holds an access token, whatever answers came in which
\* order; only a profile that comes after a sign-out spoils that.
TabSettled ==
    \A t \in Tabs : InProgress(t) = {} =>
        tab[t].status # "loading" /\ (Agrees(t) \/ t \in overtaken)
===============================================================================
