----------------------------- MODULE AccountsProofs -----------------------------
(***************************************************************************)
(* Theorems about Accounts for any accounts, names, pages, logins, limits  *)
(* and bounds.                                                             *)
(***************************************************************************)
EXTENDS AccountsHistory, FiniteSetTheorems, TLAPS

-------------------------------------------------------------------------------
(* Types.                                                                  *)

\* What the attempt service makes of an entry is an entry.
LEMMA CleanedType ==
    ASSUME NEW entry \in Entry \cup {NoEntry}, NEW t \in Nat
    PROVE  Cleaned(entry, t) \in Entry \cup {NoEntry}
  BY DEF Cleaned

LEMMA FailedType ==
    ASSUME NEW entry \in Entry \cup {NoEntry}, NEW t \in Nat
    PROVE  Failed(entry, t) \in Entry
<1>1. BlockTtl \in Nat /\ NoEntry \notin Entry
  BY AttemptsAssumption
<1>2. CASE entry = NoEntry
  BY <1>2 DEF Failed, Entry
<1>3. CASE entry \in Entry
  <2>1. entry.failures + 1 \in Nat \ {0} /\ entry.first \in Nat /\ entry.until \in Nat \cup {NoBlock}
    BY <1>3 DEF Entry
  <2>2. Failed(entry, t) =
          [failures |-> entry.failures + 1, first |-> entry.first,
           until |-> IF entry.failures + 1 >= BlockMax THEN t + BlockTtl ELSE entry.until]
    BY <1>1, <1>3 DEF Failed, Entry
  <2> QED  BY <1>1, <2>1, <2>2 DEF Entry
<1> QED  BY <1>2, <1>3

LEMMA NowType == TypeOK => now \in Nat
  BY AccountsAssumption DEF TypeOK

LEMMA CleanedAllType == TypeOK => CleanedAll \in [Names -> Entry \cup {NoEntry}]
<1> SUFFICES ASSUME TypeOK, NEW k \in Names
             PROVE  Cleaned(attempts[k], now) \in Entry \cup {NoEntry}
  BY DEF CleanedAll
<1> QED  BY CleanedType, NowType DEF TypeOK

LEMMA FailsType ==
    ASSUME TypeOK, NEW l \in Logins, Fails(l)
    PROVE  attempts' \in [Names -> Entry \cup {NoEntry}]
<1>1. login[l].key \in Names
  BY DEF TypeOK, Login
<1>2. Failed(CleanedAll[login[l].key], now) \in Entry
  <2>1. CleanedAll[login[l].key] \in Entry \cup {NoEntry}
    BY <1>1, CleanedAllType
  <2> QED  BY <2>1, NowType, FailedType
<1> QED  BY <1>1, <1>2, CleanedAllType DEF Fails

LEMMA ClearsType ==
    ASSUME TypeOK, NEW l \in Logins, Clears(l)
    PROVE  attempts' \in [Names -> Entry \cup {NoEntry}]
  BY DEF Clears, TypeOK, Login

LEMMA IdleTypes == IdleLogin \in Login /\ \A id \in Ids : IdlePage(id) \in Page
  BY AccountsAssumption DEF IdleLogin, Login, IdlePage, Page, Named

LEMMA LoginEndsType ==
    ASSUME TypeOK, NEW l \in Logins, LoginEnds(l)
    PROVE  login' \in [Logins -> Login]
  BY IdleTypes DEF LoginEnds, TypeOK

\* A page that awaits the enabling of a second factor holds the setup session.
SetupHeld == \A p \in Pages : page[p].pc = "enable" => page[p].setup # None

LEMMA BootstrappedType ==
    ASSUME NEW table \in [Ids -> Row \cup {NoAccount, Removed}]
    PROVE  Bootstrapped(table) \in [Ids -> Row \cup {NoAccount, Removed}]
<1>1. [role |-> "SUPER_ADMIN", names |-> RootNames, secret |-> None] \in Row
  BY AccountsAssumption DEF Row
<1> QED  BY <1>1 DEF Bootstrapped

LEMMA TypeInit == Init => TypeOK /\ SetupHeld
<1> SUFFICES ASSUME Init PROVE TypeOK /\ SetupHeld
  OBVIOUS
<1>1. account \in [Ids -> Row \cup {NoAccount, Removed}]
  BY BootstrappedType DEF Init
<1>2. page \in [Pages -> Page] /\ login \in [Logins -> Login]
  BY IdleTypes, AccountsAssumption DEF Init
<1>3. SetupHeld
  BY DEF Init, SetupHeld, IdlePage
<1> QED  BY <1>1, <1>2, <1>3, AccountsAssumption DEF Init, TypeOK

\* The pages' steps.
LEMMA PageType ==
    ASSUME TypeOK, SetupHeld, NEW p \in Pages, PageStep(p)
    PROVE  TypeOK'
<1>0. /\ page \in [Pages -> Page] /\ page[p] \in Page
      /\ account \in [Ids -> Row \cup {NoAccount, Removed}]
      /\ now \in Nat /\ secrets \in 0..MaxSecrets
      /\ uses \in [pages : 0..MaxUses, logins : 0..MaxLogins]
  BY NowType DEF TypeOK
<1>1. ASSUME Submits(p) PROVE uses' \in [pages : 0..MaxUses, logins : 0..MaxLogins]
  BY <1>0, <1>1, AccountsAssumption DEF Submits
<1>2. CASE StartSetup(p)
  <2>1. [sub |-> page[p].by, secret |-> secrets + 1, until |-> now + SetupTtl] \in Setup
    BY <1>0, <1>2, AccountsAssumption DEF StartSetup, Setup, Page, Secrets
  <2>2. page' \in [Pages -> Page]
    BY <1>0, <1>2, <2>1 DEF StartSetup, Page
  <2>3. secrets' \in 0..MaxSecrets
    BY <1>0, <1>2, AccountsAssumption DEF StartSetup
  <2> QED  BY <1>1, <1>2, <2>2, <2>3 DEF StartSetup, TypeOK
<1>3. CASE CancelSetup(p)
  <2>1. page' \in [Pages -> Page]
    BY <1>0, <1>3 DEF CancelSetup, Page
  <2> QED  BY <1>3, <2>1 DEF CancelSetup, TypeOK, boundVars
<1>4. CASE EnableWrite(p)
  <2>1. page[p].setup.secret \in Secrets
    BY <1>0, <1>4 DEF EnableWrite, SetupHeld, Page, Setup
  <2>2. account' \in [Ids -> Row \cup {NoAccount, Removed}]
    <3>1. ASSUME Exists(page[p].by)
          PROVE  [account[page[p].by] EXCEPT !.secret = page[p].setup.secret] \in Row
      <4>1. account[page[p].by] \in Row
        BY <1>0, <3>1 DEF Exists, Page
      <4> QED  BY <2>1, <4>1 DEF Row
    <3> QED  BY <1>0, <1>4, <3>1 DEF EnableWrite
  <2>3. page' \in [Pages -> Page]
    BY <1>0, <1>4 DEF EnableWrite, Page
  <2> QED  BY <1>4, <2>2, <2>3 DEF EnableWrite, TypeOK, boundVars
<1>5. CASE DisableWrite(p)
  <2>1. account' \in [Ids -> Row \cup {NoAccount, Removed}]
    <3>1. ASSUME Exists(page[p].by)
          PROVE  [account[page[p].by] EXCEPT !.secret = None] \in Row
      <4>1. account[page[p].by] \in Row
        BY <1>0, <3>1 DEF Exists, Page
      <4> QED  BY <4>1 DEF Row
    <3> QED  BY <1>0, <1>5, <3>1 DEF DisableWrite
  <2>2. page' \in [Pages -> Page]
    BY <1>0, <1>5 DEF DisableWrite, Page
  <2> QED  BY <1>5, <2>1, <2>2 DEF DisableWrite, TypeOK, boundVars
<1>6. CASE CreateWrite(p)
  <2>1. [role |-> "OPERATOR", names |-> page[p].names, secret |-> None] \in Row
    BY <1>0 DEF Row, Page
  <2>2. account' \in [Ids -> Row \cup {NoAccount, Removed}]
    BY <1>0, <1>6, <2>1 DEF CreateWrite
  <2>3. page' \in [Pages -> Page]
    BY <1>0, <1>6 DEF CreateWrite, Page
  <2> QED  BY <1>6, <2>2, <2>3 DEF CreateWrite, TypeOK, boundVars
<1>7. CASE RemoveWrite(p)
  <2>1. account' \in [Ids -> Row \cup {NoAccount, Removed}]
    BY <1>0, <1>7 DEF RemoveWrite
  <2>2. page' \in [Pages -> Page]
    BY <1>0, <1>7 DEF RemoveWrite, Page
  <2> QED  BY <1>7, <2>1, <2>2 DEF RemoveWrite, TypeOK, boundVars
<1>8. CASE Reload(p)
  <2>1. page' \in [Pages -> Page]
    BY <1>0, <1>8 DEF Reload, Page
  <2> QED  BY <1>8, <2>1 DEF Reload, TypeOK, boundVars
<1>9. ASSUME NEW code \in Codes, SubmitCode(p, code) \/ SubmitDisable(p, code)
      PROVE  TypeOK'
  <2>1. page' \in [Pages -> Page]
    BY <1>0, <1>9 DEF SubmitCode, SubmitDisable, Page
  <2> QED  BY <1>1, <1>9, <2>1 DEF SubmitCode, SubmitDisable, TypeOK
<1>10. ASSUME NEW id \in Ids, Visit(p, id)
       PROVE  TypeOK'
  <2>1. page' \in [Pages -> Page]
    <3>1. IdlePage(id) \in Page
      BY IdleTypes
    <3>2. [IdlePage(id) EXCEPT !.shown = account[id].secret # None] \in Page
      BY <3>1 DEF Page
    <3> QED  BY <1>0, <1>10, <3>2 DEF Visit
  <2>2. uses' \in [pages : 0..MaxUses, logins : 0..MaxLogins]
    BY <1>0, <1>10, AccountsAssumption DEF Visit
  <2> QED  BY <1>10, <2>1, <2>2 DEF Visit, TypeOK
<1>11. ASSUME NEW id \in Ids, SubmitRemove(p, id)
       PROVE  TypeOK'
  <2>1. page' \in [Pages -> Page]
    BY <1>0, <1>11 DEF SubmitRemove, Page
  <2> QED  BY <1>1, <1>11, <2>1 DEF SubmitRemove, TypeOK
<1>12. ASSUME NEW id \in Ids, NEW names \in Newcomers, SubmitCreate(p, id, names)
       PROVE  TypeOK'
  <2>1. names \in Named
    BY AccountsAssumption
  <2>2. page' \in [Pages -> Page]
    BY <1>0, <1>12, <2>1 DEF SubmitCreate, Page
  <2> QED  BY <1>1, <1>12, <2>2 DEF SubmitCreate, TypeOK
<1> QED
  BY <1>2, <1>3, <1>4, <1>5, <1>6, <1>7, <1>8, <1>9, <1>10, <1>11, <1>12 DEF PageStep

\* The logins' steps.
LEMMA LoginType ==
    ASSUME TypeOK, NEW l \in Logins, LoginStep(l)
    PROVE  TypeOK'
<1>1. ASSUME NEW id \in Ids, NEW key \in Names, LoginStart(l, id, key)
      PROVE  TypeOK'
  <2>1. uses' \in [pages : 0..MaxUses, logins : 0..MaxLogins]
    BY <1>1, AccountsAssumption DEF LoginStart, TypeOK
  <2>2. attempts' \in [Names -> Entry \cup {NoEntry}]
    BY <1>1, CleanedAllType DEF LoginStart
  <2>3. \A i \in Found(key) : account[i].secret \in Secrets \cup {None}
    BY DEF Found, Exists, TypeOK, Row
  <2>4. login' \in [Logins -> Login]
    BY <1>1, <2>3 DEF LoginStart, TypeOK, Login, Found
  <2> QED  BY <1>1, <2>1, <2>2, <2>4 DEF LoginStart, TypeOK
<1>2. ASSUME LoginEnds(l), attempts' \in [Names -> Entry \cup {NoEntry}]
      PROVE  TypeOK'
  BY <1>2, LoginEndsType DEF LoginEnds, TypeOK, boundVars
<1>3. CASE LoginRefused(l) \/ LoginAccepted(l) \/ LoginChallenged(l)
  BY <1>2, <1>3, FailsType, ClearsType DEF LoginRefused, LoginAccepted, LoginChallenged, TypeOK
<1>4. ASSUME NEW code \in Codes, LoginCode(l, code)
      PROVE  TypeOK'
  BY <1>2, <1>4, FailsType, ClearsType DEF LoginCode
<1> QED  BY <1>1, <1>3, <1>4 DEF LoginStep

LEMMA TypeStep == TypeOK /\ SetupHeld /\ [Next]_vars => TypeOK'
<1> SUFFICES ASSUME TypeOK, SetupHeld, [Next]_vars PROVE TypeOK'
  OBVIOUS
<1>1. CASE Tick
  BY <1>1, AccountsAssumption DEF Tick, TypeOK, boundVars
<1>2. CASE ApiRestart
  <2>1. page' \in [Pages -> Page]
    BY <1>2 DEF ApiRestart, TypeOK, Page
  <2>2. account' \in [Ids -> Row \cup {NoAccount, Removed}]
    BY <1>2, BootstrappedType DEF ApiRestart, TypeOK
  <2> QED  BY <1>2, <2>1, <2>2, IdleTypes, AccountsAssumption DEF ApiRestart, TypeOK
<1>3. CASE \E p \in Pages : PageStep(p)
  BY <1>3, PageType
<1>4. CASE \E l \in Logins : LoginStep(l)
  BY <1>4, LoginType
<1>5. CASE UNCHANGED vars
  BY <1>5 DEF vars, boundVars, TypeOK
<1> QED  BY <1>1, <1>2, <1>3, <1>4, <1>5 DEF Next

-------------------------------------------------------------------------------
(* Accounts.                                                               *)

\* An account about to be created is not there yet, and no other page is about
\* to create it; one about to be deleted is, or was, an operator's.
CreatesApart ==
    \A p \in Pages : page[p].pc = "create" =>
        /\ account[page[p].target] = NoAccount
        /\ \A q \in Pages \ {p} : page[q].pc = "create" => page[q].target # page[p].target

RemovesOperators ==
    \A p \in Pages : page[p].pc = "delete" =>
        /\ account[page[p].target] # NoAccount
        /\ Exists(page[p].target) => account[page[p].target].role = "OPERATOR"

AccountsInv == TypeOK /\ SetupHeld /\ CreatesApart /\ RemovesOperators /\ AccountsSound

\* Nothing but the accounts and the pages matters to the last four.
LEMMA AccountsUnchanged ==
    AccountsInv /\ UNCHANGED <<account, page>>
    => SetupHeld' /\ CreatesApart' /\ RemovesOperators' /\ AccountsSound'
  BY DEF AccountsInv, SetupHeld, CreatesApart, RemovesOperators, AccountsSound, Exists

\* A step of page p that writes no account and gets no further than a reload
\* leaves the accounts sound.
LEMMA AccountsIdle ==
    ASSUME AccountsInv, NEW p \in Pages, UNCHANGED account,
           page' \in [Pages -> Page],
           page'[p].pc \in {"idle", "disable", "reload"},
           \A q \in Pages \ {p} : page'[q] = page[q]
    PROVE  SetupHeld' /\ CreatesApart' /\ RemovesOperators' /\ AccountsSound'
<1>1. SetupHeld'
  BY DEF AccountsInv, SetupHeld
<1>2. CreatesApart'
  BY DEF AccountsInv, CreatesApart
<1>3. RemovesOperators'
  BY DEF AccountsInv, RemovesOperators, Exists
<1>4. AccountsSound'
  BY DEF AccountsInv, AccountsSound, Exists
<1> QED  BY <1>1, <1>2, <1>3, <1>4

\* A write of a second factor changes nothing else of an account.
LEMMA SecretWritten ==
    ASSUME AccountsInv, NEW p \in Pages, NEW s \in Secrets \cup {None},
           Exists(page[p].by),
           account' = [account EXCEPT ![page[p].by].secret = s],
           page' \in [Pages -> Page], page'[p].pc = "reload",
           \A q \in Pages \ {p} : page'[q] = page[q]
    PROVE  SetupHeld' /\ CreatesApart' /\ RemovesOperators' /\ AccountsSound'
<1>0. /\ page[p] \in Page /\ page[p].by \in Ids
      /\ account \in [Ids -> Row \cup {NoAccount, Removed}]
  BY DEF AccountsInv, TypeOK, Page
<1>1. /\ account[page[p].by] \in Row /\ account'[page[p].by] \in Row
      /\ account'[page[p].by].role = account[page[p].by].role
      /\ account'[page[p].by].names = account[page[p].by].names
  BY <1>0 DEF Exists, Row
<1>2. \A id \in Ids : (Exists(id) <=> Exists(id)')
  BY <1>0, <1>1, AccountsAssumption DEF Exists
<1>3. \A id \in Ids : Exists(id) => /\ account'[id].role = account[id].role
                                    /\ account'[id].names = account[id].names
  BY <1>0, <1>1
<1>4. \A id \in Ids : (account[id] = NoAccount <=> account'[id] = NoAccount)
  BY <1>0, <1>1, AccountsAssumption
<1>5. \A q \in Pages : page[q].target \in Ids
  BY DEF AccountsInv, TypeOK, Page
<1>6. SetupHeld'
  BY DEF AccountsInv, SetupHeld
<1>7. CreatesApart'
  BY <1>4, <1>5 DEF AccountsInv, CreatesApart
<1>8. RemovesOperators'
  BY <1>2, <1>3, <1>4, <1>5 DEF AccountsInv, RemovesOperators
<1>9. AccountsSound'
  BY <1>2, <1>3 DEF AccountsInv, AccountsSound
<1> QED  BY <1>6, <1>7, <1>8, <1>9

LEMMA CreateSound ==
    ASSUME AccountsInv, NEW p \in Pages, CreateWrite(p), TypeOK'
    PROVE  SetupHeld' /\ CreatesApart' /\ RemovesOperators' /\ AccountsSound'
<1>0. /\ page[p] \in Page /\ page[p].target \in Ids /\ page[p].names \in Named
      /\ account \in [Ids -> Row \cup {NoAccount, Removed}]
      /\ page[p].pc = "create" /\ account[page[p].target] = NoAccount
      /\ \A q \in Pages \ {p} : page'[q] = page[q]
  BY DEF AccountsInv, TypeOK, Page, CreateWrite, CreatesApart
<1>1. page' \in [Pages -> Page] /\ page'[p].pc \in {"idle", "reload"}
  <2>1. page \in [Pages -> Page] /\ page' \in [Pages -> Page]
    BY DEF AccountsInv, TypeOK
  <2>2. \/ page' = [page EXCEPT ![p].pc = "reload"]
        \/ page' = [page EXCEPT ![p].pc = "idle"]
    BY DEF CreateWrite
  <2> QED  BY <2>1, <2>2 DEF Page
<1>2. CASE ~Insertable(page[p].names)
  BY <1>0, <1>1, <1>2, AccountsIdle DEF CreateWrite
<1>3. CASE Insertable(page[p].names)
  <2> DEFINE row == [role |-> "OPERATOR", names |-> page[p].names, secret |-> None]
  <2>1. account' = [account EXCEPT ![page[p].target] = row]
    BY <1>3 DEF CreateWrite
  <2>2. row \in Row
    BY <1>0 DEF Row
  <2>3. /\ account'[page[p].target] = row /\ row \notin {NoAccount, Removed}
        /\ \A id \in Ids \ {page[p].target} : account'[id] = account[id]
    BY <1>0, <2>1, <2>2, AccountsAssumption
  <2>4. SetupHeld'
    BY <1>0, <1>1 DEF AccountsInv, SetupHeld
  <2>5. CreatesApart'
    <3>1. \A q \in Pages \ {p} : /\ page[q].target \in Ids
                                 /\ page[q].pc = "create" => page[q].target # page[p].target
      BY <1>0 DEF AccountsInv, CreatesApart, TypeOK, Page
    <3>2. ASSUME NEW q \in Pages, page'[q].pc = "create"
          PROVE  /\ account'[page'[q].target] = NoAccount
                 /\ \A other \in Pages \ {q} :
                       page'[other].pc = "create" => page'[other].target # page'[q].target
      <4> HIDE DEF row
      <4>1. q # p /\ page'[q] = page[q]
        BY <1>0, <1>1, <3>2
      <4>2. page[q].pc = "create" /\ page[q].target \in Ids \ {page[p].target}
        <5>1. page[q].pc = "create"
          BY <3>2, <4>1
        <5> QED  BY <3>1, <4>1, <5>1
      <4>3. account[page[q].target] = NoAccount
        BY <4>2 DEF AccountsInv, CreatesApart
      <4>4. ASSUME NEW other \in Pages \ {q}, page'[other].pc = "create"
            PROVE  page'[other].target # page'[q].target
        <5>1. other # p /\ page'[other] = page[other]
          BY <1>0, <1>1, <4>4
        <5> QED  BY <4>1, <4>2, <4>4, <5>1 DEF AccountsInv, CreatesApart
      <4> QED  BY <2>3, <4>1, <4>2, <4>3, <4>4
    <3> QED  BY <3>2 DEF CreatesApart
  <2>6. RemovesOperators'
    <3>1. ASSUME NEW q \in Pages, page'[q].pc = "delete"
          PROVE  /\ page'[q] = page[q] /\ page[q].pc = "delete"
                 /\ account'[page[q].target] = account[page[q].target]
      <4> HIDE DEF row
      <4>1. page'[q] = page[q] /\ page[q].pc = "delete"
        BY <1>0, <1>1, <3>1
      <4>2. page[q].target \in Ids \ {page[p].target}
        BY <1>0, <4>1 DEF AccountsInv, RemovesOperators, TypeOK, Page
      <4> QED  BY <2>3, <4>1, <4>2
    <3> QED  BY <3>1 DEF AccountsInv, RemovesOperators, Exists
  <2>7. AccountsSound'
    <3>1. PICK id \in Ids : Exists(id) /\ account[id].role = "SUPER_ADMIN"
      BY DEF AccountsInv, AccountsSound
    <3>2. id # page[p].target
      BY <1>0, <3>1 DEF Exists
    <3>3. Exists(id)' /\ account'[id].role = "SUPER_ADMIN"
      BY <2>3, <3>1, <3>2 DEF Exists
    <3>4. ASSUME NEW one \in Ids, NEW other \in Ids, Exists(one)', Exists(other)',
                 \/ account'[one].names.email = account'[other].names.email
                 \/ account'[one].names.username = account'[other].names.username
          PROVE  one = other
      <4>1. CASE one = page[p].target /\ other # page[p].target
        BY <1>3, <2>3, <3>4, <4>1 DEF Insertable, Taken, Exists
      <4>2. CASE one # page[p].target /\ other = page[p].target
        BY <1>3, <2>3, <3>4, <4>2 DEF Insertable, Taken, Exists
      <4>3. CASE one # page[p].target /\ other # page[p].target
        BY <2>3, <3>4, <4>3 DEF AccountsInv, AccountsSound, Exists
      <4> QED  BY <4>1, <4>2, <4>3
    <3> QED  BY <3>3, <3>4 DEF AccountsSound
  <2> QED  BY <2>4, <2>5, <2>6, <2>7
<1> QED  BY <1>2, <1>3

LEMMA RemoveSound ==
    ASSUME AccountsInv, NEW p \in Pages, RemoveWrite(p), TypeOK'
    PROVE  SetupHeld' /\ CreatesApart' /\ RemovesOperators' /\ AccountsSound'
<1>0. /\ page[p] \in Page /\ page[p].target \in Ids
      /\ account \in [Ids -> Row \cup {NoAccount, Removed}]
      /\ page[p].pc = "delete" /\ account[page[p].target] # NoAccount
      /\ Exists(page[p].target) => account[page[p].target].role = "OPERATOR"
      /\ \A q \in Pages \ {p} : page'[q] = page[q]
  BY DEF AccountsInv, TypeOK, Page, RemoveWrite, RemovesOperators
<1>1. page' \in [Pages -> Page] /\ page'[p].pc \in {"idle", "reload"}
  BY <1>0 DEF RemoveWrite, AccountsInv, TypeOK
<1>2. CASE ~Exists(page[p].target)
  <2>1. account' = account
    BY <1>0, <1>2 DEF RemoveWrite
  <2> QED  BY <1>0, <1>1, <2>1, AccountsIdle
<1>3. CASE Exists(page[p].target)
  <2>1. account' = [account EXCEPT ![page[p].target] = Removed]
    BY <1>3 DEF RemoveWrite
  <2>2. /\ account'[page[p].target] = Removed
        /\ \A id \in Ids \ {page[p].target} : account'[id] = account[id]
    BY <1>0, <2>1
  <2>3. SetupHeld'
    BY <1>0, <1>1 DEF AccountsInv, SetupHeld
  <2>4. CreatesApart'
    BY <1>0, <1>1, <2>2 DEF AccountsInv, CreatesApart, TypeOK, Page
  <2>5. RemovesOperators'
    BY <1>0, <1>1, <2>2, AccountsAssumption DEF AccountsInv, RemovesOperators, TypeOK, Page, Exists
  <2>6. AccountsSound'
    <3>1. PICK id \in Ids : Exists(id) /\ account[id].role = "SUPER_ADMIN"
      BY DEF AccountsInv, AccountsSound
    <3>2. Exists(id)' /\ account'[id].role = "SUPER_ADMIN"
      BY <1>0, <2>2, <3>1 DEF Exists
    <3> QED  BY <2>2, <3>2 DEF AccountsInv, AccountsSound, Exists
  <2> QED  BY <2>3, <2>4, <2>5, <2>6
<1> QED  BY <1>2, <1>3

\* A submission: the page of the step is about to write, and nothing is written.
LEMMA SubmitSound ==
    ASSUME AccountsInv, NEW p \in Pages, TypeOK', UNCHANGED account,
           \A q \in Pages \ {p} : page'[q] = page[q],
           page'[p].pc = "enable" => page'[p].setup # None,
           page'[p].pc = "create" => Fresh(page'[p].target) /\ page[p].pc = "idle",
           page'[p].pc = "delete" => Removable(p, page'[p].target)
    PROVE  SetupHeld' /\ CreatesApart' /\ RemovesOperators' /\ AccountsSound'
<1>0. page'[p] \in Page /\ page'[p].target \in Ids
  BY DEF TypeOK, Page
<1>1. SetupHeld'
  BY DEF AccountsInv, SetupHeld
<1>2. CreatesApart'
  BY <1>0 DEF AccountsInv, CreatesApart, Fresh
<1>3. RemovesOperators'
  <2>1. ASSUME page'[p].pc = "delete"
        PROVE  /\ account[page'[p].target] # NoAccount
               /\ account[page'[p].target].role = "OPERATOR"
    <3>1. Exists(page'[p].target) /\ account[page'[p].target].role # "SUPER_ADMIN"
      BY <2>1 DEF Removable
    <3>2. account[page'[p].target] \in Row
      BY <1>0, <3>1 DEF AccountsInv, TypeOK, Exists
    <3> QED  BY <3>1, <3>2 DEF Row, Exists
  <2> QED  BY <2>1 DEF AccountsInv, RemovesOperators, Exists
<1>4. AccountsSound'
  BY DEF AccountsInv, AccountsSound, Exists
<1> QED  BY <1>1, <1>2, <1>3, <1>4

LEMMA PageSound ==
    ASSUME AccountsInv, NEW p \in Pages, PageStep(p), TypeOK'
    PROVE  SetupHeld' /\ CreatesApart' /\ RemovesOperators' /\ AccountsSound'
<1>0. page \in [Pages -> Page] /\ page' \in [Pages -> Page]
  BY DEF AccountsInv, TypeOK
<1>1. CASE StartSetup(p) \/ CancelSetup(p) \/ Reload(p)
  BY <1>0, <1>1, AccountsIdle DEF StartSetup, CancelSetup, Reload, Submits, Page
<1>2. CASE EnableWrite(p)
  <2>1. CASE Exists(page[p].by)
    <3>1. page[p].setup.secret \in Secrets
      BY <1>0, <1>2 DEF EnableWrite, AccountsInv, SetupHeld, Page, Setup
    <3> QED  BY <1>0, <1>2, <2>1, <3>1, SecretWritten DEF EnableWrite, Page
  <2>2. CASE ~Exists(page[p].by)
    BY <1>0, <1>2, <2>2, AccountsIdle DEF EnableWrite, Page
  <2> QED  BY <2>1, <2>2
<1>3. CASE DisableWrite(p)
  <2>1. CASE Exists(page[p].by)
    <3>1. None \in Secrets \cup {None}
      OBVIOUS
    <3>2. /\ account' = [account EXCEPT ![page[p].by].secret = None]
          /\ page'[p].pc = "reload"
          /\ \A q \in Pages \ {p} : page'[q] = page[q]
      BY <1>0, <1>3, <2>1 DEF DisableWrite, Page
    <3> QED  BY <1>0, <2>1, <3>1, <3>2, SecretWritten
  <2>2. CASE ~Exists(page[p].by)
    BY <1>0, <1>3, <2>2, AccountsIdle DEF DisableWrite, Page
  <2> QED  BY <2>1, <2>2
<1>4. CASE CreateWrite(p) \/ RemoveWrite(p)
  BY <1>4, CreateSound, RemoveSound
<1>5. ASSUME NEW code \in Codes, SubmitCode(p, code) \/ SubmitDisable(p, code)
      PROVE  SetupHeld' /\ CreatesApart' /\ RemovesOperators' /\ AccountsSound'
  BY <1>0, <1>5, SubmitSound DEF SubmitCode, SubmitDisable, Page
<1>6. ASSUME NEW id \in Ids, Visit(p, id)
      PROVE  SetupHeld' /\ CreatesApart' /\ RemovesOperators' /\ AccountsSound'
  BY <1>0, <1>6, SubmitSound, IdleTypes DEF Visit, IdlePage, Page
<1>7. ASSUME NEW id \in Ids, SubmitRemove(p, id)
      PROVE  SetupHeld' /\ CreatesApart' /\ RemovesOperators' /\ AccountsSound'
  BY <1>0, <1>7, SubmitSound DEF SubmitRemove, Page
<1>8. ASSUME NEW id \in Ids, NEW names \in Newcomers, SubmitCreate(p, id, names)
      PROVE  SetupHeld' /\ CreatesApart' /\ RemovesOperators' /\ AccountsSound'
  BY <1>0, <1>8, SubmitSound DEF SubmitCreate, Submits, Page
<1> QED  BY <1>1, <1>2, <1>3, <1>4, <1>5, <1>6, <1>7, <1>8 DEF PageStep

LEMMA AccountsInit == Init => AccountsInv
<1> SUFFICES ASSUME Init PROVE AccountsInv
  OBVIOUS
<1>1. CreatesApart /\ RemovesOperators
  BY DEF Init, CreatesApart, RemovesOperators, IdlePage
<1>2. \A id \in Ids : account[id] = IF id = Root
                                    THEN [role |-> "SUPER_ADMIN", names |-> RootNames, secret |-> None]
                                    ELSE NoAccount
  BY AccountsAssumption DEF Init, Bootstrapped
<1>3. [role |-> "SUPER_ADMIN", names |-> RootNames, secret |-> None] \in Row
  BY AccountsAssumption DEF Row
<1>4. AccountsSound
  BY <1>2, <1>3, AccountsAssumption DEF AccountsSound, Exists
<1> QED  BY <1>1, <1>4, TypeInit DEF AccountsInv

LEMMA AccountsStep == AccountsInv /\ [Next]_vars => AccountsInv'
<1> SUFFICES ASSUME AccountsInv, [Next]_vars PROVE AccountsInv'
  OBVIOUS
<1>0. TypeOK'
  BY TypeStep DEF AccountsInv
<1>1. CASE Tick
  BY <1>0, <1>1, AccountsUnchanged DEF Tick, AccountsInv
<1>2. CASE ApiRestart
  <2>1. \E id \in Ids : account[id] # NoAccount
    BY DEF AccountsInv, AccountsSound, Exists
  <2>2. account' = account
    BY <1>2, <2>1 DEF ApiRestart, Bootstrapped
  <2>3. \A p \in Pages : page'[p].pc = "idle"
    BY <1>2 DEF ApiRestart, AccountsInv, TypeOK, Page
  <2>4. SetupHeld' /\ CreatesApart' /\ RemovesOperators'
    BY <2>3 DEF SetupHeld, CreatesApart, RemovesOperators
  <2>5. AccountsSound'
    BY <2>2 DEF AccountsInv, AccountsSound, Exists
  <2> QED  BY <1>0, <2>4, <2>5 DEF AccountsInv
<1>3. CASE \E p \in Pages : PageStep(p)
  BY <1>0, <1>3, PageSound DEF AccountsInv
<1>4. CASE \E l \in Logins : LoginStep(l)
  <2>1. UNCHANGED <<account, page>>
    BY <1>4 DEF LoginStep, LoginStart, LoginRefused, LoginAccepted, LoginChallenged, LoginCode,
                LoginEnds
  <2> QED  BY <1>0, <2>1, AccountsUnchanged DEF AccountsInv
<1>5. CASE UNCHANGED vars
  BY <1>0, <1>5, AccountsUnchanged DEF vars, AccountsInv
<1> QED  BY <1>1, <1>2, <1>3, <1>4, <1>5 DEF Next

\* Every variable keeps its type, and every counter its bound.
THEOREM TypeCorrect == Spec => []TypeOK
<1>1. AccountsInv => TypeOK
  BY DEF AccountsInv
<1> QED  BY <1>1, AccountsInit, AccountsStep, PTL DEF Spec

\* Whatever pages create, delete and change accounts at the same time, there is
\* always a super administrator, and names and addresses are unique.
THEOREM AccountsStaySound == Spec => []AccountsSound
<1>1. AccountsInv => AccountsSound
  BY DEF AccountsInv
<1> QED  BY <1>1, AccountsInit, AccountsStep, PTL DEF Spec

-------------------------------------------------------------------------------
(* Failed logins.                                                          *)

\* The logins that got past the check for key k and compare passwords.
Comparing(k) == {l \in Logins : login[l].pc = "compare" /\ login[l].key = k}

\* What holds of a key's entry at time t, with n logins comparing: a block was
\* set by the failure that reached the limit, it outlasts the window, and the
\* failures that are still to come are those of the logins that got past it.
EntrySound(entry, t, n) ==
    entry # NoEntry =>
        /\ entry.first <= t
        /\ entry.failures >= BlockFrom =>
              /\ entry.until # NoBlock
              /\ entry.until >= entry.first + BlockTtl
              /\ entry.failures + n <= BlockFrom - 1 + Cardinality(Logins)

AttemptsSound == \A k \in Names : EntrySound(attempts[k], now, Cardinality(Comparing(k)))

LEMMA BlockFromType == BlockFrom \in Nat /\ BlockFrom > 1 /\ BlockFrom >= BlockMax
  BY AttemptsAssumption DEF BlockFrom

LEMMA LoginsNumber == Cardinality(Logins) \in Nat
  BY AccountsAssumption, FS_CardinalityType

LEMMA ComparingNumber ==
    ASSUME NEW k
    PROVE  /\ IsFiniteSet(Comparing(k))
           /\ Cardinality(Comparing(k)) \in 0..Cardinality(Logins)
<1>1. Comparing(k) \in SUBSET Logins
  BY DEF Comparing
<1>2. IsFiniteSet(Comparing(k)) /\ Cardinality(Comparing(k)) <= Cardinality(Logins)
  BY <1>1, AccountsAssumption, FS_Subset
<1> QED  BY <1>2, LoginsNumber, FS_CardinalityType

\* Time passes and logins end without a failure.
LEMMA SoundLater ==
    ASSUME NEW entry \in Entry \cup {NoEntry}, NEW t \in Nat, NEW u \in Nat, NEW n \in Nat,
           NEW m \in Nat, t <= u, m <= n, EntrySound(entry, t, n)
    PROVE  EntrySound(entry, u, m)
  BY BlockFromType, LoginsNumber DEF EntrySound, Entry

LEMMA SoundCleaned ==
    ASSUME NEW entry, NEW t, NEW n, EntrySound(entry, t, n)
    PROVE  EntrySound(Cleaned(entry, t), t, n)
  BY DEF EntrySound, Cleaned

\* One of the logins that compare fails.
LEMMA SoundFailed ==
    ASSUME NEW entry \in Entry \cup {NoEntry}, NEW t \in Nat,
           NEW n \in 1..Cardinality(Logins), EntrySound(entry, t, n)
    PROVE  EntrySound(Failed(entry, t), t, n - 1)
<1>0. /\ BlockTtl \in Nat /\ BlockMax \in Nat \ {0} /\ NoBlock \notin Nat
      /\ NoEntry \notin Entry
  BY AttemptsAssumption
<1>1. CASE entry = NoEntry
  <2>1. Failed(entry, t) = [failures |-> 1, first |-> t, until |-> NoBlock]
    BY <1>1 DEF Failed
  <2> QED  BY <2>1, BlockFromType DEF EntrySound
<1>2. CASE entry \in Entry
  <2>1. /\ entry.failures \in Nat \ {0} /\ entry.first \in Nat
        /\ entry.until \in Nat \cup {NoBlock} /\ entry # NoEntry
    BY <1>0, <1>2 DEF Entry
  <2>2. Failed(entry, t) =
          [failures |-> entry.failures + 1, first |-> entry.first,
           until |-> IF entry.failures + 1 >= BlockMax THEN t + BlockTtl ELSE entry.until]
    BY <1>0, <1>2 DEF Failed, Entry
  <2>3. entry.first <= t
    BY <2>1 DEF EntrySound
  <2>4. ASSUME entry.failures + 1 >= BlockFrom
        PROVE  /\ entry.failures + 1 >= BlockMax
               /\ entry.failures + n <= BlockFrom - 1 + Cardinality(Logins)
    <3>1. CASE entry.failures >= BlockFrom
      BY <2>1, <2>4, <3>1, BlockFromType, <1>0 DEF EntrySound
    <3>2. CASE entry.failures < BlockFrom
      BY <2>1, <2>4, <3>2, BlockFromType, <1>0, LoginsNumber
    <3> QED  BY <3>1, <3>2, <2>1, BlockFromType
  <2>5. ASSUME entry.failures + 1 >= BlockFrom
        PROVE  /\ t + BlockTtl # NoBlock
               /\ t + BlockTtl >= entry.first + BlockTtl
               /\ entry.failures + 1 + (n - 1) <= BlockFrom - 1 + Cardinality(Logins)
    BY <1>0, <2>1, <2>3, <2>4, <2>5, LoginsNumber, BlockFromType
  <2> QED  BY <2>2, <2>3, <2>4, <2>5 DEF EntrySound
<1> QED  BY <1>1, <1>2

\* A key whose cleaned entry does not block has not reached the limit.
LEMMA SoundUnblocked ==
    ASSUME NEW entry \in Entry \cup {NoEntry}, NEW t \in Nat, NEW n, NEW m,
           EntrySound(entry, t, n), ~Blocked(Cleaned(entry, t), t)
    PROVE  EntrySound(Cleaned(entry, t), t, m)
<1>1. CASE entry = NoEntry \/ Over(entry, t)
  BY <1>1 DEF Cleaned, EntrySound
<1>2. CASE entry # NoEntry /\ ~Over(entry, t)
  <2>1. Cleaned(entry, t) = entry /\ entry \in Entry
    BY <1>2 DEF Cleaned
  <2>2. entry.until = NoBlock
    <3>1. entry.until \in Nat \cup {NoBlock}
      BY <2>1 DEF Entry
    <3> QED  BY <1>2, <2>1, <3>1 DEF Blocked, Over
  <2> QED  BY <1>2, <2>1, <2>2 DEF EntrySound
<1> QED  BY <1>1, <1>2

\* One that has reached it blocks until its window is over.
LEMMA SoundBlocks ==
    ASSUME NEW entry \in Entry, NEW t \in Nat, NEW n, EntrySound(entry, t, n),
           entry.failures >= BlockFrom, t - entry.first < BlockTtl
    PROVE  Blocked(Cleaned(entry, t), t)
<1>1. /\ BlockTtl \in Nat /\ NoEntry \notin Entry
      /\ entry.first \in Nat /\ entry.until \in Nat \cup {NoBlock}
  BY AttemptsAssumption DEF Entry
<1>2. entry.until # NoBlock /\ entry.until >= entry.first + BlockTtl
  BY <1>1 DEF EntrySound
<1>3. entry.until > t /\ ~(t - entry.first > BlockTtl)
  BY <1>1, <1>2
<1> QED  BY <1>1, <1>2, <1>3 DEF Blocked, Cleaned, Over

\* A login that ends compares no longer; the others do as before.
LEMMA ComparingEnds ==
    ASSUME TypeOK, NEW l \in Logins, LoginEnds(l), login[l].pc = "compare",
           NEW key \in Names, login[l].key = key
    PROVE  /\ \A k \in Names \ {key} : Comparing(k)' = Comparing(k)
           /\ Cardinality(Comparing(key)) \in 1..Cardinality(Logins)
           /\ Cardinality(Comparing(key)') = Cardinality(Comparing(key)) - 1
<1>1. /\ login' = [login EXCEPT ![l] = IdleLogin] /\ IdleLogin.pc = "idle"
      /\ login \in [Logins -> Login]
  BY DEF LoginEnds, IdleLogin, TypeOK
<1>2. l \in Comparing(key)
  BY DEF Comparing
<1>3. \A k \in Names \ {key} : Comparing(k)' = Comparing(k)
  BY <1>1 DEF Comparing
<1>4. \A i \in Logins : login'[i].pc = "compare" => i # l /\ login'[i] = login[i]
  BY <1>1
<1>5. \A i \in Logins \ {l} : login'[i] = login[i]
  BY <1>1
<1>6. Comparing(key)' = Comparing(key) \ {l}
  BY <1>4, <1>5 DEF Comparing
<1>7. Cardinality(Comparing(key) \ {l}) = Cardinality(Comparing(key)) - 1
  BY <1>2, ComparingNumber, FS_RemoveElement
<1>8. Cardinality(Comparing(key)) # 0
  BY <1>2, ComparingNumber, FS_EmptySet
<1> QED  BY <1>3, <1>6, <1>7, <1>8, ComparingNumber, LoginsNumber

\* A login that ends, with or without a failure.
LEMMA EndsSound ==
    ASSUME TypeOK, AttemptsSound, NEW l \in Logins, login[l].pc = "compare", LoginEnds(l),
           Fails(l) \/ Clears(l) \/ UNCHANGED attempts
    PROVE  AttemptsSound'
<1> SUFFICES ASSUME NEW k \in Names
             PROVE  EntrySound(attempts'[k], now', Cardinality(Comparing(k)'))
  BY DEF AttemptsSound
<1>0. /\ now' = now /\ now \in Nat /\ login[l].key \in Names
      /\ attempts \in [Names -> Entry \cup {NoEntry}]
      /\ CleanedAll[k] = Cleaned(attempts[k], now)
      /\ EntrySound(attempts[k], now, Cardinality(Comparing(k)))
  BY NowType DEF LoginEnds, TypeOK, Login, CleanedAll, AttemptsSound
<1>1. /\ Cardinality(Comparing(k)) \in Nat
      /\ Cardinality(Comparing(k)') \in Nat
      /\ Cardinality(Comparing(k)') <= Cardinality(Comparing(k))
  <2>1. CASE k = login[l].key
    BY <1>0, <2>1, ComparingEnds, ComparingNumber, LoginsNumber
  <2>2. CASE k # login[l].key
    BY <1>0, <2>2, ComparingEnds, ComparingNumber, LoginsNumber
  <2> QED  BY <2>1, <2>2
<1>2. CASE Fails(l)
  <2>1. /\ CleanedAll \in [Names -> Entry \cup {NoEntry}]
        /\ EntrySound(CleanedAll[k], now, Cardinality(Comparing(k)))
    BY <1>0, CleanedAllType, SoundCleaned
  <2>2. CASE k = login[l].key
    <3>1. attempts'[k] = Failed(CleanedAll[k], now)
      BY <1>0, <1>2, <2>1, <2>2 DEF Fails
    <3>2. /\ Cardinality(Comparing(k)) \in 1..Cardinality(Logins)
          /\ Cardinality(Comparing(k)') = Cardinality(Comparing(k)) - 1
      BY <2>2, ComparingEnds
    <3> QED  BY <1>0, <2>1, <3>1, <3>2, SoundFailed
  <2>3. CASE k # login[l].key
    <3>1. attempts'[k] = CleanedAll[k]
      BY <1>0, <1>2, <2>1, <2>3 DEF Fails
    <3> QED  BY <1>0, <1>1, <2>1, <3>1, SoundLater
  <2> QED  BY <2>2, <2>3
<1>3. CASE Clears(l) \/ UNCHANGED attempts
  <2>1. attempts'[k] \in {NoEntry, attempts[k]}
    BY <1>0, <1>3 DEF Clears
  <2>2. CASE attempts'[k] = NoEntry
    BY <2>2 DEF EntrySound
  <2>3. CASE attempts'[k] = attempts[k]
    BY <1>0, <1>1, <2>3, SoundLater
  <2> QED  BY <2>1, <2>2, <2>3
<1> QED  BY <1>2, <1>3

LEMMA StartSound ==
    ASSUME TypeOK, AttemptsSound, NEW l \in Logins, NEW id \in Ids, NEW key \in Names,
           LoginStart(l, id, key)
    PROVE  AttemptsSound'
<1> SUFFICES ASSUME NEW k \in Names
             PROVE  EntrySound(attempts'[k], now', Cardinality(Comparing(k)'))
  BY DEF AttemptsSound
<1>0. /\ now' = now /\ now \in Nat
      /\ attempts[k] \in Entry \cup {NoEntry}
      /\ attempts'[k] = Cleaned(attempts[k], now)
      /\ EntrySound(attempts[k], now, Cardinality(Comparing(k)))
  BY NowType DEF LoginStart, TypeOK, CleanedAll, AttemptsSound
<1>1. CASE k = key /\ ~Blocked(CleanedAll[key], now)
  BY <1>0, <1>1, SoundUnblocked DEF CleanedAll
<1>2. CASE k # key \/ Blocked(CleanedAll[key], now)
  <2>1. \A i \in Logins : /\ login'[i].pc = "compare" /\ login'[i].key = k
                          => login[i].pc = "compare" /\ login[i].key = k
    BY <1>2 DEF LoginStart, TypeOK
  <2>2. \A i \in Logins : /\ login[i].pc = "compare" /\ login[i].key = k
                          => login'[i].pc = "compare" /\ login'[i].key = k
    BY <1>2 DEF LoginStart, TypeOK
  <2>3. Comparing(k)' = Comparing(k)
    BY <2>1, <2>2 DEF Comparing
  <2> QED  BY <1>0, <2>3, SoundCleaned
<1> QED  BY <1>1, <1>2

LEMMA AttemptsInit == Init => AttemptsSound
  BY DEF Init, AttemptsSound, EntrySound

LEMMA AttemptsStep == TypeOK /\ AttemptsSound /\ [Next]_vars => AttemptsSound'
<1> SUFFICES ASSUME TypeOK, AttemptsSound, [Next]_vars PROVE AttemptsSound'
  OBVIOUS
<1>1. CASE ApiRestart
  BY <1>1 DEF ApiRestart, AttemptsSound, EntrySound
<1>2. ASSUME UNCHANGED <<attempts, login>>, now' \in {now, now + 1}
      PROVE  AttemptsSound'
  <2>1. ASSUME NEW k \in Names
        PROVE  EntrySound(attempts'[k], now', Cardinality(Comparing(k)'))
    <3>1. /\ Comparing(k)' = Comparing(k) /\ attempts'[k] = attempts[k]
          /\ attempts[k] \in Entry \cup {NoEntry}
          /\ EntrySound(attempts[k], now, Cardinality(Comparing(k)))
      BY <1>2 DEF Comparing, AttemptsSound, TypeOK
    <3>2. now \in Nat /\ now' \in Nat /\ now <= now'
      BY <1>2, NowType
    <3>3. Cardinality(Comparing(k)) \in Nat
      BY ComparingNumber, LoginsNumber
    <3> QED  BY <3>1, <3>2, <3>3, SoundLater
  <2> QED  BY <2>1 DEF AttemptsSound
<1>3. CASE Tick \/ UNCHANGED vars
  BY <1>2, <1>3 DEF Tick, vars
<1>4. CASE \E p \in Pages : PageStep(p)
  BY <1>2, <1>4 DEF PageStep, StartSetup, CancelSetup, EnableWrite, DisableWrite, CreateWrite,
                    RemoveWrite, Reload, SubmitCode, SubmitDisable, Visit, SubmitRemove,
                    SubmitCreate
<1>5. CASE \E l \in Logins : LoginStep(l)
  BY <1>5, StartSound, EndsSound
     DEF LoginStep, LoginRefused, LoginAccepted, LoginChallenged, LoginCode
<1> QED  BY <1>1, <1>3, <1>4, <1>5 DEF Next

\* However many logins run at once, an entry never counts more failures than
\* the limit allows and the logins that were past the check when it was reached.
THEOREM FailuresStayBounded == Spec => []FailuresBounded
<1>1. TypeOK /\ AttemptsSound => FailuresBounded
  <2> SUFFICES ASSUME TypeOK, AttemptsSound, NEW k \in Names, attempts[k] # NoEntry
               PROVE  attempts[k].failures <= BlockFrom - 1 + Cardinality(Logins)
    BY DEF FailuresBounded
  <2>1. /\ attempts[k].failures \in Nat
        /\ EntrySound(attempts[k], now, Cardinality(Comparing(k)))
    BY DEF TypeOK, AttemptsSound, Entry
  <2>2. Cardinality(Comparing(k)) \in Nat
    BY ComparingNumber, LoginsNumber
  <2>3. CASE attempts[k].failures < BlockFrom
    BY <2>1, <2>3, BlockFromType, LoginsNumber
  <2>4. CASE attempts[k].failures >= BlockFrom
    BY <2>1, <2>2, <2>4, BlockFromType, LoginsNumber DEF EntrySound
  <2> QED  BY <2>1, <2>3, <2>4, BlockFromType
<1> QED  BY <1>1, AttemptsInit, AttemptsStep, TypeCorrect, PTL DEF Spec

\* A login compares a password because it got past the check in this step.
LEMMA ComparesAfterCheck ==
    ASSUME TypeOK, Next, NEW l \in Logins, login[l].pc = "idle", login'[l].pc = "compare"
    PROVE  \E id \in Ids, key \in Names : LoginStart(l, id, key)
<1>1. login'[l] # login[l]
  OBVIOUS
<1>2. ~Tick
  BY <1>1 DEF Tick
<1>3. ~ApiRestart
  BY DEF ApiRestart, IdleLogin
<1>4. ~(\E p \in Pages : PageStep(p))
  BY <1>1 DEF PageStep, StartSetup, CancelSetup, EnableWrite, DisableWrite, CreateWrite,
              RemoveWrite, Reload, SubmitCode, SubmitDisable, Visit, SubmitRemove, SubmitCreate
<1>5. PICK m \in Logins : LoginStep(m)
  BY <1>2, <1>3, <1>4 DEF Next
<1>6. ASSUME m # l PROVE FALSE
  BY <1>1, <1>5, <1>6 DEF LoginStep, LoginStart, LoginRefused, LoginAccepted, LoginChallenged,
                          LoginCode, LoginEnds, TypeOK
<1>7. ASSUME login[l].pc = "compare" PROVE FALSE
  BY <1>7
<1> QED
  BY <1>5, <1>6, <1>7 DEF LoginStep, LoginRefused, LoginAccepted, LoginChallenged, LoginCode

\* From the failure that reaches the limit on, no login with the key gets to its
\* password comparison before the window of the first failure is over.
THEOREM BlocksHold == Spec => BlockHolds
<1>1. TypeOK /\ AttemptsSound /\ [Next]_vars =>
      [\A l \in Logins, k \in Names :
          /\ attempts[k] # NoEntry /\ attempts[k].failures >= BlockFrom
          /\ now - attempts[k].first < BlockTtl
          => ~(login[l].pc = "idle" /\ login'[l].pc = "compare" /\ login'[l].key = k)]_vars
  <2> SUFFICES ASSUME TypeOK, AttemptsSound, Next, NEW l \in Logins, NEW k \in Names,
                      attempts[k] # NoEntry, attempts[k].failures >= BlockFrom,
                      now - attempts[k].first < BlockTtl,
                      login[l].pc = "idle", login'[l].pc = "compare", login'[l].key = k
               PROVE  FALSE
    OBVIOUS
  <2>1. PICK id \in Ids, key \in Names : LoginStart(l, id, key)
    BY ComparesAfterCheck
  <2>2. Blocked(CleanedAll[k], now)
    BY NowType, SoundBlocks DEF AttemptsSound, CleanedAll, TypeOK
  <2>3. key = k /\ ~Blocked(CleanedAll[key], now)
    BY <2>1 DEF LoginStart, TypeOK
  <2> QED  BY <2>2, <2>3
<1> QED  BY <1>1, AttemptsInit, AttemptsStep, TypeCorrect, PTL DEF Spec, BlockHolds

\* A password typed with its own account's name or address is compared with its
\* own hash, unless another account has that name or address in its other field.
THEOREM OwnPasswordsWork == Spec => OwnPasswordWorks
<1>1. TypeOK /\ [Next]_vars =>
      [\A l \in Logins :
          /\ login[l].pc = "idle" /\ login'[l].pc = "compare"
          /\ Exists(login'[l].as) /\ login'[l].key \in OwnNames(login'[l].as)
          /\ \A id \in Ids \ {login'[l].as} : Exists(id) => login'[l].key \notin OwnNames(id)
          => login'[l].row.id = login'[l].as]_vars
  <2> SUFFICES ASSUME TypeOK, Next, NEW l \in Logins,
                      login[l].pc = "idle", login'[l].pc = "compare",
                      Exists(login'[l].as), login'[l].key \in OwnNames(login'[l].as),
                      \A id \in Ids \ {login'[l].as} :
                          Exists(id) => login'[l].key \notin OwnNames(id)
               PROVE  login'[l].row.id = login'[l].as
    OBVIOUS
  <2>1. PICK id \in Ids, key \in Names : LoginStart(l, id, key)
    BY ComparesAfterCheck
  <2>2. /\ login'[l].as = id /\ login'[l].key = key
        /\ login'[l].row \in IF Found(key) = {} THEN {[id |-> None, secret |-> None]}
                             ELSE {[id |-> i, secret |-> account[i].secret] : i \in Found(key)}
    BY <2>1 DEF LoginStart, TypeOK
  <2>3. Found(key) = {id}
    BY <2>2 DEF Found, OwnNames
  <2> QED  BY <2>2, <2>3
<1> QED  BY <1>1, TypeCorrect, PTL DEF Spec, OwnPasswordWorks

-------------------------------------------------------------------------------
(* The second factor.                                                      *)

\* What a step may do to the row of one account.
LEMMA AccountWrites ==
    ASSUME AccountsInv, Next, NEW id \in Ids
    PROVE  \/ account'[id] = account[id]
           \/ \E p \in Pages : /\ Enabling(p, id) /\ EnableWrite(p) /\ Exists(id)
                               /\ account'[id] = [account[id] EXCEPT !.secret = page[p].setup.secret]
           \/ \E p \in Pages : /\ Disabling(p, id) /\ DisableWrite(p) /\ Exists(id)
                               /\ account'[id] = [account[id] EXCEPT !.secret = None]
           \/ account[id] = NoAccount /\ account'[id] \in Row /\ account'[id].secret = None
           \/ Exists(id) /\ account'[id] = Removed
<1>0. account \in [Ids -> Row \cup {NoAccount, Removed}] /\ page \in [Pages -> Page]
  BY DEF AccountsInv, TypeOK
<1>1. CASE Tick
  BY <1>1 DEF Tick
<1>2. CASE ApiRestart
  <2>1. \E i \in Ids : account[i] # NoAccount
    BY DEF AccountsInv, AccountsSound, Exists
  <2> QED  BY <1>2, <2>1 DEF ApiRestart, Bootstrapped
<1>3. ASSUME NEW l \in Logins, LoginStep(l) PROVE UNCHANGED account
  BY <1>3 DEF LoginStep, LoginStart, LoginRefused, LoginAccepted, LoginChallenged, LoginCode,
              LoginEnds
<1>4. ASSUME NEW p \in Pages, EnableWrite(p), account'[id] # account[id]
      PROVE  /\ Enabling(p, id) /\ Exists(id)
             /\ account'[id] = [account[id] EXCEPT !.secret = page[p].setup.secret]
  BY <1>0, <1>4 DEF EnableWrite, Enabling, Page
<1>5. ASSUME NEW p \in Pages, DisableWrite(p), account'[id] # account[id]
      PROVE  /\ Disabling(p, id) /\ Exists(id)
             /\ account'[id] = [account[id] EXCEPT !.secret = None]
  BY <1>0, <1>5 DEF DisableWrite, Disabling, Page
<1>6. ASSUME NEW p \in Pages, CreateWrite(p), account'[id] # account[id]
      PROVE  account[id] = NoAccount /\ account'[id] \in Row /\ account'[id].secret = None
  <2> DEFINE row == [role |-> "OPERATOR", names |-> page[p].names, secret |-> None]
  <2>1. row \in Row /\ row.secret = None
    BY <1>0 DEF Row, Page
  <2>2. account' = [account EXCEPT ![page[p].target] = row] /\ page[p].pc = "create"
    BY <1>6 DEF CreateWrite
  <2> HIDE DEF row
  <2>3. id = page[p].target /\ account'[id] = row
    BY <1>0, <1>6, <2>2
  <2>4. account[page[p].target] = NoAccount
    BY <2>2 DEF AccountsInv, CreatesApart
  <2> QED  BY <2>1, <2>3, <2>4
<1>7. ASSUME NEW p \in Pages, RemoveWrite(p), account'[id] # account[id]
      PROVE  Exists(id) /\ account'[id] = Removed
  BY <1>0, <1>7 DEF RemoveWrite
<1>8. ASSUME NEW p \in Pages, PageStep(p)
      PROVE  \/ UNCHANGED account
             \/ EnableWrite(p) \/ DisableWrite(p) \/ CreateWrite(p) \/ RemoveWrite(p)
  BY <1>8 DEF PageStep, StartSetup, CancelSetup, Reload, SubmitCode, SubmitDisable, Visit,
              SubmitRemove, SubmitCreate
<1> QED  BY <1>1, <1>2, <1>3, <1>4, <1>5, <1>6, <1>7, <1>8 DEF Next

\* A page that enables the second factor after a step did so before it, and did
\* not write, or has just found that there is none.
LEMMA EnablingAfter ==
    ASSUME TypeOK, Next, NEW p \in Pages, NEW id \in Ids, Enabling(p, id)'
    PROVE  \/ Enabling(p, id) /\ ~EnableWrite(p)
           \/ UNCHANGED account /\ page[p].by = id /\ account[id].secret = None
<1>0. page \in [Pages -> Page]
  BY DEF TypeOK
<1>1. page'[p].pc = "enable" /\ page'[p].by = id
  BY DEF Enabling
<1>2. CASE page'[p] = page[p]
  <2>1. ASSUME EnableWrite(p) PROVE FALSE
    BY <1>0, <1>1, <1>2, <2>1 DEF EnableWrite, Page
  <2> QED  BY <1>1, <1>2, <2>1 DEF Enabling
<1>3. CASE page'[p] # page[p]
  <2>1. ~Tick
    BY <1>3 DEF Tick
  <2>2. ~ApiRestart
    BY <1>0, <1>1 DEF ApiRestart, Page
  <2>3. ~(\E l \in Logins : LoginStep(l))
    BY <1>3 DEF LoginStep, LoginStart, LoginRefused, LoginAccepted, LoginChallenged, LoginCode,
                LoginEnds
  <2>4. PICK q \in Pages : PageStep(q)
    BY <2>1, <2>2, <2>3 DEF Next
  <2>5. \A r \in Pages \ {q} : page'[r] = page[r]
    BY <1>0, <2>4 DEF PageStep, StartSetup, CancelSetup, EnableWrite, DisableWrite, CreateWrite,
                      RemoveWrite, Reload, SubmitCode, SubmitDisable, Visit, SubmitRemove,
                      SubmitCreate
  <2>6. PageStep(p)
    BY <1>3, <2>4, <2>5
  <2>7. ~(EnableWrite(p) \/ DisableWrite(p) \/ CreateWrite(p) \/ RemoveWrite(p) \/ Reload(p))
    BY <1>0, <1>1 DEF EnableWrite, DisableWrite, CreateWrite, RemoveWrite, Reload, Page
  <2>8. ~(StartSetup(p) \/ CancelSetup(p))
    BY <1>0, <1>1 DEF StartSetup, CancelSetup, Submits, Page
  <2>9. ~(\E i \in Ids : Visit(p, i) \/ SubmitRemove(p, i))
    <3>1. ASSUME NEW i \in Ids, Visit(p, i) PROVE page'[p].pc = "idle"
      BY <1>0, <3>1, IdleTypes DEF Visit, IdlePage
    <3>2. ASSUME NEW i \in Ids, SubmitRemove(p, i) PROVE page'[p].pc = "delete"
      BY <1>0, <3>2 DEF SubmitRemove, Page
    <3> QED  BY <1>1, <3>1, <3>2
  <2>10. ~(\E i \in Ids, names \in Newcomers : SubmitCreate(p, i, names))
    BY <1>0, <1>1 DEF SubmitCreate, Page
  <2>11. PICK code \in Codes : SubmitCode(p, code) \/ SubmitDisable(p, code)
    BY <2>6, <2>7, <2>8, <2>9, <2>10 DEF PageStep
  <2>12. SubmitCode(p, code)
    BY <1>0, <1>1, <2>11 DEF SubmitDisable, Page
  <2> QED  BY <1>0, <1>1, <2>12 DEF SubmitCode, Enables, Own, Page
<1> QED  BY <1>2, <1>3

\* The secret of a page that enables is a generated one.
LEMMA EnabledSecret ==
    ASSUME AccountsInv, NEW p \in Pages, page[p].pc = "enable"
    PROVE  page[p].setup.secret \in Secrets
  BY DEF AccountsInv, TypeOK, SetupHeld, Page, Setup

\* Accounts that no two pages have changed the second factor of at once: one
\* page at most changes it, and one that enables it found none stored.
OneChange ==
    \A id \in Ids \ crossed, p, q \in Pages : Changing(p, id) /\ Changing(q, id) => p = q
NothingStored ==
    \A id \in Ids \ crossed, p \in Pages :
        Enabling(p, id) /\ Exists(id) => account[id].secret = None

\* Pages belong to accounts, and only those are told anything.
PagesOfAccounts == \A p \in Pages : account[page[p].by] # NoAccount
ToldAccounts ==
    /\ told \in [Ids -> SUBSET Secrets]
    /\ \A id \in Ids : account[id] = NoAccount => told[id] = {}

SecondFactorInv ==
    AccountsInv /\ OneChange /\ NothingStored /\ PagesOfAccounts /\ ToldAccounts /\ EnabledAsTold

\* No row becomes free again.
LEMMA AccountsRemain ==
    ASSUME AccountsInv, Next, NEW id \in Ids, account'[id] = NoAccount
    PROVE  account[id] = NoAccount
<1>1. /\ NoAccount \notin Row /\ NoAccount # Removed
      /\ Exists(id) => account[id] \in Row
  BY AccountsAssumption DEF AccountsInv, TypeOK, Exists
<1>2. ASSUME Exists(id), NEW s \in Secrets \cup {None}
      PROVE  [account[id] EXCEPT !.secret = s] \in Row
  BY <1>1, <1>2 DEF Row
<1>3. \A p \in Pages : Enabling(p, id) => page[p].setup.secret \in Secrets \cup {None}
  BY EnabledSecret DEF Enabling
<1>4. None \in Secrets \cup {None}
  OBVIOUS
<1> QED  BY <1>1, <1>2, <1>3, <1>4, AccountWrites

LEMMA PagesOfAccountsStep ==
    ASSUME AccountsInv, PagesOfAccounts, Next
    PROVE  PagesOfAccounts'
<1> SUFFICES ASSUME NEW p \in Pages PROVE account'[page'[p].by] # NoAccount
  BY DEF PagesOfAccounts
<1>0. page \in [Pages -> Page] /\ page[p].by \in Ids
  BY DEF AccountsInv, TypeOK, Page
<1>1. page'[p].by = page[p].by \/ \E id \in Ids : page'[p].by = id /\ Exists(id)
  <2>1. CASE ApiRestart \/ Tick
    BY <1>0, <2>1 DEF ApiRestart, Tick, Page
  <2>2. CASE \E l \in Logins : LoginStep(l)
    BY <2>2 DEF LoginStep, LoginStart, LoginRefused, LoginAccepted, LoginChallenged, LoginCode,
                LoginEnds
  <2>3. ASSUME NEW q \in Pages, NEW id \in Ids, Visit(q, id)
        PROVE  page'[p].by = page[p].by \/ (page'[p].by = id /\ Exists(id))
    BY <1>0, <2>3, IdleTypes DEF Visit, IdlePage, Page
  <2>4. ASSUME NEW q \in Pages, PageStep(q), \A id \in Ids : ~Visit(q, id)
        PROVE  page'[p].by = page[p].by
    <3>1. CASE StartSetup(q) \/ CancelSetup(q) \/ Reload(q)
      BY <1>0, <3>1 DEF StartSetup, CancelSetup, Reload, Page
    <3>2. CASE EnableWrite(q) \/ DisableWrite(q)
      BY <1>0, <3>2 DEF EnableWrite, DisableWrite, Page
    <3>3. CASE CreateWrite(q) \/ RemoveWrite(q)
      BY <1>0, <3>3 DEF CreateWrite, RemoveWrite, Page
    <3>4. ASSUME NEW code \in Codes, SubmitCode(q, code) \/ SubmitDisable(q, code)
          PROVE  page'[p].by = page[p].by
      BY <1>0, <3>4 DEF SubmitCode, SubmitDisable, Page
    <3>5. ASSUME NEW id \in Ids, SubmitRemove(q, id) PROVE page'[p].by = page[p].by
      BY <1>0, <3>5 DEF SubmitRemove, Page
    <3>6. ASSUME NEW id \in Ids, NEW names \in Newcomers, SubmitCreate(q, id, names)
          PROVE  page'[p].by = page[p].by
      BY <1>0, <3>6 DEF SubmitCreate, Page
    <3> QED  BY <2>4, <3>1, <3>2, <3>3, <3>4, <3>5, <3>6 DEF PageStep
  <2> QED  BY <2>1, <2>2, <2>3, <2>4 DEF Next
<1> QED  BY <1>0, <1>1, AccountsRemain DEF PagesOfAccounts, Exists

LEMMA ToldAccountsStep ==
    ASSUME SecondFactorInv, Next, Track
    PROVE  ToldAccounts'
<1> SUFFICES ASSUME NEW id \in Ids
             PROVE  told'[id] \in SUBSET Secrets /\ (account'[id] = NoAccount => told'[id] = {})
  BY DEF ToldAccounts, Track
<1>1. told[id] \in SUBSET Secrets /\ (account'[id] = NoAccount => told[id] = {})
  BY AccountsRemain DEF SecondFactorInv, ToldAccounts
<1>2. {page[p].setup.secret : p \in {q \in Pages : Enabling(q, id) /\ EnableWrite(q)}} \subseteq Secrets
  BY EnabledSecret DEF SecondFactorInv, Enabling
<1>3. ASSUME account'[id] = NoAccount, NEW q \in Pages, Enabling(q, id) PROVE FALSE
  BY <1>3, AccountsRemain DEF SecondFactorInv, PagesOfAccounts, Enabling
<1> QED  BY <1>1, <1>2, <1>3 DEF Track

LEMMA NothingStoredStep ==
    ASSUME SecondFactorInv, Next, Track
    PROVE  NothingStored'
<1> SUFFICES ASSUME NEW id \in Ids, id \notin crossed', NEW p \in Pages,
                    Enabling(p, id)', Exists(id)'
             PROVE  account'[id].secret = None
  BY DEF NothingStored
<1>0. /\ AccountsInv /\ TypeOK /\ id \notin crossed
      /\ account'[id] \notin {NoAccount, Removed}
  BY DEF Track, SecondFactorInv, AccountsInv, Exists
<1>1. CASE Enabling(p, id) /\ ~EnableWrite(p)
  <2>1. ASSUME NEW q \in Pages, Changing(q, id) PROVE q = p
    BY <1>0, <1>1, <2>1 DEF SecondFactorInv, OneChange, Changing
  <2>2. CASE account'[id] = account[id]
    BY <1>0, <1>1, <2>2 DEF SecondFactorInv, NothingStored, Exists
  <2>3. ~ \E q \in Pages : Enabling(q, id) /\ EnableWrite(q)
    BY <1>1, <2>1 DEF Changing
  <2>4. ~ \E q \in Pages : Disabling(q, id)
    BY <1>1, <2>1 DEF Changing, Enabling, Disabling
  <2> QED  BY <1>0, <2>2, <2>3, <2>4, AccountWrites
<1>2. CASE UNCHANGED account /\ page[p].by = id /\ account[id].secret = None
  BY <1>2
<1> QED  BY <1>0, <1>1, <1>2, EnablingAfter

LEMMA EnabledAsToldStep ==
    ASSUME SecondFactorInv, Next, Track
    PROVE  EnabledAsTold'
<1> SUFFICES ASSUME NEW id \in Ids, id \notin crossed', Exists(id)',
                    ~ \E p \in Pages : Disabling(p, id) /\ DisableWrite(p)
             PROVE  told'[id] \subseteq {account'[id].secret}
  BY DEF EnabledAsTold, Track
<1> DEFINE writers == {q \in Pages : Enabling(q, id) /\ EnableWrite(q)}
<1>0. /\ AccountsInv /\ id \notin crossed /\ account'[id] \notin {NoAccount, Removed}
      /\ told'[id] = told[id] \cup {page[p].setup.secret : p \in writers}
      /\ told[id] \in SUBSET Secrets /\ None \notin Secrets
      /\ account[id] = NoAccount => told[id] = {}
      /\ Exists(id) => told[id] \subseteq {account[id].secret}
  BY AccountsAssumption DEF Track, SecondFactorInv, ToldAccounts, EnabledAsTold, Exists
<1>1. CASE writers = {}
  <2>1. told'[id] = told[id]
    BY <1>0, <1>1
  <2>2. CASE account'[id] = account[id]
    BY <1>0, <2>1, <2>2 DEF Exists
  <2>3. CASE account[id] = NoAccount
    BY <1>0, <2>1, <2>3
  <2> QED  BY <1>0, <1>1, <2>2, <2>3, AccountWrites
<1>2. ASSUME NEW p \in writers
      PROVE  told'[id] \subseteq {account'[id].secret}
  <2>1. /\ page[p].pc = "enable" /\ page[p].by = id /\ p \in Pages /\ EnableWrite(p)
        /\ account \in [Ids -> Row \cup {NoAccount, Removed}]
    BY <1>0 DEF Enabling, AccountsInv, TypeOK
  <2>2. \A q \in writers : q = p
    BY <1>0 DEF SecondFactorInv, OneChange, Changing
  <2>3. Exists(id)
    BY <1>0, <2>1 DEF EnableWrite, Exists
  <2>4. account[id].secret = None
    BY <1>0, <1>2, <2>3 DEF SecondFactorInv, NothingStored
  <2>5. told[id] = {}
    BY <1>0, <2>3, <2>4
  <2>6. told'[id] = {page[p].setup.secret}
    BY <1>0, <2>2, <2>5
  <2>7. account'[id].secret = page[p].setup.secret
    <3>1. account[id] \in Row
      BY <2>1, <2>3 DEF Exists
    <3>2. account'[id] = [account[id] EXCEPT !.secret = page[p].setup.secret]
      BY <2>1, <2>3 DEF EnableWrite
    <3> QED  BY <3>1, <3>2 DEF Row
  <2> QED  BY <2>6, <2>7
<1> QED  BY <1>1, <1>2

LEMMA SecondFactorInit == HistoryInit => SecondFactorInv
<1> SUFFICES ASSUME HistoryInit PROVE SecondFactorInv
  OBVIOUS
<1>1. AccountsInv
  BY AccountsInit DEF HistoryInit
<1>2. \A p \in Pages : page[p].pc = "idle" /\ page[p].by = Root
  BY DEF HistoryInit, Init, IdlePage
<1>3. OneChange /\ NothingStored
  BY <1>2 DEF OneChange, NothingStored, Changing, Enabling, Disabling
<1>4. account[Root] # NoAccount
  <2>1. account[Root] = [role |-> "SUPER_ADMIN", names |-> RootNames, secret |-> None]
    BY AccountsAssumption DEF HistoryInit, Init, Bootstrapped
  <2> QED  BY <2>1, AccountsAssumption DEF Row
<1>5. PagesOfAccounts
  BY <1>2, <1>4 DEF PagesOfAccounts
<1>6. ToldAccounts /\ EnabledAsTold
  BY DEF HistoryInit, ToldAccounts, EnabledAsTold
<1> QED  BY <1>1, <1>3, <1>5, <1>6 DEF SecondFactorInv

LEMMA SecondFactorStep == SecondFactorInv /\ [HistoryNext]_historyVars => SecondFactorInv'
<1> SUFFICES ASSUME SecondFactorInv, [HistoryNext]_historyVars PROVE SecondFactorInv'
  OBVIOUS
<1>1. CASE HistoryNext
  <2>1. AccountsInv'
    BY <1>1, AccountsStep DEF HistoryNext, SecondFactorInv
  <2>2. OneChange'
    BY <1>1 DEF HistoryNext, Track, OneChange
  <2> QED
    BY <1>1, <2>1, <2>2, NothingStoredStep, PagesOfAccountsStep, ToldAccountsStep,
       EnabledAsToldStep DEF HistoryNext, SecondFactorInv
<1>2. CASE UNCHANGED historyVars
  <2>1. AccountsInv'
    BY <1>2, AccountsStep DEF historyVars, SecondFactorInv
  <2> QED
    BY <1>2, <2>1 DEF historyVars, vars, SecondFactorInv, OneChange, NothingStored,
       PagesOfAccounts, ToldAccounts, EnabledAsTold, Changing, Enabling, Disabling, Exists
<1> QED  BY <1>1, <1>2

\* The authenticator a page was last told is enabled is the one the logins of
\* its account ask for, unless two pages changed it at the same time.
THEOREM SecondFactorAsTold == HistorySpec => []EnabledAsTold
<1>1. SecondFactorInv => EnabledAsTold
  BY DEF SecondFactorInv
<1> QED  BY <1>1, SecondFactorInit, SecondFactorStep, PTL DEF HistorySpec
=================================================================================
