----------------------------- MODULE SessionsProofs -----------------------------
(***************************************************************************)
(* Theorems about Sessions for any tabs, calls in progress, lifetimes and  *)
(* bounds.                                                                 *)
(***************************************************************************)
EXTENDS SessionsHistory, FiniteSetTheorems, TLAPS

-------------------------------------------------------------------------------
(* Calls.                                                                  *)

\* What the parts of a call have to do with one another, n logins having begun.
Form(c, n) ==
    /\ c.pc \in {"rotate", "revoke"} => c.at = "refresh" /\ c.token # NoToken
    /\ c.pc = "open" => c.at = "login"
    /\ c.pc \in {"sent", "open"} /\ c.at = "login" => c.sid \in 1 .. n
    /\ c.pc = "sent" => c.reply = NoReply
    /\ c.pc = "answered" => c.reply # NoReply
    /\ c.pc = "answered" /\ c.at \in {"me", "api", "retry"} => c.reply.cookie = Keep
    /\ c.pc = "answered" /\ c.at \in {"refresh", "login"} /\ c.reply.status = 200
          => c.reply.access # NoToken
    /\ c.pc = "sent" /\ c.at = "retry" => c.access # NoToken
    /\ c.at = "me" => c.op = "boot"
    /\ c.op = "boot" => c.at \in {"me", "refresh"}

CallForm == \A i \in Calls : Form(call[i], logins)

LEMMA Distinct ==
    /\ NoToken \notin Nat /\ NoToken \notin Refresh
    /\ Keep \notin Refresh /\ Keep # NoToken
    /\ NoReply \notin Reply
  BY SessionsAssumption DEF Access, Reply

LEMMA NowType == TypeOK => now \in Nat
  BY SessionsAssumption DEF TypeOK

LEMMA IdleForm ==
    /\ IdleCall \in Call
    /\ \A n : Form(IdleCall, n)
<1>1. (CHOOSE t \in Tabs : TRUE) \in Tabs
  BY SessionsAssumption
<1>2. IdleCall \in Call
  BY <1>1, SessionsAssumption DEF IdleCall, Call, Steps, Ops, Stages
<1>3. \A n : Form(IdleCall, n)
  BY DEF IdleCall, Form
<1> QED  BY <1>2, <1>3

LEMMA ReplyTypes ==
    /\ \A status \in {0, 200, 401, 500} : Plain(status) \in Reply
    /\ Refused \in Reply
    /\ [Refused EXCEPT !.status = 200] \in Reply
    /\ TypeOK => \A token \in Refresh : Granted(token) \in Reply
  BY NowType DEF Plain, Refused, Granted, Reply, Access

\* A call that is answered.
LEMMA AnsweredForm ==
    ASSUME NEW c \in Call, NEW n, Form(c, n), NEW reply \in Reply,
           c.at \in {"me", "api", "retry"} => reply.cookie = Keep,
           c.at \in {"refresh", "login"} /\ reply.status = 200 => reply.access # NoToken
    PROVE  Answered(c, reply) \in Call /\ Form(Answered(c, reply), n)
<1>1. /\ Answered(c, reply).pc = "answered" /\ Answered(c, reply).op = c.op
      /\ Answered(c, reply).at = c.at /\ Answered(c, reply).reply = reply
  BY DEF Answered, Call
<1>2. Answered(c, reply) \in Call
  BY SessionsAssumption DEF Answered, Call, Steps
<1>3. reply # NoReply
  BY Distinct
<1> QED  BY <1>1, <1>2, <1>3 DEF Form

\* A call whose handler goes on to another step.
LEMMA ProceedForm ==
    ASSUME NEW c \in Call, NEW n, Form(c, n), NEW pc \in {"rotate", "revoke", "open"},
           c.pc = "sent",
           pc = "open" => c.at = "login",
           pc # "open" => c.at = "refresh" /\ c.token # NoToken
    PROVE  [c EXCEPT !.pc = pc] \in Call /\ Form([c EXCEPT !.pc = pc], n)
<1> DEFINE d == [c EXCEPT !.pc = pc]
<1>1. d.pc = pc /\ d.op = c.op /\ d.at = c.at /\ d.token = c.token /\ d.sid = c.sid
  BY DEF Call
<1>2. d \in Call
  BY DEF Call, Steps
<1> HIDE DEF d
<1>3. Form(d, n)
  BY <1>1, <1>2 DEF Form
<1> QED  BY <1>2, <1>3 DEF d

\* A call that goes on with a request.
LEMMA SentForm ==
    ASSUME NEW c \in Call, NEW n, NEW at \in Stages,
           tab' \in [Tabs -> [status : Status, ref : Access \cup {NoToken}]],
           cookie' \in Refresh \cup {NoToken},
           at = "me" => c.op = "boot",
           c.op = "boot" => at \in {"me", "refresh"},
           at = "login" => c.sid \in 1 .. n,
           at = "retry" => tab'[c.tab].ref # NoToken
    PROVE  Sent(c, at) \in Call /\ Form(Sent(c, at), n)
<1> DEFINE access == IF at \in {"me", "api", "retry"} THEN tab'[c.tab].ref ELSE NoToken
           token  == IF at \in {"refresh", "logout"} THEN SentCookie ELSE NoToken
<1>1. /\ Sent(c, at).pc = "sent" /\ Sent(c, at).op = c.op /\ Sent(c, at).at = at
      /\ Sent(c, at).access = access /\ Sent(c, at).token = token
      /\ Sent(c, at).sid = c.sid /\ Sent(c, at).tab = c.tab /\ Sent(c, at).reply = NoReply
  BY DEF Sent, Call
<1>2. access \in Access \cup {NoToken}
  BY DEF Call
<1>3. token \in Refresh \cup {NoToken}
  BY DEF SentCookie
<1>4. at = "retry" => access # NoToken
  OBVIOUS
<1>5. Sent(c, at) \in Call
  <2> HIDE DEF access, token
  <2>1. Sent(c, at) = [c EXCEPT !.pc = "sent", !.at = at, !.reply = NoReply,
                               !.access = access, !.token = token]
    BY DEF Sent, access, token
  <2> QED  BY <1>2, <1>3, <2>1 DEF Call, Steps
<1> HIDE DEF access, token
<1> QED  BY <1>1, <1>4, <1>5 DEF Form

\* One call changes.
LEMMA OneCall ==
    ASSUME TypeOK, CallForm, NEW i \in Calls, NEW rec \in Call, Form(rec, logins'),
           logins' \in {logins, logins + 1},
           call' = [call EXCEPT ![i] = rec]
    PROVE  call' \in [Calls -> Call] /\ CallForm'
<1>1. call' \in [Calls -> Call]
  BY DEF TypeOK
<1>2. \A j \in Calls : call'[j] = IF j = i THEN rec ELSE call[j]
  BY DEF TypeOK
<1>3. ASSUME NEW j \in Calls, Form(call[j], logins) PROVE Form(call[j], logins')
  <2>1. \A s : s \in 1 .. logins => s \in 1 .. logins'
    BY SessionsAssumption DEF TypeOK
  <2> QED  BY <1>3, <2>1 DEF Form
<1> QED  BY <1>1, <1>2, <1>3 DEF CallForm

\* The calls after a step that answers one, or moves its handler on.
LEMMA AnswerStep ==
    ASSUME TypeOK, CallForm, NEW i \in Calls, NEW reply \in Reply, Answer(i, reply),
           call[i].at \in {"me", "api", "retry"} => reply.cookie = Keep,
           call[i].at \in {"refresh", "login"} /\ reply.status = 200 => reply.access # NoToken,
           UNCHANGED logins
    PROVE  call' \in [Calls -> Call] /\ CallForm'
<1>1. call[i] \in Call /\ Form(call[i], logins)
  BY DEF TypeOK, CallForm
<1>2. /\ Answered(call[i], reply) \in Call
      /\ Form(Answered(call[i], reply), logins)
  BY <1>1, AnsweredForm
<1>3. call' = [call EXCEPT ![i] = Answered(call[i], reply)]
  BY DEF Answer, TypeOK
<1> QED  BY <1>2, <1>3, OneCall

LEMMA ProceedStep ==
    ASSUME TypeOK, CallForm, NEW i \in Calls, NEW pc \in {"rotate", "revoke", "open"},
           Proceed(i, pc), call[i].pc = "sent",
           pc = "open" => call[i].at = "login",
           pc # "open" => call[i].at = "refresh" /\ call[i].token # NoToken,
           UNCHANGED logins
    PROVE  call' \in [Calls -> Call] /\ CallForm'
<1>1. call[i] \in Call /\ Form(call[i], logins)
  BY DEF TypeOK, CallForm
<1>2. /\ [call[i] EXCEPT !.pc = pc] \in Call
      /\ Form([call[i] EXCEPT !.pc = pc], logins)
  BY <1>1, ProceedForm
<1>3. call' = [call EXCEPT ![i] = [call[i] EXCEPT !.pc = pc]]
  BY DEF Proceed, TypeOK
<1> QED  BY <1>2, <1>3, OneCall

Row == [token : Refresh, revoked : BOOLEAN]

LEMMA UpsertedType ==
    ASSUME TypeOK, NEW s \in Sids, NEW token \in Refresh
    PROVE  Upserted(s, token) \in [Sids -> Row \cup {NoSession}]
  BY DEF Upserted, TypeOK, Row

\* The types after a step that changes the calls, the sessions and nothing else.
LEMMA ServerType ==
    ASSUME TypeOK, call' \in [Calls -> Call], session' \in [Sids -> Row \cup {NoSession}],
           UNCHANGED <<now, account, browserVars, boundVars>>
    PROVE  TypeOK'
  BY DEF TypeOK, Row, browserVars, boundVars

LEMMA ServerStepType ==
    ASSUME TypeOK, CallForm, NEW i \in Calls, ServerStep(i)
    PROVE  TypeOK' /\ CallForm'
<1>0. /\ call[i] \in Call /\ Form(call[i], logins)
      /\ session \in [Sids -> Row \cup {NoSession}] /\ now \in Nat
      /\ UNCHANGED session => session' \in [Sids -> Row \cup {NoSession}]
  BY NowType DEF TypeOK, CallForm, Row
<1>1. CASE Guarded(i)
  <2>1. \A status \in {200, 401} : Plain(status) \in Reply /\ Plain(status).cookie = Keep
    BY ReplyTypes DEF Plain
  <2>2. call' \in [Calls -> Call] /\ CallForm'
    BY <1>1, <2>1, AnswerStep DEF Guarded, GuardRefuses, Handled, Handles, boundVars
  <2> QED  BY <1>0, <1>1, <2>2, ServerType DEF Guarded, GuardRefuses, Handled, serverVars
<1>2. CASE RefreshMissing(i)
  <2>1. Plain(401) \in Reply /\ Plain(401).status # 200
    BY ReplyTypes DEF Plain
  <2>2. call' \in [Calls -> Call] /\ CallForm'
    BY <1>2, <2>1, AnswerStep DEF RefreshMissing, Handles, boundVars
  <2> QED  BY <1>0, <1>2, <2>2, ServerType DEF RefreshMissing, serverVars
<1>3. CASE RefreshLookup(i)
  <2>1. Refused \in Reply /\ Refused.status # 200
    BY ReplyTypes DEF Refused
  <2>2. CASE RefusedAtOnce(call[i].token)
    <3>1. call' \in [Calls -> Call] /\ CallForm'
      BY <1>3, <2>1, <2>2, AnswerStep DEF RefreshLookup, Handles, boundVars
    <3> QED  BY <1>0, <1>3, <3>1, ServerType DEF RefreshLookup, serverVars
  <2>3. CASE ~RefusedAtOnce(call[i].token)
    <3>1. \/ Proceed(i, "rotate")
          \/ Proceed(i, "revoke")
      BY <1>3, <2>3 DEF RefreshLookup
    <3>2. call' \in [Calls -> Call] /\ CallForm'
      BY <1>3, <3>1, ProceedStep DEF RefreshLookup, Handles, boundVars
    <3> QED  BY <1>0, <1>3, <3>2, ServerType DEF RefreshLookup, serverVars
  <2> QED  BY <2>2, <2>3
<1>4. CASE RefreshRevoke(i)
  <2>1. /\ Plain(500) \in Reply /\ Plain(500).status # 200
        /\ Refused \in Reply /\ Refused.status # 200
        /\ call[i].at = "refresh" /\ call[i].token \in Refresh
    BY <1>0, <1>4, ReplyTypes DEF Plain, Refused, Form, Call, RefreshRevoke
  <2>2. call' \in [Calls -> Call] /\ CallForm'
    BY <1>4, <2>1, AnswerStep DEF RefreshRevoke, boundVars
  <2>3. session' \in [Sids -> Row \cup {NoSession}]
    BY <1>0, <1>4 DEF RefreshRevoke, Row
  <2> QED  BY <1>4, <2>2, <2>3, ServerType DEF RefreshRevoke
<1>5. CASE RefreshRotate(i)
  <2> DEFINE token == [sid |-> call[i].token.sid, iat |-> now]
  <2>1. token \in Refresh /\ call[i].at = "refresh" /\ token.sid \in Sids
    BY <1>0, <1>5 DEF RefreshRotate, Form, Call, Refresh
  <2>2. /\ Plain(500) \in Reply /\ Plain(500).status # 200
        /\ Granted(token) \in Reply /\ Granted(token).access # NoToken
    BY <1>0, <2>1, ReplyTypes, Distinct DEF Plain, Granted
  <2>3. call' \in [Calls -> Call] /\ CallForm'
    BY <1>5, <2>1, <2>2, AnswerStep DEF RefreshRotate, boundVars
  <2>4. session' \in [Sids -> Row \cup {NoSession}]
    BY <1>0, <1>5, <2>1, UpsertedType DEF RefreshRotate
  <2> QED  BY <1>5, <2>3, <2>4, ServerType DEF RefreshRotate
<1>6. CASE LoginVerify(i)
  <2>1. Plain(401) \in Reply /\ Plain(401).status # 200
    BY ReplyTypes DEF Plain
  <2>2. call' \in [Calls -> Call] /\ CallForm'
    BY <1>6, <2>1, AnswerStep, ProceedStep DEF LoginVerify, Handles, boundVars
  <2>3. session' \in [Sids -> Row \cup {NoSession}]
    BY <1>0, <1>6 DEF LoginVerify
  <2> QED  BY <1>6, <2>2, <2>3, ServerType DEF LoginVerify
<1>7. CASE LoginOpen(i)
  <2> DEFINE token == [sid |-> call[i].sid, iat |-> now]
  <2>1. token \in Refresh /\ call[i].at = "login" /\ token.sid \in Sids
    BY <1>0, <1>7, SessionsAssumption DEF LoginOpen, Form, Refresh, Sids, TypeOK
  <2>2. /\ Plain(500) \in Reply /\ Plain(500).status # 200
        /\ Granted(token) \in Reply /\ Granted(token).access # NoToken
    BY <1>0, <2>1, ReplyTypes, Distinct DEF Plain, Granted
  <2>3. call' \in [Calls -> Call] /\ CallForm'
    BY <1>7, <2>1, <2>2, AnswerStep DEF LoginOpen, boundVars
  <2>4. session' \in [Sids -> Row \cup {NoSession}]
    BY <1>0, <1>7, <2>1, UpsertedType DEF LoginOpen
  <2> QED  BY <1>7, <2>3, <2>4, ServerType DEF LoginOpen
<1>8. CASE Logout(i)
  <2>1. call' \in [Calls -> Call] /\ CallForm'
    BY <1>8, ReplyTypes, AnswerStep DEF Logout, Handles, boundVars
  <2>2. session' \in [Sids -> Row \cup {NoSession}]
    BY <1>0, <1>8 DEF Logout, Row
  <2> QED  BY <1>8, <2>1, <2>2, ServerType DEF Logout
<1> QED  BY <1>1, <1>2, <1>3, <1>4, <1>5, <1>6, <1>7, <1>8 DEF ServerStep

TabType == [status : Status, ref : Access \cup {NoToken}]

\* A call that goes on with a request, one that is over.
LEMMA SendStep ==
    ASSUME TypeOK, CallForm, NEW i \in Calls, NEW at \in Stages \ {"login"}, Send(i, at),
           tab' \in [Tabs -> TabType], cookie' \in Refresh \cup {NoToken},
           at = "me" => call[i].op = "boot",
           call[i].op = "boot" => at \in {"me", "refresh"},
           at = "retry" => tab'[call[i].tab].ref # NoToken,
           UNCHANGED logins
    PROVE  call' \in [Calls -> Call] /\ CallForm'
<1>1. call[i] \in Call
  BY DEF TypeOK
<1>2. /\ Sent(call[i], at) \in Call
      /\ Form(Sent(call[i], at), logins)
  BY <1>1, SentForm DEF TabType
<1>3. call' = [call EXCEPT ![i] = Sent(call[i], at)]
  BY DEF Send, TypeOK
<1> QED  BY <1>2, <1>3, OneCall

LEMMA DoneStep ==
    ASSUME TypeOK, CallForm, NEW i \in Calls, Done(i), UNCHANGED logins
    PROVE  call' \in [Calls -> Call] /\ CallForm'
  BY IdleForm, OneCall DEF Done

LEMMA PersistType ==
    ASSUME TypeOK, NEW t \in Tabs, NEW access \in Access \cup {NoToken}, NEW status \in Status,
           Persist(t, access, status)
    PROVE  /\ stored' \in Access \cup {NoToken}
           /\ tab' \in [Tabs -> TabType]
           /\ tab'[t] = [status |-> status, ref |-> access]
  BY DEF Persist, TypeOK, TabType

\* A tab begins a call.
LEMMA BeginStep ==
    ASSUME TypeOK, CallForm, NEW i \in Calls, NEW t \in Tabs, NEW op \in Ops,
           NEW at \in Stages \ {"retry"}, NEW sid \in 0 .. MaxLogins, Begin(i, t, op, at, sid),
           tab' \in [Tabs -> TabType],
           at = "me" => op = "boot",
           op = "boot" => at \in {"me", "refresh"},
           at = "login" => sid \in 1 .. logins',
           logins' \in {logins, logins + 1}
    PROVE  call' \in [Calls -> Call] /\ CallForm' /\ begun' \in 0 .. MaxCalls
<1> DEFINE c == [IdleCall EXCEPT !.op = op, !.tab = t, !.sid = sid]
<1>1. c \in Call /\ c.op = op /\ c.tab = t /\ c.sid = sid
  BY IdleForm DEF Call
<1> HIDE DEF c
<1>2. cookie' \in Refresh \cup {NoToken}
  BY DEF Begin, TypeOK
<1>3. /\ Sent(c, at) \in Call
      /\ Form(Sent(c, at), logins')
  BY <1>1, <1>2, SentForm DEF TabType
<1>4. call' = [call EXCEPT ![i] = Sent(c, at)]
  BY DEF Begin, c
<1>5. begun' \in 0 .. MaxCalls
  BY SessionsAssumption DEF Begin, TypeOK
<1> QED  BY <1>3, <1>4, <1>5, OneCall

LEMMA BrowserType ==
    ASSUME TypeOK, call' \in [Calls -> Call], tab' \in [Tabs -> TabType],
           cookie' \in Refresh \cup {NoToken}, stored' \in Access \cup {NoToken},
           logins' \in 0 .. MaxLogins, begun' \in 0 .. MaxCalls, lost' \in 0 .. MaxLost,
           UNCHANGED <<now, serverVars>>
    PROVE  TypeOK'
  BY DEF TypeOK, TabType, serverVars

LEMMA StartType ==
    ASSUME TypeOK, CallForm, NEW i \in Calls, NEW t \in Tabs, Start(i, t)
    PROVE  TypeOK' /\ CallForm'
<1>0. /\ tab \in [Tabs -> TabType] /\ stored \in Access \cup {NoToken}
      /\ UNCHANGED tab => tab' \in [Tabs -> TabType]
      /\ logins \in 0 .. MaxLogins /\ MaxLogins \in Nat /\ 0 \in 0 .. MaxLogins
  BY SessionsAssumption DEF TypeOK, TabType
<1>1. CASE Open(i, t)
  <2> DEFINE at == IF stored # NoToken THEN "me" ELSE "refresh"
  <2>1. tab' \in [Tabs -> TabType]
    BY <1>0, <1>1 DEF Open, TabType, Status
  <2>2. at \in {"me", "refresh"} /\ Begin(i, t, "boot", at, 0)
    BY <1>1 DEF Open
  <2>3. at \in Stages \ {"retry"} /\ at # "login" /\ "boot" \in Ops
    BY <2>2 DEF Stages, Ops
  <2> HIDE DEF at
  <2>4. call' \in [Calls -> Call] /\ CallForm' /\ begun' \in 0 .. MaxCalls
    BY <1>0, <1>1, <2>1, <2>2, <2>3, BeginStep DEF Open
  <2> QED  BY <1>1, <2>1, <2>4, BrowserType DEF Open, Begin, TypeOK, serverVars
<1>2. ASSUME NEW op \in {"api", "renew", "logout"}, NEW at \in {"api", "refresh", "logout"},
             Use(i, t, op, at)
      PROVE  TypeOK' /\ CallForm'
  <2>1. call' \in [Calls -> Call] /\ CallForm' /\ begun' \in 0 .. MaxCalls
    BY <1>0, <1>2, BeginStep DEF Use, Ops, Stages
  <2> QED  BY <1>0, <1>2, <2>1, BrowserType DEF Use, Begin, TypeOK, serverVars
<1>3. CASE Fetch(i, t) \/ Renew(i, t) \/ SignOut(i, t)
  BY <1>2, <1>3 DEF Fetch, Renew, SignOut
<1>4. CASE SignIn(i, t)
  <2>1. logins' = logins + 1 /\ logins' \in 1 .. MaxLogins /\ logins + 1 \in 0 .. MaxLogins
    BY <1>0, <1>4 DEF SignIn
  <2>2. tab' \in [Tabs -> TabType]
    BY <1>0, <1>4 DEF SignIn
  <2>3. "login" \in Ops /\ "login" \in Stages \ {"retry"} /\ logins + 1 \in 1 .. logins'
    BY <1>0, <2>1 DEF Ops, Stages
  <2>4. call' \in [Calls -> Call] /\ CallForm' /\ begun' \in 0 .. MaxCalls
    BY <1>4, <2>1, <2>2, <2>3, BeginStep DEF SignIn
  <2> QED  BY <1>4, <2>1, <2>2, <2>4, BrowserType DEF SignIn, Begin, TypeOK, serverVars
<1> QED  BY <1>1, <1>3, <1>4 DEF Start

\* The cookie and the tab after an answer has arrived.
LEMMA ArrivesType ==
    ASSUME TypeOK, CallForm, NEW i \in Calls, NEW at, Arrives(i, at)
    PROVE  /\ cookie' \in Refresh \cup {NoToken}
           /\ call[i] \in Call /\ Form(call[i], logins)
           /\ call[i].tab \in Tabs /\ call[i].reply \in Reply
           /\ call[i].reply.access \in Access \cup {NoToken}
<1>1. /\ call[i] \in Call /\ Form(call[i], logins)
      /\ call[i].pc = "answered" /\ cookie \in Refresh \cup {NoToken}
  BY DEF Arrives, TypeOK, CallForm
<1>2. call[i].tab \in Tabs /\ call[i].reply \in Reply
  BY <1>1 DEF Call, Form
<1> QED  BY <1>1, <1>2 DEF Arrives, Reply

LEMMA ReceiveType ==
    ASSUME TypeOK, CallForm, NEW i \in Calls, Receive(i)
    PROVE  TypeOK' /\ CallForm'
<1>0. /\ tab \in [Tabs -> TabType] /\ stored \in Access \cup {NoToken}
      /\ UNCHANGED <<stored, tab>> =>
            tab' \in [Tabs -> TabType] /\ stored' \in Access \cup {NoToken}
      /\ \A t \in Tabs : tab[t].status \in Status
      /\ NoToken \in Access \cup {NoToken}
  BY DEF TypeOK, TabType
<1>1. ASSUME NEW at, Arrives(i, at), call' \in [Calls -> Call], tab' \in [Tabs -> TabType],
             stored' \in Access \cup {NoToken}
      PROVE  TypeOK'
  BY <1>1, ArrivesType, BrowserType DEF Arrives, TypeOK, boundVars
<1>2. CASE ProfileLoaded(i)
  <2>1. call' \in [Calls -> Call] /\ CallForm'
    BY <1>2, DoneStep DEF ProfileLoaded, Arrived, Arrives, boundVars
  <2>2. tab' \in [Tabs -> TabType]
    BY <1>0, <1>2 DEF ProfileLoaded, TabType, Status
  <2>3. Arrives(i, "me") /\ stored' \in Access \cup {NoToken}
    BY <1>0, <1>2 DEF ProfileLoaded, Arrived
  <2> QED  BY <1>1, <2>1, <2>2, <2>3
<1>3. CASE ProfileFailed(i)
  <2>1. Arrives(i, "me") /\ call[i].at = "me" /\ call[i].op = "boot"
    BY <1>3, ArrivesType DEF ProfileFailed, Arrived, Arrives, Form
  <2>2. tab' \in [Tabs -> TabType] /\ stored' \in Access \cup {NoToken}
    BY <1>0, <1>3, <2>1, ArrivesType, PersistType DEF ProfileFailed
  <2>3. call' \in [Calls -> Call] /\ CallForm'
    BY <1>3, <2>1, <2>2, ArrivesType, SendStep DEF ProfileFailed, Arrives, boundVars, Stages
  <2> QED  BY <1>1, <2>1, <2>2, <2>3
<1>4. CASE Refreshed(i)
  <2>1. /\ Arrives(i, "refresh") /\ call[i].at = "refresh" /\ call[i].pc = "answered"
        /\ call[i].reply.status = 200 /\ UNCHANGED logins
    BY <1>4 DEF Refreshed, Arrived, Arrives, boundVars
  <2>2. call[i].reply.access # NoToken
    BY <2>1, ArrivesType DEF Form
  <2>3. /\ tab' \in [Tabs -> TabType] /\ stored' \in Access \cup {NoToken}
        /\ tab'[call[i].tab] = [status |-> "authenticated", ref |-> call[i].reply.access]
    <3>1. Persist(call[i].tab, call[i].reply.access, "authenticated") /\ "authenticated" \in Status
      BY <1>4 DEF Refreshed, Hydrate, Status
    <3>2. call[i].tab \in Tabs /\ call[i].reply.access \in Access \cup {NoToken}
      BY <2>1, ArrivesType
    <3> QED  BY <3>1, <3>2, PersistType
  <2>4. CASE call[i].op = "api"
    <3>1. Send(i, "retry") /\ "retry" \in Stages \ {"login"}
      BY <1>4, <2>4 DEF Refreshed, Retry, Stages
    <3>2. call' \in [Calls -> Call] /\ CallForm'
      BY <2>1, <2>2, <2>3, <2>4, <3>1, ArrivesType, SendStep
    <3> QED  BY <1>1, <2>1, <2>3, <3>2
  <2>5. CASE call[i].op # "api"
    <3>1. call' \in [Calls -> Call] /\ CallForm'
      BY <1>4, <2>1, <2>5, DoneStep DEF Refreshed
    <3> QED  BY <1>1, <2>1, <2>3, <3>1
  <2> QED  BY <2>4, <2>5
<1>5. CASE RefreshFailed(i)
  <2>1. Arrives(i, "refresh") /\ UNCHANGED logins
    BY <1>5 DEF RefreshFailed, Arrived, Arrives, boundVars
  <2>2. tab' \in [Tabs -> TabType] /\ stored' \in Access \cup {NoToken}
    BY <1>0, <1>5, <2>1, ArrivesType, PersistType DEF RefreshFailed, GiveUp, ClearSession, Status
  <2>3. call' \in [Calls -> Call] /\ CallForm'
    BY <1>5, <2>1, DoneStep DEF RefreshFailed
  <2> QED  BY <1>1, <2>1, <2>2, <2>3
<1>6. CASE FetchRefused(i)
  <2>1. Arrives(i, "api") /\ UNCHANGED logins /\ call[i].at = "api"
    BY <1>6 DEF FetchRefused, Arrived, Arrives, boundVars
  <2>2. tab' \in [Tabs -> TabType] /\ stored' \in Access \cup {NoToken}
    BY <1>0, <1>6 DEF FetchRefused
  <2>3. call' \in [Calls -> Call] /\ CallForm'
    BY <1>6, <2>1, <2>2, ArrivesType, SendStep DEF FetchRefused, Stages
  <2> QED  BY <1>1, <2>1, <2>2, <2>3
<1>7. CASE FetchEnds(i) \/ SignInFailed(i)
  <2>1. PICK at : Arrives(i, at)
    BY <1>7 DEF FetchEnds, SignInFailed, Arrived
  <2>2. tab' \in [Tabs -> TabType] /\ stored' \in Access \cup {NoToken}
    BY <1>0, <1>7 DEF FetchEnds, SignInFailed
  <2>3. call' \in [Calls -> Call] /\ CallForm'
    BY <1>7, <2>1, DoneStep DEF FetchEnds, SignInFailed, Arrives, boundVars
  <2> QED  BY <1>1, <2>1, <2>2, <2>3
<1>8. CASE SignedIn(i) \/ SignedOut(i)
  <2>1. PICK at : Arrives(i, at)
    BY <1>8 DEF SignedIn, SignedOut, Arrived
  <2>2. tab' \in [Tabs -> TabType] /\ stored' \in Access \cup {NoToken}
    BY <1>0, <1>8, <2>1, ArrivesType, PersistType
       DEF SignedIn, SignedOut, Hydrate, ClearSession, Status
  <2>3. call' \in [Calls -> Call] /\ CallForm'
    BY <1>8, <2>1, DoneStep DEF SignedIn, SignedOut, Arrives, boundVars
  <2> QED  BY <1>1, <2>1, <2>2, <2>3
<1> QED  BY <1>2, <1>3, <1>4, <1>5, <1>6, <1>7, <1>8 DEF Receive

LEMMA SessionsInit == Init => TypeOK /\ CallForm
<1> SUFFICES ASSUME Init PROVE TypeOK /\ CallForm
  OBVIOUS
<1>1. logins \in 0 .. MaxLogins /\ MaxLogins \in Nat
  BY SessionsAssumption DEF Init
<1>2. \A n \in Sids : [token |-> [sid |-> n, iat |-> 0], revoked |-> FALSE] \in Row
  BY DEF Row, Refresh
<1>3. session \in [Sids -> Row \cup {NoSession}]
  BY <1>2 DEF Init
<1>4. logins = 1 => 1 \in Sids
  BY <1>1 DEF Sids
<1>5. cookie \in Refresh \cup {NoToken} /\ stored \in Access \cup {NoToken}
  BY <1>4 DEF Init, Refresh, Access
<1>6. tab \in [Tabs -> TabType]
  BY DEF Init, TabType, Status
<1>7. call \in [Calls -> Call] /\ CallForm
  BY IdleForm DEF Init, CallForm
<1>8. now \in 0 .. MaxTime /\ begun \in 0 .. MaxCalls /\ lost \in 0 .. MaxLost /\ account \in BOOLEAN
  BY SessionsAssumption DEF Init
<1> QED  BY <1>1, <1>3, <1>5, <1>6, <1>7, <1>8 DEF TypeOK, Row, TabType

LEMMA SessionsStep == TypeOK /\ CallForm /\ [Next]_vars => TypeOK' /\ CallForm'
<1> SUFFICES ASSUME TypeOK, CallForm, [Next]_vars PROVE TypeOK' /\ CallForm'
  OBVIOUS
<1>1. CASE Tick
  BY <1>1, SessionsAssumption
     DEF Tick, TypeOK, CallForm, serverVars, browserVars, boundVars
<1>2. CASE RemoveAccount
  BY <1>2 DEF RemoveAccount, TypeOK, CallForm, browserVars, boundVars
<1>3. ASSUME NEW i \in Calls, Lose(i) PROVE TypeOK' /\ CallForm'
  <2>1. Plain(0) \in Reply /\ Plain(0).status # 200 /\ Plain(0).cookie = Keep
    BY ReplyTypes DEF Plain
  <2>2. call' \in [Calls -> Call] /\ CallForm'
    BY <1>3, <2>1, AnswerStep DEF Lose
  <2>3. lost' \in 0 .. MaxLost
    BY <1>3, SessionsAssumption DEF Lose, TypeOK
  <2> QED  BY <1>3, <2>2, <2>3, BrowserType DEF Lose, browserVars, serverVars, TypeOK, TabType
<1>4. ASSUME NEW i \in Calls, ServerStep(i) \/ Receive(i) \/ \E t \in Tabs : Start(i, t)
      PROVE  TypeOK' /\ CallForm'
  BY <1>4, ServerStepType, ReceiveType, StartType
<1>5. CASE UNCHANGED vars
  BY <1>5 DEF vars, serverVars, browserVars, boundVars, TypeOK, CallForm
<1> QED  BY <1>1, <1>2, <1>3, <1>4, <1>5 DEF Next

\* Every variable keeps its type, and every counter its bound.
THEOREM TypeCorrect == Spec => []TypeOK
<1> QED  BY SessionsInit, SessionsStep, PTL DEF Spec

\* A step of one call leaves the others as they are.
LEMMA CallsApart ==
    ASSUME TypeOK, NEW j \in Calls, NEW i \in Calls \ {j},
           ServerStep(j) \/ Receive(j) \/ Lose(j) \/ \E t \in Tabs : Start(j, t)
    PROVE  call'[i] = call[i]
<1>0. call \in [Calls -> Call]
  BY DEF TypeOK
<1>1. \A rec : call' = [call EXCEPT ![j] = rec] => call'[i] = call[i]
  BY <1>0
<1>2. /\ \A reply : Answer(j, reply) => call'[i] = call[i]
      /\ \A pc : Proceed(j, pc) => call'[i] = call[i]
      /\ \A at : Send(j, at) => call'[i] = call[i]
      /\ Done(j) => call'[i] = call[i]
      /\ \A t, op, at, sid : Begin(j, t, op, at, sid) => call'[i] = call[i]
  BY <1>1 DEF Answer, Proceed, Send, Done, Begin
<1>3. CASE Guarded(j) \/ RefreshMissing(j) \/ RefreshLookup(j) \/ RefreshRevoke(j)
  BY <1>2, <1>3 DEF Guarded, GuardRefuses, Handled, RefreshMissing, RefreshLookup, RefreshRevoke
<1>4. CASE RefreshRotate(j) \/ LoginVerify(j) \/ LoginOpen(j) \/ Logout(j) \/ Lose(j)
  BY <1>2, <1>4 DEF RefreshRotate, LoginVerify, LoginOpen, Logout, Lose
<1>5. CASE Receive(j)
  BY <1>2, <1>5 DEF Receive, ProfileLoaded, ProfileFailed, Refreshed, RefreshFailed,
     FetchRefused, FetchEnds, SignedIn, SignInFailed, SignedOut, Retry
<1>6. ASSUME NEW t \in Tabs, Start(j, t) PROVE call'[i] = call[i]
  BY <1>2, <1>6 DEF Start, Open, Fetch, Renew, SignIn, SignOut, Use
<1> QED  BY <1>3, <1>4, <1>5, <1>6 DEF ServerStep

\* A fetch that has just been through a refresh is refused again only if the
\* account is gone or the new access token has expired on its way.
THEOREM RetriesAccepted == Spec => RetryAccepted
<1>1. TypeOK /\ CallForm =>
      \A i \in Calls :
          GuardRefuses(i) /\ call[i].at = "retry" =>
              \/ ~account
              \/ call[i].access # NoToken /\ call[i].access + AccessTtl <= now
  <2> SUFFICES ASSUME TypeOK, CallForm, NEW i \in Calls,
                      GuardRefuses(i), call[i].at = "retry", account
               PROVE  call[i].access # NoToken /\ call[i].access + AccessTtl <= now
    OBVIOUS
  <2>1. call[i].pc = "sent" /\ ~Accepts(call[i].access)
    BY DEF GuardRefuses, Handles
  <2>2. /\ call[i].access # NoToken /\ call[i].access \in Nat
        /\ AccessTtl \in Nat /\ now \in Nat
    BY <2>1, NowType, SessionsAssumption DEF TypeOK, CallForm, Form, Call, Access
  <2> QED  BY <2>1, <2>2 DEF Accepts
<1> QED  BY <1>1, SessionsInit, SessionsStep, PTL DEF Spec, RetryAccepted

-------------------------------------------------------------------------------
(* What a step does to the calls and to the sessions.                      *)

LEMMA AnsweredFields ==
    ASSUME NEW c \in Call, NEW reply
    PROVE  /\ Answered(c, reply).pc = "answered" /\ Answered(c, reply).reply = reply
           /\ Answered(c, reply).op = c.op /\ Answered(c, reply).at = c.at
           /\ Answered(c, reply).tab = c.tab /\ Answered(c, reply).sid = c.sid
  BY DEF Answered, Call

LEMMA SentFields ==
    ASSUME NEW c \in Call, NEW at
    PROVE  /\ Sent(c, at).pc = "sent" /\ Sent(c, at).at = at
           /\ Sent(c, at).op = c.op /\ Sent(c, at).tab = c.tab /\ Sent(c, at).sid = c.sid
           /\ Sent(c, at).token = IF at \in {"refresh", "logout"} THEN SentCookie ELSE NoToken
  BY DEF Sent, Call

LEMMA CallTyped == TypeOK => call \in [Calls -> Call] /\ \A i \in Calls : call[i] \in Call
  BY DEF TypeOK

\* The calls a step answers, moves on, sends or ends.
LEMMA AnswerAfter ==
    ASSUME TypeOK, NEW i \in Calls, NEW reply, Answer(i, reply)
    PROVE  /\ call'[i].pc = "answered" /\ call'[i].reply = reply
           /\ call'[i].op = call[i].op /\ call'[i].at = call[i].at
           /\ call'[i].tab = call[i].tab /\ call'[i].sid = call[i].sid
<1>1. call'[i] = Answered(call[i], reply)
  BY CallTyped DEF Answer
<1> QED  BY <1>1, CallTyped, AnsweredFields

LEMMA ProceedAfter ==
    ASSUME TypeOK, NEW i \in Calls, NEW pc, Proceed(i, pc)
    PROVE  /\ call'[i].pc = pc /\ call'[i].op = call[i].op /\ call'[i].at = call[i].at
           /\ call'[i].tab = call[i].tab /\ call'[i].sid = call[i].sid
           /\ call'[i].token = call[i].token
<1>1. call'[i] = [call[i] EXCEPT !.pc = pc] /\ call[i] \in Call
  BY CallTyped DEF Proceed
<1> QED  BY <1>1 DEF Call

LEMMA SendAfter ==
    ASSUME TypeOK, NEW i \in Calls, NEW at, Send(i, at)
    PROVE  /\ call'[i].pc = "sent" /\ call'[i].at = at
           /\ call'[i].op = call[i].op /\ call'[i].tab = call[i].tab
           /\ call'[i].token = IF at \in {"refresh", "logout"} THEN SentCookie ELSE NoToken
<1>1. call'[i] = Sent(call[i], at)
  BY CallTyped DEF Send
<1> QED  BY <1>1, CallTyped, SentFields

LEMMA DoneAfter ==
    ASSUME TypeOK, NEW i \in Calls, Done(i)
    PROVE  call'[i].pc = "idle"
  BY CallTyped DEF Done, IdleCall

LEMMA BeginAfter ==
    ASSUME TypeOK, NEW i \in Calls, NEW t \in Tabs, NEW op \in Ops, NEW at,
           NEW sid \in 0 .. MaxLogins, Begin(i, t, op, at, sid)
    PROVE  /\ call[i].pc = "idle"
           /\ call'[i].pc = "sent" /\ call'[i].at = at /\ call'[i].op = op
           /\ call'[i].tab = t /\ call'[i].sid = sid
           /\ call'[i].token = IF at \in {"refresh", "logout"} THEN SentCookie ELSE NoToken
<1> DEFINE c == [IdleCall EXCEPT !.op = op, !.tab = t, !.sid = sid]
<1>1. c \in Call /\ c.op = op /\ c.tab = t /\ c.sid = sid
  BY IdleForm DEF Call
<1> HIDE DEF c
<1>2. call'[i] = Sent(c, at) /\ call[i].pc = "idle"
  BY CallTyped DEF Begin, c
<1> QED  BY <1>1, <1>2, SentFields

\* Whose step it may be when a call has changed.
LEMMA StepOf ==
    ASSUME TypeOK, Next, NEW i \in Calls, call'[i] # call[i]
    PROVE  ServerStep(i) \/ Receive(i) \/ Lose(i) \/ \E t \in Tabs : Start(i, t)
<1>1. ~Tick /\ ~RemoveAccount
  BY DEF Tick, RemoveAccount
<1>2. PICK j \in Calls : ServerStep(j) \/ Receive(j) \/ Lose(j) \/ \E t \in Tabs : Start(j, t)
  BY <1>1 DEF Next
<1>3. j = i
  BY <1>2, CallsApart
<1> QED  BY <1>2, <1>3

\* A received answer ends the call or sends the next request.
LEMMA ReceiveAfter ==
    ASSUME TypeOK, NEW i \in Calls, Receive(i)
    PROVE  /\ call[i].pc = "answered"
           /\ \/ call'[i].pc = "idle"
              \/ /\ call'[i].pc = "sent" /\ call'[i].at \in {"refresh", "retry"}
                 /\ call'[i].op = call[i].op /\ call'[i].tab = call[i].tab
<1>1. call[i].pc = "answered"
  BY DEF Receive, ProfileLoaded, ProfileFailed, Refreshed, RefreshFailed, FetchRefused, FetchEnds,
         SignedIn, SignInFailed, SignedOut, Arrived, Arrives
<1>2. Done(i) \/ \E at \in {"refresh", "retry"} : Send(i, at)
  BY DEF Receive, ProfileLoaded, ProfileFailed, Refreshed, RefreshFailed, FetchRefused, FetchEnds,
         SignedIn, SignInFailed, SignedOut, Retry
<1>3. ASSUME NEW at \in {"refresh", "retry"}, Send(i, at)
      PROVE  /\ call'[i].pc = "sent" /\ call'[i].at \in {"refresh", "retry"}
             /\ call'[i].op = call[i].op /\ call'[i].tab = call[i].tab
  BY <1>3, SendAfter
<1> QED  BY <1>1, <1>2, <1>3, DoneAfter

\* A call that starts is sent.
LEMMA StartAfter ==
    ASSUME TypeOK, NEW i \in Calls, NEW t \in Tabs, Start(i, t)
    PROVE  /\ call[i].pc = "idle" /\ call'[i].pc = "sent" /\ call'[i].tab = t
           /\ UNCHANGED <<now, serverVars, cookie, lost>>
           /\ \/ /\ call'[i].at # "login" /\ UNCHANGED logins
              \/ /\ call'[i].at = "login" /\ call'[i].op = "login"
                 /\ call'[i].sid = logins + 1 /\ logins' = logins + 1
                 /\ UNCHANGED <<stored, tab>>
<1>1. /\ {"boot", "api", "renew", "login", "logout"} \subseteq Ops
      /\ MaxLogins \in Nat /\ logins \in 0 .. MaxLogins
  BY SessionsAssumption DEF Ops, TypeOK
<1>2. CASE Open(i, t)
  <2>1. PICK at \in {"me", "refresh"} : Begin(i, t, "boot", at, 0)
    BY <1>2 DEF Open
  <2>2. /\ call[i].pc = "idle" /\ call'[i].pc = "sent" /\ call'[i].tab = t
        /\ call'[i].at # "login"
    BY <1>1, <2>1, BeginAfter
  <2>3. UNCHANGED <<now, serverVars, cookie, lost, logins>>
    BY <1>2, <2>1 DEF Open, Begin
  <2> QED  BY <2>2, <2>3
<1>3. ASSUME NEW op \in {"api", "renew", "logout"}, NEW at \in {"api", "refresh", "logout"},
             Use(i, t, op, at)
      PROVE  /\ call[i].pc = "idle" /\ call'[i].pc = "sent" /\ call'[i].tab = t
             /\ UNCHANGED <<now, serverVars, cookie, lost, logins>>
             /\ call'[i].at # "login"
  <2>1. Begin(i, t, op, at, 0) /\ 0 \in 0 .. MaxLogins
    BY <1>1, <1>3 DEF Use
  <2>2. call[i].pc = "idle" /\ call'[i].pc = "sent" /\ call'[i].tab = t /\ call'[i].at = at
    BY <1>1, <2>1, BeginAfter
  <2>3. UNCHANGED <<now, serverVars, cookie, lost, logins>>
    BY <1>3, <2>1 DEF Use, Begin
  <2> QED  BY <2>2, <2>3
<1>4. CASE Fetch(i, t) \/ Renew(i, t) \/ SignOut(i, t)
  BY <1>3, <1>4 DEF Fetch, Renew, SignOut
<1>5. CASE SignIn(i, t)
  <2>1. Begin(i, t, "login", "login", logins + 1) /\ logins + 1 \in 0 .. MaxLogins
    BY <1>1, <1>5 DEF SignIn
  <2>2. /\ call[i].pc = "idle" /\ call'[i].pc = "sent" /\ call'[i].tab = t
        /\ call'[i].at = "login" /\ call'[i].op = "login" /\ call'[i].sid = logins + 1
    BY <1>1, <2>1, BeginAfter
  <2>3. /\ UNCHANGED <<now, serverVars, cookie, lost, stored, tab>>
        /\ logins' = logins + 1
    BY <1>5, <2>1 DEF SignIn, Begin
  <2> QED  BY <2>2, <2>3
<1> QED  BY <1>2, <1>4, <1>5 DEF Start

\* A refresh finds its session live.
Finds(i) ==
    RefreshLookup(i) /\ Proceed(i, "rotate") /\ ~RefusedAtOnce(call[i].token)

\* A handler that is about to rotate was before the step, or has just found the
\* session live.
LEMMA RotatingAfter ==
    ASSUME TypeOK, Next, NEW s \in Sids, Rotating(s)'
    PROVE  Rotating(s) \/ (Live(s) /\ \E i \in Calls : Finds(i))
<1>1. PICK i \in Calls : call'[i].pc = "rotate" /\ call'[i].token.sid = s
  BY DEF Rotating
<1>2. CASE call'[i] = call[i]
  BY <1>1, <1>2 DEF Rotating
<1>3. CASE call'[i] # call[i]
  <2>1. ServerStep(i)
    <3>1. ~Receive(i) /\ \A t \in Tabs : ~Start(i, t)
      BY <1>1, ReceiveAfter, StartAfter
    <3>2. ~Lose(i)
      BY <1>1, AnswerAfter DEF Lose
    <3> QED  BY <1>3, <3>1, <3>2, StepOf
  <2>2. \A reply : ~Answer(i, reply)
    BY <1>1, AnswerAfter
  <2>3. ~Proceed(i, "open") /\ ~Proceed(i, "revoke")
    BY <1>1, ProceedAfter
  <2>4. RefreshLookup(i)
    BY <2>1, <2>2, <2>3 DEF ServerStep, Guarded, GuardRefuses, Handled,
                            RefreshMissing, RefreshRevoke, RefreshRotate,
                            LoginVerify, LoginOpen, Logout
  <2>5. ~RefusedAtOnce(call[i].token) /\ Proceed(i, "rotate")
    BY <2>2, <2>3, <2>4 DEF RefreshLookup
  <2>6. call'[i].token = call[i].token
    BY <2>5, ProceedAfter
  <2> QED  BY <1>1, <2>4, <2>5, <2>6 DEF RefusedAtOnce, Finds
<1> QED  BY <1>2, <1>3

\* What a step may do to the row of one session.
LEMMA SessionWrites ==
    ASSUME TypeOK, CallForm, Next, NEW s \in Sids
    PROVE  \/ session'[s] = session[s]
           \/ session'[s] = NoSession
           \/ session[s] # NoSession /\ session'[s] = [session[s] EXCEPT !.revoked = TRUE]
           \/ \E i \in Calls : RefreshRotate(i) /\ call[i].token.sid = s
           \/ \E i \in Calls : LoginOpen(i) /\ call[i].sid = s
<1>0. session \in [Sids -> Row \cup {NoSession}]
  BY DEF TypeOK, Row
<1>1. CASE Tick \/ RemoveAccount
  BY <1>0, <1>1 DEF Tick, RemoveAccount, serverVars
<1>2. ASSUME NEW i \in Calls, Receive(i) \/ Lose(i) \/ \E t \in Tabs : Start(i, t)
      PROVE  session' = session
  <2>1. CASE Receive(i)
    BY <2>1 DEF Receive, ProfileLoaded, ProfileFailed, Refreshed, RefreshFailed, FetchRefused,
                FetchEnds, SignedIn, SignInFailed, SignedOut, Arrived, Arrives, serverVars
  <2>2. CASE Lose(i)
    BY <2>2 DEF Lose, serverVars
  <2>3. CASE \E t \in Tabs : Start(i, t)
    BY <2>3, StartAfter DEF serverVars
  <2> QED  BY <1>2, <2>1, <2>2, <2>3
<1>3. ASSUME NEW i \in Calls, ServerStep(i), ~RefreshRotate(i), ~LoginOpen(i)
      PROVE  \/ session'[s] = session[s]
             \/ session'[s] = NoSession
             \/ session[s] # NoSession /\ session'[s] = [session[s] EXCEPT !.revoked = TRUE]
  <2>1. CASE Guarded(i) \/ RefreshMissing(i) \/ RefreshLookup(i)
    BY <2>1 DEF Guarded, GuardRefuses, Handled, RefreshMissing, RefreshLookup, serverVars
  <2>2. CASE RefreshRevoke(i)
    BY <1>0, <2>2 DEF RefreshRevoke
  <2>3. CASE LoginVerify(i) \/ Logout(i)
    BY <1>0, <2>3 DEF LoginVerify, Logout
  <2> QED  BY <1>3, <2>1, <2>2, <2>3 DEF ServerStep
<1>4. ASSUME NEW i \in Calls, RefreshRotate(i), session'[s] # session[s]
      PROVE  call[i].token.sid = s
  BY <1>0, <1>4 DEF RefreshRotate, Upserted
<1>5. ASSUME NEW i \in Calls, LoginOpen(i), session'[s] # session[s]
      PROVE  call[i].sid = s
  BY <1>0, <1>5 DEF LoginOpen, Upserted
<1> QED  BY <1>1, <1>2, <1>3, <1>4, <1>5 DEF Next

\* Time and the number of logins only grow, and the clock is left alone by what
\* is not a tick.
LEMMA CountersAfter ==
    ASSUME TypeOK, Next
    PROVE  /\ now' \in {now, now + 1}
           /\ logins' \in {logins, logins + 1}
<1>1. CASE Tick \/ RemoveAccount
  BY <1>1 DEF Tick, RemoveAccount, boundVars
<1>2. ASSUME NEW i \in Calls, ServerStep(i) PROVE UNCHANGED <<now, logins>>
  BY <1>2 DEF ServerStep, Guarded, GuardRefuses, Handled,
              RefreshMissing, RefreshLookup, RefreshRevoke, RefreshRotate,
              LoginVerify, LoginOpen, Logout, boundVars
<1>3. ASSUME NEW i \in Calls, Receive(i) PROVE UNCHANGED <<now, logins>>
  BY <1>3 DEF Receive, ProfileLoaded, ProfileFailed, Refreshed, RefreshFailed, FetchRefused,
              FetchEnds, SignedIn, SignInFailed, SignedOut, Arrived, Arrives, boundVars
<1>4. ASSUME NEW i \in Calls, Lose(i) PROVE UNCHANGED <<now, logins>>
  BY <1>4 DEF Lose
<1>5. ASSUME NEW i \in Calls, NEW t \in Tabs, Start(i, t)
      PROVE  now' = now /\ logins' \in {logins, logins + 1}
  BY <1>5, StartAfter
<1> QED  BY <1>1, <1>2, <1>3, <1>4, <1>5 DEF Next

\* A session that is over comes back only by a handler that had read it before,
\* or as the session of a new login.
LEMMA LiveAfter ==
    ASSUME TypeOK, CallForm, Next, NEW s \in Sids, Live(s)'
    PROVE  \/ Live(s)
           \/ \E i \in Calls : RefreshRotate(i) /\ call[i].token.sid = s
           \/ \E i \in Calls : LoginOpen(i) /\ call[i].sid = s
<1>1. /\ session'[s] # NoSession /\ ~session'[s].revoked
      /\ ~(session'[s].token.iat + RefreshTtl <= now')
  BY DEF Live, Expired
<1>2. CASE session'[s] = session[s]
  <2>1. session[s] \in Row
    BY <1>1, <1>2 DEF TypeOK, Row
  <2>2. /\ session[s].token.iat \in Nat /\ RefreshTtl \in Nat /\ now \in Nat
        /\ now' \in {now, now + 1}
    BY <2>1, NowType, CountersAfter, SessionsAssumption DEF Row, Refresh
  <2>3. ~(session[s].token.iat + RefreshTtl <= now)
    BY <1>1, <1>2, <2>2
  <2> QED  BY <1>1, <1>2, <2>3 DEF Live, Expired
<1>3. CASE session[s] # NoSession /\ session'[s] = [session[s] EXCEPT !.revoked = TRUE]
  <2>1. session[s] \in Row
    BY <1>3 DEF TypeOK, Row
  <2>2. session'[s].revoked = TRUE
    BY <1>3, <2>1 DEF Row
  <2> QED  BY <1>1, <2>2
<1> QED  BY <1>1, <1>2, <1>3, SessionWrites

LEMMA RotatesRotating ==
    ASSUME NEW i \in Calls, RefreshRotate(i)
    PROVE  Rotating(call[i].token.sid)
  BY DEF RefreshRotate, Rotating

\* Only a login that begins draws an id.
LEMMA DrawsByStart ==
    ASSUME Next, logins' # logins
    PROVE  \E i \in Calls, t \in Tabs : Start(i, t)
<1>1. ~Tick /\ ~RemoveAccount
  BY DEF Tick, RemoveAccount, boundVars
<1>2. \A i \in Calls : ~ServerStep(i)
  BY DEF ServerStep, Guarded, GuardRefuses, Handled,
         RefreshMissing, RefreshLookup, RefreshRevoke, RefreshRotate,
         LoginVerify, LoginOpen, Logout, boundVars
<1>3. \A i \in Calls : ~Receive(i)
  BY DEF Receive, ProfileLoaded, ProfileFailed, Refreshed, RefreshFailed, FetchRefused,
         FetchEnds, SignedIn, SignInFailed, SignedOut, Arrived, Arrives, boundVars
<1>4. \A i \in Calls : ~Lose(i)
  BY DEF Lose
<1> QED  BY <1>1, <1>2, <1>3, <1>4 DEF Next

-------------------------------------------------------------------------------
(***************************************************************************)
(* The life of a session: every step is one of it, or leaves it alone.     *)
(***************************************************************************)
\* The id of a login that has not opened its session belongs to nothing else.
NewIds ==
    \A i \in Calls : Entering(i) =>
        /\ session[call[i].sid] = NoSession
        /\ ~Rotating(call[i].sid)
        /\ \A j \in Calls : Entering(j) /\ call[j].sid = call[i].sid => j = i

\* Whatever is known of a session, its login has begun.
KnownIds == \A s \in Sids : session[s] # NoSession \/ Rotating(s) => s <= logins

LifeInv == TypeOK /\ CallForm /\ NewIds /\ KnownIds

LEMMA Numbers ==
    ASSUME LifeInv
    PROVE  /\ logins \in Nat /\ MaxLogins \in Nat /\ logins <= MaxLogins
           /\ \A n : n \in 1 .. logins => n \in Sids
           /\ \A i \in Calls : Entering(i) => call[i].sid \in 1 .. logins
           /\ \A i \in Calls : LoginOpen(i) => Entering(i)
           /\ session \in [Sids -> Row \cup {NoSession}]
<1>1. logins \in Nat /\ MaxLogins \in Nat /\ logins <= MaxLogins
  BY SessionsAssumption DEF LifeInv, TypeOK
<1>2. \A n : n \in 1 .. logins => n \in Sids
  BY <1>1 DEF Sids
<1>3. \A i \in Calls : Entering(i) => call[i].sid \in 1 .. logins
  BY DEF LifeInv, CallForm, Form, Entering
<1>4. \A i \in Calls : LoginOpen(i) => Entering(i)
  BY DEF LifeInv, LoginOpen, Entering, CallForm, Form
<1>5. session \in [Sids -> Row \cup {NoSession}]
  BY DEF LifeInv, TypeOK, Row
<1> QED  BY <1>1, <1>2, <1>3, <1>4, <1>5

\* A login that has not opened its session was on its way before the step, or
\* has just drawn the next id.
LEMMA EnteringAfter ==
    ASSUME TypeOK, Next, NEW i \in Calls, Entering(i)'
    PROVE  \/ Entering(i) /\ call'[i].sid = call[i].sid /\ ~LoginOpen(i)
           \/ /\ call'[i].sid = logins + 1 /\ logins' = logins + 1
              /\ UNCHANGED <<session, now>>
              /\ \A j \in Calls \ {i} : call'[j] = call[j]
<1>0. call'[i].pc \in {"sent", "open"} /\ call'[i].at = "login"
  BY DEF Entering
<1>1. ~LoginOpen(i)
  BY <1>0, AnswerAfter DEF LoginOpen
<1>2. CASE call'[i] = call[i]
  BY <1>0, <1>1, <1>2 DEF Entering
<1>3. CASE call'[i] # call[i]
  <2>1. ~Receive(i)
    BY <1>0, ReceiveAfter
  <2>2. ~Lose(i)
    BY <1>0, AnswerAfter DEF Lose
  <2>3. CASE ServerStep(i)
    <3>1. \A reply : ~Answer(i, reply)
      BY <1>0, AnswerAfter
    <3>2. ~Proceed(i, "rotate") /\ ~Proceed(i, "revoke")
      BY <1>0, ProceedAfter
    <3>3. LoginVerify(i)
      BY <2>3, <3>1, <3>2 DEF ServerStep, Guarded, GuardRefuses, Handled,
                              RefreshMissing, RefreshLookup, RefreshRevoke,
                              RefreshRotate, LoginOpen, Logout
    <3>4. Proceed(i, "open")
      BY <3>1, <3>3 DEF LoginVerify
    <3> QED  BY <1>1, <3>3, <3>4, ProceedAfter DEF LoginVerify, Handles, Entering
  <2>4. ASSUME NEW t \in Tabs, Start(i, t)
        PROVE  /\ call'[i].sid = logins + 1 /\ logins' = logins + 1
               /\ UNCHANGED <<session, now>>
               /\ \A j \in Calls \ {i} : call'[j] = call[j]
    BY <1>0, <2>4, StartAfter, CallsApart DEF serverVars
  <2> QED  BY <1>3, <2>1, <2>2, <2>3, <2>4, StepOf
<1> QED  BY <1>2, <1>3

LEMMA NewIdsStep ==
    ASSUME LifeInv, Next
    PROVE  NewIds'
<1>0. TypeOK /\ CallForm /\ NewIds /\ KnownIds
  BY DEF LifeInv
<1> SUFFICES ASSUME NEW i \in Calls, Entering(i)', NEW n, n = call'[i].sid
             PROVE  /\ session'[n] = NoSession /\ ~Rotating(n)'
                    /\ \A j \in Calls : Entering(j)' /\ call'[j].sid = n => j = i
  BY DEF NewIds
<1>1. CASE Entering(i) /\ n = call[i].sid /\ ~LoginOpen(i)
  <2>1. /\ session[n] = NoSession /\ ~Rotating(n) /\ ~Live(n)
        /\ \A j \in Calls : Entering(j) /\ call[j].sid = n => j = i
        /\ n \in Sids /\ n \in 1 .. logins
    BY <1>0, <1>1, Numbers DEF NewIds, Live
  <2>2. \A j \in Calls : LoginOpen(j) => call[j].sid # n
    BY <1>1, <2>1, Numbers
  <2>3. session'[n] = NoSession
    BY <1>0, <2>1, <2>2, SessionWrites, RotatesRotating
  <2>4. ~Rotating(n)'
    BY <1>0, <2>1, RotatingAfter
  <2>5. ASSUME NEW j \in Calls, Entering(j)', call'[j].sid = n PROVE j = i
    <3>1. n # logins + 1
      BY <2>1, Numbers
    <3>2. Entering(j) /\ call[j].sid = n
      BY <1>0, <2>5, <3>1, EnteringAfter
    <3> QED  BY <2>1, <3>2
  <2> QED  BY <2>3, <2>4, <2>5
<1>2. CASE /\ n = logins + 1 /\ logins' = logins + 1 /\ UNCHANGED <<session, now>>
           /\ \A j \in Calls \ {i} : call'[j] = call[j]
  <2>1. n \in Sids
    <3>1. logins' \in 0 .. MaxLogins
      BY <1>0, SessionsStep DEF TypeOK
    <3> QED  BY <1>2, <3>1, Numbers DEF Sids
  <2>2. session[n] = NoSession /\ ~Rotating(n) /\ ~Live(n)
    BY <1>0, <1>2, <2>1, Numbers DEF KnownIds, Live
  <2>3. ~Rotating(n)'
    BY <1>0, <2>1, <2>2, RotatingAfter
  <2>4. ASSUME NEW j \in Calls, Entering(j)', call'[j].sid = n, j # i PROVE FALSE
    <3>1. Entering(j) /\ call[j].sid = n
      BY <1>2, <2>4 DEF Entering
    <3> QED  BY <1>2, <3>1, Numbers
  <2> QED  BY <1>2, <2>2, <2>3, <2>4
<1> QED  BY <1>0, <1>1, <1>2, EnteringAfter

LEMMA KnownIdsStep ==
    ASSUME LifeInv, Next
    PROVE  KnownIds'
<1>0. TypeOK /\ CallForm /\ KnownIds /\ logins' \in {logins, logins + 1}
  BY CountersAfter DEF LifeInv
<1> SUFFICES ASSUME NEW s \in Sids, session'[s] # NoSession \/ Rotating(s)'
             PROVE  s <= logins'
  BY DEF KnownIds
<1>1. \/ session[s] # NoSession \/ Rotating(s)
      \/ \E i \in Calls : Entering(i) /\ call[i].sid = s
  <2>1. CASE Rotating(s)'
    BY <1>0, <2>1, RotatingAfter DEF Live
  <2>2. CASE session'[s] # NoSession
    BY <1>0, <2>2, SessionWrites, RotatesRotating, Numbers
  <2> QED  BY <2>1, <2>2
<1>2. s <= logins /\ s \in Nat
  BY <1>0, <1>1, Numbers, SessionsAssumption DEF KnownIds, Sids
<1> QED  BY <1>0, <1>2, Numbers

LEMMA LifeInvInductive ==
    /\ Init => LifeInv
    /\ LifeInv /\ [Next]_vars => LifeInv'
<1>1. ASSUME Init PROVE LifeInv
  <2>1. TypeOK /\ CallForm
    BY <1>1, SessionsInit
  <2>2. \A i \in Calls : call[i].pc = "idle"
    BY <1>1 DEF Init, IdleCall
  <2>3. NewIds
    BY <2>2 DEF NewIds, Entering
  <2>4. KnownIds
    BY <1>1, <2>2 DEF Init, KnownIds, Rotating
  <2> QED  BY <2>1, <2>3, <2>4 DEF LifeInv
<1>2. ASSUME LifeInv, [Next]_vars PROVE LifeInv'
  <2>1. TypeOK' /\ CallForm'
    BY <1>2, SessionsStep DEF LifeInv
  <2>2. CASE Next
    BY <1>2, <2>1, <2>2, NewIdsStep, KnownIdsStep DEF LifeInv
  <2>3. CASE UNCHANGED vars
    BY <1>2, <2>1, <2>3 DEF vars, serverVars, boundVars, LifeInv, NewIds, KnownIds,
       Entering, Rotating
  <2> QED  BY <1>2, <2>2, <2>3
<1> QED  BY <1>1, <1>2

\* A step of one call leaves what the other calls are about to do alone.
LEMMA OthersSame ==
    ASSUME NEW i \in Calls, \A j \in Calls \ {i} : call'[j] = call[j], NEW j \in Calls \ {i}
    PROVE  /\ Entering(j)' <=> Entering(j)
           /\ call'[j].sid = call[j].sid
  BY DEF Entering

\* A login begins, with the next id.
LEMMA LoginDraws ==
    ASSUME LifeInv, LifeInv', NEW i \in Calls, NEW t \in Tabs, Start(i, t), logins' # logins
    PROVE  Life!LifeNext
<1> DEFINE n == logins + 1
<1>0. TypeOK
  BY DEF LifeInv
<1>1. /\ call[i].pc = "idle" /\ call'[i].pc = "sent" /\ call'[i].at = "login"
      /\ call'[i].sid = n /\ logins' = n
      /\ UNCHANGED <<now, serverVars>>
  BY <1>0, StartAfter
<1>2. \A j \in Calls \ {i} : call'[j] = call[j]
  BY <1>0, CallsApart
<1>3. n \in Sids /\ n \notin 1 .. logins /\ 1 .. n = (1 .. logins) \cup {n}
  <2>1. n \in 0 .. MaxLogins
    BY <1>1 DEF LifeInv, TypeOK
  <2> QED  BY <2>1, Numbers DEF Sids
<1>4. Opening' = Opening \cup {n}
  <2>1. Entering(i)' /\ ~Entering(i)
    BY <1>1 DEF Entering
  <2> QED  BY <1>1, <1>2, <2>1, OthersSame DEF Opening
<1>5. LiveIds' = LiveIds
  BY <1>1 DEF LiveIds, Live, Expired, serverVars
<1>6. Renewing' = Renewing
  BY <1>1, <1>2 DEF Renewing, Rotating
<1>7. Life!Draw(n)
  BY <1>1, <1>3, <1>4, <1>5, <1>6 DEF Life!Draw
<1> QED  BY <1>3, <1>7 DEF Life!LifeNext

\* A session whose row a step has written is live then, or everything that was
\* live besides it still is and nothing else.
LEMMA LiveWritten ==
    ASSUME LifeInv, now' = now, NEW s \in Sids,
           \A r \in Sids \ {s} : session'[r] = session[r]
    PROVE  LiveIds' = LiveIds \cup {s} \/ LiveIds' = LiveIds \ {s}
<1>1. \A r \in Sids \ {s} : Live(r)' <=> Live(r)
  BY DEF Live, Expired
<1>2. CASE Live(s)'
  BY <1>1, <1>2 DEF LiveIds
<1>3. CASE ~Live(s)'
  BY <1>1, <1>3 DEF LiveIds
<1> QED  BY <1>2, <1>3

\* A login opens its session, unless the account is gone.
LEMMA LoginOpens ==
    ASSUME LifeInv, Next, NEW i \in Calls, LoginOpen(i)
    PROVE  Life!LifeNext
<1> DEFINE s == call[i].sid
<1>0. /\ TypeOK /\ Entering(i) /\ s \in Sids
      /\ UNCHANGED <<now, logins>>
      /\ \A j \in Calls \ {i} : Entering(j) => call[j].sid # s
  BY Numbers DEF LifeInv, LoginOpen, NewIds, boundVars
<1>1. call[i].pc = "open" /\ call'[i].pc = "answered"
  BY <1>0, AnswerAfter DEF LoginOpen
<1>2. \A j \in Calls \ {i} : call'[j] = call[j]
  BY <1>0, CallsApart DEF ServerStep
<1>3. Opening' = Opening \ {s}
  <2>1. ~Entering(i)'
    BY <1>1 DEF Entering
  <2> QED  BY <1>0, <1>2, <2>1, OthersSame DEF Opening
<1>4. Renewing' = Renewing
  BY <1>1, <1>2 DEF Renewing, Rotating
<1>5. LiveIds' = LiveIds \cup {s} \/ LiveIds' = LiveIds \ {s}
  <2>1. \A r \in Sids \ {s} : session'[r] = session[r]
    BY Numbers DEF LoginOpen, Upserted
  <2> QED  BY <1>0, <2>1, LiveWritten
<1>6. CASE LiveIds' = LiveIds \cup {s}
  <2>1. s \in Opening
    BY <1>0 DEF Opening
  <2>2. Life!Open(s)
    BY <1>0, <1>3, <1>4, <1>6, <2>1 DEF Life!Open
  <2> QED  BY <1>0, <2>2 DEF Life!LifeNext
<1>7. CASE LiveIds' = LiveIds \ {s}
  BY <1>0, <1>3, <1>4, <1>7 DEF Life!End, Life!LifeNext
<1> QED  BY <1>5, <1>6, <1>7

\* A refresh rotates the token, unless the account is gone.
LEMMA RefreshRenews ==
    ASSUME LifeInv, Next, NEW i \in Calls, RefreshRotate(i)
    PROVE  Life!LifeNext
<1> DEFINE s == call[i].token.sid
<1>0. /\ TypeOK /\ CallForm /\ UNCHANGED <<now, logins>>
      /\ call[i].pc = "rotate" /\ call[i].at = "refresh"
  BY DEF LifeInv, RefreshRotate, CallForm, Form, boundVars
<1>1. s \in Sids
  BY <1>0, CallTyped DEF CallForm, Form, Call, Refresh
<1>2. call'[i].pc = "answered"
  BY <1>0, AnswerAfter DEF RefreshRotate
<1>3. \A j \in Calls \ {i} : call'[j] = call[j]
  BY <1>0, CallsApart DEF ServerStep
<1>4. Opening' = Opening
  <2>1. ~Entering(i) /\ ~Entering(i)'
    BY <1>0, <1>2 DEF Entering
  <2> QED  BY <1>3, <2>1, OthersSame DEF Opening
<1>5. Renewing' \in {Renewing, Renewing \ {s}} /\ s \in Renewing
  <2>1. \A r \in Sids \ {s} : Rotating(r)' <=> Rotating(r)
    BY <1>0, <1>2, <1>3 DEF Rotating
  <2>2. Rotating(s)
    BY <1>0 DEF Rotating
  <2> QED  BY <1>1, <2>1, <2>2 DEF Renewing
<1>6. LiveIds' = LiveIds \cup {s} \/ LiveIds' = LiveIds \ {s}
  <2>1. \A r \in Sids \ {s} : session'[r] = session[r]
    BY Numbers DEF RefreshRotate, Upserted
  <2> QED  BY <1>0, <1>1, <2>1, LiveWritten
<1>7. CASE LiveIds' = LiveIds \cup {s}
  <2>1. Life!Renew(s)
    BY <1>0, <1>4, <1>5, <1>7 DEF Life!Renew
  <2> QED  BY <1>1, <2>1 DEF Life!LifeNext
<1>8. CASE LiveIds' = LiveIds \ {s}
  BY <1>0, <1>4, <1>5, <1>8 DEF Life!End, Life!LifeNext
<1> QED  BY <1>6, <1>7, <1>8

\* A refresh finds its session live.
LEMMA RefreshFinds ==
    ASSUME LifeInv, Next, NEW i \in Calls, RefreshLookup(i), Proceed(i, "rotate"),
           ~RefusedAtOnce(call[i].token)
    PROVE  Life!LifeNext
<1>0. /\ TypeOK /\ UNCHANGED <<now, logins, session>>
      /\ call[i].pc = "sent" /\ call[i].at = "refresh" /\ call[i].token # NoToken
  BY DEF LifeInv, RefreshLookup, Handles, serverVars, boundVars
<1>1. PICK s \in Sids : s = call[i].token.sid
  BY <1>0, CallTyped DEF Call, Refresh
<1>2. call'[i].pc = "rotate" /\ call'[i].token = call[i].token /\ call'[i].at = "refresh"
  BY <1>0, ProceedAfter
<1>3. \A j \in Calls \ {i} : call'[j] = call[j]
  BY <1>0, CallsApart DEF ServerStep
<1>4. Opening' = Opening
  <2>1. ~Entering(i) /\ ~Entering(i)'
    BY <1>0, <1>2 DEF Entering
  <2> QED  BY <1>3, <2>1, OthersSame DEF Opening
<1>5. Renewing' = Renewing \cup {s}
  <2>1. \A r \in Sids \ {s} : Rotating(r)' <=> Rotating(r)
    BY <1>0, <1>1, <1>2, <1>3 DEF Rotating
  <2>2. Rotating(s)'
    BY <1>1, <1>2 DEF Rotating
  <2> QED  BY <1>1, <2>1, <2>2 DEF Renewing
<1>6. LiveIds' = LiveIds /\ s \in LiveIds
  BY <1>0, <1>1 DEF LiveIds, Live, Expired, RefusedAtOnce
<1>7. Life!Find(s)
  BY <1>0, <1>4, <1>5, <1>6 DEF Life!Find
<1> QED  BY <1>1, <1>7 DEF Life!LifeNext

\* Every other step ends sessions, or gives up what is about to make them live.
LEMMA RestEnds ==
    ASSUME LifeInv, Next, logins' = logins,
           \A i \in Calls : ~LoginOpen(i) /\ ~RefreshRotate(i),
           \A i \in Calls : ~Finds(i)
    PROVE  Life!LifeNext
<1>0. TypeOK /\ CallForm /\ logins \in Nat
  BY Numbers DEF LifeInv
<1>1. LiveIds' \subseteq LiveIds
  BY <1>0, LiveAfter DEF LiveIds
<1>2. Opening' \subseteq Opening
  BY <1>0, EnteringAfter DEF Opening
<1>3. Renewing' \subseteq Renewing
  BY <1>0, RotatingAfter DEF Renewing
<1> QED  BY <1>1, <1>2, <1>3 DEF Life!End, Life!LifeNext

LEMMA LifeStep == LifeInv /\ LifeInv' /\ [Next]_vars => [Life!LifeNext]_(Life!life)
<1> SUFFICES ASSUME LifeInv, LifeInv', [Next]_vars
             PROVE  Life!LifeNext \/ UNCHANGED <<1 .. logins, Opening, LiveIds, Renewing>>
  BY DEF Life!life
<1>1. CASE UNCHANGED vars
  BY <1>1 DEF vars, serverVars, boundVars, Opening, Entering, LiveIds, Live, Expired,
              Renewing, Rotating
<1>2. CASE Next /\ logins' # logins
  <2>1. \E i \in Calls, t \in Tabs : Start(i, t)
    BY <1>2, DrawsByStart
  <2> QED  BY <1>2, <2>1, LoginDraws
<1>3. CASE Next /\ logins' = logins
  BY <1>3, LoginOpens, RefreshRenews, RefreshFinds, RestEnds DEF Finds
<1> QED  BY <1>1, <1>2, <1>3

\* The rows and the calls implement the life of a session, for any tabs, calls,
\* lifetimes and losses: its login opens it once, and only a refresh that found
\* it live renews it.
THEOREM LifeImplemented == Spec => SessionsLiveOnce
<1>1. Init => Life!LifeInit
  <2> SUFFICES ASSUME Init PROVE Life!LifeInit
    OBVIOUS
  <2>1. \A i \in Calls : call[i].pc = "idle"
    BY DEF Init, IdleCall
  <2>2. Opening = {} /\ Renewing = {}
    BY <2>1 DEF Opening, Entering, Renewing, Rotating
  <2>3. LifeInv
    BY LifeInvInductive
  <2>4. LiveIds \subseteq 1 .. logins /\ 1 .. logins \subseteq Sids
    BY <2>3, Numbers DEF LifeInv, KnownIds, LiveIds, Live, Sids
  <2> QED  BY <2>2, <2>4 DEF Life!LifeInit
<1> QED
  BY <1>1, LifeInvInductive, LifeStep, PTL DEF Spec, SessionsLiveOnce, Life!LifeSpec

\* So a session that was revoked or removed, or has expired, while no refresh
\* had read it, is over for good.
THEOREM OverStaysOver == Spec => Life!OverForGood
<1>1. [Life!LifeNext]_(Life!life) => [Life!Over \subseteq Life!Over']_(Life!life)
  BY DEF Life!LifeNext, Life!End, Life!Draw, Life!Open, Life!Find, Life!Renew, Life!Over, Life!life
<1> QED  BY <1>1, LifeImplemented, PTL DEF SessionsLiveOnce, Life!LifeSpec, Life!OverForGood

-------------------------------------------------------------------------------
(* Tabs.                                                                   *)

\* The page of this tab is still finding out who uses it.
Boot(t) == \E i \in Calls : call[i].pc # "idle" /\ call[i].tab = t /\ call[i].op = "boot"

\* A tab without a bootstrap shows what its token allows; one that loads, or
\* awaits the profile, has a bootstrap, and only one; a closed tab awaits nothing.
TabMatches ==
    \A t \in Tabs : Boot(t) \/ Agrees(t) \/ t \in overtaken
ProfileAwaited ==
    \A t \in Tabs : Loading(t) =>
        tab[t].ref # NoToken \/ tab[t].status = "unauthenticated" \/ t \in overtaken
LoadingBoots == \A t \in Tabs : tab[t].status = "loading" => Boot(t)
OneBoot ==
    \A i, j \in Calls :
        /\ call[i].pc # "idle" /\ call[i].op = "boot"
        /\ call[j].pc # "idle" /\ call[j].op = "boot"
        /\ call[i].tab = call[j].tab
        => i = j
ClosedIdle ==
    \A t \in Tabs : tab[t].status = "closed" => \A i \in Calls : call[i].pc = "idle" \/ call[i].tab # t

TabInv ==
    /\ TypeOK /\ CallForm
    /\ TabMatches /\ ProfileAwaited /\ LoadingBoots /\ OneBoot /\ ClosedIdle

\* What the arrival of an answer does to the tabs.
LEMMA TabsAfterReceive ==
    ASSUME TypeOK, CallForm, NEW i \in Calls, Receive(i), NEW u, u = call[i].tab
    PROVE  /\ u \in Tabs /\ \A t \in Tabs \ {u} : tab'[t] = tab[t]
           /\ \/ /\ call[i].op = "boot" /\ call[i].at = "me" /\ call'[i].pc = "idle"
                 /\ tab'[u].status = "authenticated" /\ tab'[u].ref = tab[u].ref
              \/ /\ call[i].op = "boot" /\ call[i].at = "me"
                 /\ call'[i].pc = "sent" /\ call'[i].at = "refresh"
                 /\ tab'[u].status = tab[u].status /\ tab'[u].ref = NoToken
              \/ tab'[u].status = "authenticated" /\ tab'[u].ref # NoToken
              \/ tab'[u].status = "unauthenticated" /\ tab'[u].ref = NoToken
              \/ call[i].op # "boot" /\ UNCHANGED tab
<1>0. /\ tab \in [Tabs -> TabType] /\ call[i] \in Call /\ Form(call[i], logins)
      /\ u \in Tabs
  BY DEF TypeOK, CallForm, TabType, Call
<1>1. ASSUME NEW access, NEW status, Persist(u, access, status)
      PROVE  /\ tab'[u].status = status /\ tab'[u].ref = access
             /\ \A t \in Tabs \ {u} : tab'[t] = tab[t]
  BY <1>0, <1>1 DEF Persist
<1>2. CASE ProfileLoaded(i)
  <2>1. tab' = [tab EXCEPT ![u].status = "authenticated"] /\ Done(i) /\ call[i].at = "me"
    BY <1>2 DEF ProfileLoaded, Arrived, Arrives
  <2> QED  BY <1>0, <2>1, DoneAfter DEF TabType, Form
<1>3. CASE ProfileFailed(i)
  <2>1. Persist(u, NoToken, tab[u].status) /\ Send(i, "refresh") /\ call[i].at = "me"
    BY <1>3 DEF ProfileFailed, Arrived, Arrives
  <2>2. call'[i].pc = "sent" /\ call'[i].at = "refresh"
    BY <2>1, SendAfter
  <2> QED  BY <1>0, <1>1, <2>1, <2>2 DEF Form
<1>4. CASE Refreshed(i) \/ SignedIn(i)
  <2>1. /\ Persist(u, call[i].reply.access, "authenticated")
        /\ call[i].pc = "answered" /\ call[i].at \in {"refresh", "login"}
        /\ call[i].reply.status = 200
    BY <1>4 DEF Refreshed, SignedIn, Hydrate, Arrived, Arrives
  <2>2. call[i].reply.access # NoToken
    BY <1>0, <2>1 DEF Form
  <2> QED  BY <1>0, <1>1, <2>1, <2>2
<1>5. CASE SignedOut(i) \/ (RefreshFailed(i) /\ call[i].op = "boot")
  <2>1. Persist(u, NoToken, "unauthenticated")
    BY <1>5 DEF SignedOut, RefreshFailed, GiveUp, ClearSession
  <2> QED  BY <1>0, <1>1, <2>1
<1>6. CASE RefreshFailed(i) /\ call[i].op # "boot"
  BY <1>0, <1>6 DEF RefreshFailed, GiveUp
<1>7. CASE FetchRefused(i) \/ FetchEnds(i) \/ SignInFailed(i)
  <2>1. UNCHANGED tab /\ call[i].at \in {"api", "retry", "login"}
    BY <1>7 DEF FetchRefused, FetchEnds, SignInFailed, Arrived, Arrives
  <2> QED  BY <1>0, <2>1 DEF Form
<1> QED  BY <1>2, <1>3, <1>4, <1>5, <1>6, <1>7 DEF Receive

\* What the start of a call does to the tabs.
LEMMA TabsAfterStart ==
    ASSUME TypeOK, NEW i \in Calls, NEW t \in Tabs, Start(i, t)
    PROVE  \/ /\ call'[i].op = "boot" /\ tab[t].status = "closed"
              /\ tab'[t].status = "loading" /\ tab'[t].ref = stored
              /\ call'[i].at = "me" => stored # NoToken
              /\ \A u \in Tabs \ {t} : tab'[u] = tab[u]
           \/ /\ call'[i].op # "boot" /\ call'[i].at # "me"
              /\ UNCHANGED tab /\ tab[t].status # "closed"
<1>0. /\ tab \in [Tabs -> TabType]
      /\ {"boot", "api", "renew", "login", "logout"} \subseteq Ops
      /\ logins \in 0 .. MaxLogins /\ MaxLogins \in Nat
  BY SessionsAssumption DEF TypeOK, TabType, Ops
<1>1. CASE Open(i, t)
  <2> DEFINE at == IF stored # NoToken THEN "me" ELSE "refresh"
  <2>1. /\ tab[t].status = "closed" /\ Begin(i, t, "boot", at, 0) /\ 0 \in 0 .. MaxLogins
        /\ tab' = [tab EXCEPT ![t] = [status |-> "loading", ref |-> stored]]
    BY <1>0, <1>1 DEF Open
  <2>2. call'[i].op = "boot" /\ call'[i].at = at
    <3> HIDE DEF at
    <3> QED  BY <1>0, <2>1, BeginAfter
  <2> QED  BY <1>0, <2>1, <2>2
<1>2. ASSUME NEW op \in {"api", "renew", "logout"}, NEW at \in {"api", "refresh", "logout"},
             Use(i, t, op, at)
      PROVE  /\ call'[i].op # "boot" /\ call'[i].at # "me"
             /\ UNCHANGED tab /\ tab[t].status # "closed"
  <2>1. Begin(i, t, op, at, 0) /\ 0 \in 0 .. MaxLogins /\ op \in Ops
    BY <1>0, <1>2 DEF Use
  <2>2. call'[i].op = op /\ call'[i].at = at
    BY <2>1, BeginAfter
  <2> QED  BY <1>2, <2>2 DEF Use
<1>3. CASE Fetch(i, t) \/ Renew(i, t) \/ SignOut(i, t)
  BY <1>2, <1>3 DEF Fetch, Renew, SignOut
<1>4. CASE SignIn(i, t)
  <2>1. Begin(i, t, "login", "login", logins + 1) /\ logins + 1 \in 0 .. MaxLogins
    BY <1>0, <1>4 DEF SignIn
  <2>2. call'[i].op = "login" /\ call'[i].at = "login"
    BY <1>0, <2>1, BeginAfter
  <2> QED  BY <1>4, <2>2 DEF SignIn
<1> QED  BY <1>1, <1>3, <1>4 DEF Start

\* A handler, a loss, the clock and the removal of the account leave the tabs
\* alone, and the request every call is about.
LEMMA OtherSteps ==
    ASSUME TypeOK, CallForm, Next,
           \A i \in Calls : ~Receive(i) /\ \A t \in Tabs : ~Start(i, t)
    PROVE  /\ UNCHANGED tab
           /\ \A i \in Calls : /\ call'[i].pc = "idle" <=> call[i].pc = "idle"
                               /\ call'[i].op = call[i].op /\ call'[i].at = call[i].at
                               /\ call'[i].tab = call[i].tab
<1>1. CASE Tick \/ RemoveAccount
  BY <1>1 DEF Tick, RemoveAccount, browserVars
<1>2. ASSUME NEW i \in Calls, ServerStep(i) \/ Lose(i)
      PROVE  /\ UNCHANGED tab /\ call[i].pc # "idle"
             /\ (\E reply : Answer(i, reply))
                \/ \E pc \in {"rotate", "revoke", "open"} : Proceed(i, pc)
  BY <1>2 DEF ServerStep, Guarded, GuardRefuses, Handled,
              RefreshMissing, RefreshLookup, RefreshRevoke, RefreshRotate,
              LoginVerify, LoginOpen, Logout, Lose, Handles, browserVars
<1>3. ASSUME NEW i \in Calls, ServerStep(i) \/ Lose(i)
      PROVE  /\ call'[i].pc # "idle" /\ call[i].pc # "idle" /\ call'[i].op = call[i].op
             /\ call'[i].at = call[i].at /\ call'[i].tab = call[i].tab
  BY <1>2, <1>3, AnswerAfter, ProceedAfter
<1>4. ASSUME NEW i \in Calls, ServerStep(i) \/ Lose(i), NEW j \in Calls
      PROVE  /\ call'[j].pc = "idle" <=> call[j].pc = "idle"
             /\ call'[j].op = call[j].op /\ call'[j].at = call[j].at
             /\ call'[j].tab = call[j].tab
  BY <1>3, <1>4, CallsApart
<1> QED  BY <1>1, <1>2, <1>4 DEF Next

\* Which tabs stay in `overtaken`, and which come to it.
LEMMA OvertakenAfter ==
    ASSUME Track, NEW t \in Tabs
    PROVE  /\ t \in overtaken /\ Loading(t)' => t \in overtaken'
           /\ t \in overtaken /\ ~Agrees(t)' => t \in overtaken'
           /\ tab[t].status = "unauthenticated" /\ Loading(t) /\ Loading(t)' => t \in overtaken'
           /\ tab[t].status = "unauthenticated" /\ Loading(t) /\ ~Agrees(t)' => t \in overtaken'
  BY DEF Track

LEMMA TabInit == HistoryInit => TabInv
<1> SUFFICES ASSUME HistoryInit PROVE TabInv
  OBVIOUS
<1>1. TypeOK /\ CallForm
  BY SessionsInit DEF HistoryInit
<1>2. /\ \A i \in Calls : call[i].pc = "idle"
      /\ \A t \in Tabs : tab[t].status = "closed" /\ tab[t].ref = NoToken
  BY DEF HistoryInit, Init, IdleCall
<1> QED
  BY <1>1, <1>2 DEF TabInv, TabMatches, Agrees, ProfileAwaited, Loading, InProgress, LoadingBoots,
                    OneBoot, ClosedIdle

\* Three kinds of step, as the tabs see them.
LEMMA TabUntouched ==
    ASSUME TabInv, Next, Track,
           \A i \in Calls : ~Receive(i) /\ \A t \in Tabs : ~Start(i, t)
    PROVE  TabMatches' /\ ProfileAwaited' /\ LoadingBoots' /\ OneBoot' /\ ClosedIdle'
<1>1. /\ UNCHANGED tab
      /\ \A i \in Calls : /\ call'[i].pc = "idle" <=> call[i].pc = "idle"
                          /\ call'[i].op = call[i].op /\ call'[i].at = call[i].at
                          /\ call'[i].tab = call[i].tab
  BY OtherSteps DEF TabInv
<1>2. /\ \A t \in Tabs : Boot(t)' <=> Boot(t)
      /\ \A t \in Tabs : Loading(t)' <=> Loading(t)
      /\ \A t \in Tabs : Agrees(t)' <=> Agrees(t)
  BY <1>1 DEF Boot, Loading, InProgress, Agrees
<1>3. TabMatches'
  BY <1>2, OvertakenAfter DEF TabInv, TabMatches
<1>4. ProfileAwaited'
  BY <1>1, <1>2, OvertakenAfter DEF TabInv, ProfileAwaited
<1>5. LoadingBoots'
  BY <1>1, <1>2 DEF TabInv, LoadingBoots
<1>6. OneBoot'
  BY <1>1 DEF TabInv, OneBoot
<1>7. ClosedIdle'
  BY <1>1 DEF TabInv, ClosedIdle
<1> QED  BY <1>3, <1>4, <1>5, <1>6, <1>7

LEMMA TabStarts ==
    ASSUME TabInv, Track, NEW i \in Calls, NEW u \in Tabs, Start(i, u)
    PROVE  TabMatches' /\ ProfileAwaited' /\ LoadingBoots' /\ OneBoot' /\ ClosedIdle'
<1>0. TypeOK /\ call[i].pc = "idle" /\ call'[i].pc = "sent" /\ call'[i].tab = u
  BY StartAfter DEF TabInv
<1>1. \A j \in Calls \ {i} : call'[j] = call[j]
  BY <1>0, CallsApart
<1>2. \A t \in Tabs : Boot(t) => Boot(t)'
  BY <1>0, <1>1 DEF Boot
<1>3. CASE /\ call'[i].op = "boot" /\ tab[u].status = "closed"
           /\ tab'[u].status = "loading" /\ tab'[u].ref = stored
           /\ call'[i].at = "me" => stored # NoToken
           /\ \A t \in Tabs \ {u} : tab'[t] = tab[t]
  <2>1. Boot(u)' /\ ~Loading(u) /\ \A j \in Calls : call[j].pc = "idle" \/ call[j].tab # u
    BY <1>0, <1>3 DEF Boot, Loading, InProgress, TabInv, ClosedIdle
  <2>2. /\ \A t \in Tabs \ {u} : Agrees(t)' <=> Agrees(t)
        /\ \A t \in Tabs \ {u} : Loading(t)' <=> Loading(t)
    BY <1>0, <1>1, <1>3 DEF Agrees, Loading, InProgress
  <2>3. Loading(u)' => stored # NoToken
    BY <1>0, <1>1, <1>3, <2>1 DEF Loading, InProgress
  <2>4. TabMatches'
    BY <1>2, <2>1, <2>2, OvertakenAfter DEF TabInv, TabMatches
  <2>5. ProfileAwaited'
    BY <1>3, <2>2, <2>3, OvertakenAfter DEF TabInv, ProfileAwaited
  <2>6. LoadingBoots'
    BY <1>2, <1>3, <2>1 DEF TabInv, LoadingBoots
  <2>7. OneBoot'
    BY <1>0, <1>1, <2>1 DEF TabInv, OneBoot
  <2>8. ClosedIdle'
    BY <1>0, <1>1, <1>3 DEF TabInv, ClosedIdle
  <2> QED  BY <2>4, <2>5, <2>6, <2>7, <2>8
<1>4. CASE /\ call'[i].op # "boot" /\ call'[i].at # "me"
           /\ UNCHANGED tab /\ tab[u].status # "closed"
  <2>1. /\ \A t \in Tabs : Agrees(t)' <=> Agrees(t)
        /\ \A t \in Tabs : Loading(t)' <=> Loading(t)
    BY <1>0, <1>1, <1>4 DEF Agrees, Loading, InProgress
  <2>2. TabMatches'
    BY <1>2, <2>1, OvertakenAfter DEF TabInv, TabMatches
  <2>3. ProfileAwaited'
    BY <1>4, <2>1, OvertakenAfter DEF TabInv, ProfileAwaited
  <2>4. LoadingBoots'
    BY <1>2, <1>4 DEF TabInv, LoadingBoots
  <2>5. OneBoot'
    BY <1>1, <1>4 DEF TabInv, OneBoot
  <2>6. ClosedIdle'
    BY <1>0, <1>1, <1>4 DEF TabInv, ClosedIdle
  <2> QED  BY <2>2, <2>3, <2>4, <2>5, <2>6
<1> QED  BY <1>0, <1>3, <1>4, TabsAfterStart

LEMMA TabReceives ==
    ASSUME TabInv, Track, NEW i \in Calls, Receive(i), NEW u, u = call[i].tab
    PROVE  TabMatches' /\ ProfileAwaited' /\ LoadingBoots' /\ OneBoot' /\ ClosedIdle'
<1>0. /\ TypeOK /\ CallForm /\ u \in Tabs /\ call[i].pc = "answered"
      /\ \A t \in Tabs \ {u} : tab'[t] = tab[t]
  BY ReceiveAfter, TabsAfterReceive DEF TabInv
<1>1. \A j \in Calls \ {i} : call'[j] = call[j]
  BY <1>0, CallsApart
<1>2. /\ call'[i].pc # "idle" => /\ call'[i].op = call[i].op /\ call'[i].tab = u
                                 /\ call'[i].at # "me"
  BY <1>0, ReceiveAfter
<1>3. /\ \A t \in Tabs \ {u} : Boot(t)' <=> Boot(t)
      /\ \A t \in Tabs \ {u} : Loading(t)' <=> Loading(t)
      /\ \A t \in Tabs \ {u} : Agrees(t)' <=> Agrees(t)
  BY <1>0, <1>1, <1>2 DEF Boot, Loading, InProgress, Agrees
<1>4. Loading(u)' => Loading(u)
  BY <1>0, <1>1, <1>2 DEF Loading, InProgress
<1>5. call[i].op # "boot" => (Boot(u) => Boot(u)')
  BY <1>1 DEF Boot
<1>6. call[i].at = "me" => Loading(u)
  BY <1>0 DEF Loading, InProgress
<1>7. call[i].at = "me" => ~Loading(u)'
  <2> SUFFICES ASSUME call[i].at = "me", Loading(u)' PROVE FALSE
    OBVIOUS
  <2>1. PICK j \in Calls : call'[j].pc # "idle" /\ call'[j].tab = u /\ call'[j].at = "me"
    BY DEF Loading, InProgress
  <2>2. j # i /\ call'[j] = call[j]
    BY <1>1, <1>2, <2>1
  <2>3. call[i].op = "boot" /\ call[j].op = "boot"
    BY <1>0, <2>1, <2>2 DEF CallForm, Form
  <2> QED  BY <1>0, <2>1, <2>2, <2>3 DEF TabInv, OneBoot
\* The tab of the call afterwards.
<1>8. /\ Boot(u)' \/ Agrees(u)' \/ u \in overtaken'
      /\ Loading(u)' => tab'[u].ref # NoToken \/ tab'[u].status = "unauthenticated" \/ u \in overtaken'
      /\ tab'[u].status = "loading" => Boot(u)'
      /\ tab'[u].status # "closed"
  <2>0. tab[u].status # "closed"
    BY <1>0 DEF TabInv, ClosedIdle
  <2>1. CASE /\ call[i].op = "boot" /\ call[i].at = "me" /\ call'[i].pc = "idle"
             /\ tab'[u].status = "authenticated" /\ tab'[u].ref = tab[u].ref
    <3>1. tab[u].ref # NoToken \/ tab[u].status = "unauthenticated" \/ u \in overtaken
      BY <1>0, <1>6, <2>1 DEF TabInv, ProfileAwaited
    <3>2. Agrees(u)' <=> tab[u].ref # NoToken
      BY <2>1 DEF Agrees
    <3>3. Agrees(u)' \/ u \in overtaken'
      BY <1>0, <1>6, <2>1, <3>1, <3>2, OvertakenAfter
    <3> QED  BY <1>7, <2>1, <3>3
  <2>2. CASE /\ call[i].op = "boot" /\ call[i].at = "me"
             /\ call'[i].pc = "sent" /\ call'[i].at = "refresh"
             /\ tab'[u].status = tab[u].status /\ tab'[u].ref = NoToken
    <3>1. Boot(u)'
      BY <1>2, <2>2 DEF Boot
    <3> QED  BY <1>7, <2>0, <2>2, <3>1
  <2>3. CASE \/ tab'[u].status = "authenticated" /\ tab'[u].ref # NoToken
             \/ tab'[u].status = "unauthenticated" /\ tab'[u].ref = NoToken
    BY <2>3 DEF Agrees
  <2>4. CASE call[i].op # "boot" /\ UNCHANGED tab
    <3>1. Agrees(u)' <=> Agrees(u)
      BY <2>4 DEF Agrees
    <3>2. Boot(u) \/ Agrees(u) \/ u \in overtaken
      BY <1>0 DEF TabInv, TabMatches
    <3>3. Boot(u)' \/ Agrees(u)' \/ u \in overtaken'
      BY <1>0, <1>5, <2>4, <3>1, <3>2, OvertakenAfter
    <3>4. tab[u].status = "loading" => Boot(u)
      BY <1>0 DEF TabInv, LoadingBoots
    <3>5. Loading(u)' =>
             tab'[u].ref # NoToken \/ tab'[u].status = "unauthenticated" \/ u \in overtaken'
      BY <1>0, <1>4, <2>4, OvertakenAfter DEF TabInv, ProfileAwaited
    <3> QED  BY <1>5, <2>0, <2>4, <3>3, <3>4, <3>5
  <2> QED  BY <1>0, <2>1, <2>2, <2>3, <2>4, TabsAfterReceive
<1>9. TabMatches'
  BY <1>3, <1>8, OvertakenAfter DEF TabInv, TabMatches
<1>10. ProfileAwaited'
  BY <1>0, <1>3, <1>8, OvertakenAfter DEF TabInv, ProfileAwaited
<1>11. LoadingBoots'
  BY <1>0, <1>3, <1>8 DEF TabInv, LoadingBoots
<1>12. OneBoot'
  BY <1>0, <1>1, <1>2 DEF TabInv, OneBoot
<1>13. ClosedIdle'
  BY <1>0, <1>1, <1>2, <1>8 DEF TabInv, ClosedIdle
<1> QED  BY <1>9, <1>10, <1>11, <1>12, <1>13

LEMMA TabNext == TabInv /\ [HistoryNext]_historyVars => TabInv'
<1> SUFFICES ASSUME TabInv, [HistoryNext]_historyVars PROVE TabInv'
  OBVIOUS
<1>1. CASE HistoryNext
  <2>1. TypeOK' /\ CallForm'
    BY <1>1, SessionsStep DEF HistoryNext, TabInv
  <2>2. TabMatches' /\ ProfileAwaited' /\ LoadingBoots' /\ OneBoot' /\ ClosedIdle'
    BY <1>1, TabUntouched, TabStarts, TabReceives DEF HistoryNext
  <2> QED  BY <2>1, <2>2 DEF TabInv
<1>2. CASE UNCHANGED historyVars
  <2>1. TypeOK' /\ CallForm'
    BY <1>2, SessionsStep DEF historyVars, TabInv
  <2> QED
    BY <1>2, <2>1 DEF historyVars, vars, browserVars, TabInv, TabMatches, ProfileAwaited,
       LoadingBoots, OneBoot, ClosedIdle, Boot, Agrees, Loading, InProgress
<1> QED  BY <1>1, <1>2

\* A tab with no call in progress shows a page exactly if it holds a token; only
\* a profile that comes after a sign-out spoils that.
THEOREM TabsSettle == HistorySpec => []TabSettled
<1>1. TabInv => TabSettled
  BY DEF TabInv, TabMatches, LoadingBoots, Boot, TabSettled, InProgress
<1> QED  BY <1>1, TabInit, TabNext, PTL DEF HistorySpec

-------------------------------------------------------------------------------
(* The cookie.                                                             *)

\* InStep with another cookie in the browser.
InStepWith(token) ==
    token # NoToken /\ ~Expired(token) => Live(token.sid) /\ session[token.sid].token = token

\* The cookie the browser will have once the call is answered.
Brings(c) == IF c.reply.cookie = Keep THEN cookie ELSE c.reply.cookie

\* An exchange on its own carries the browser's cookie, does not find it
\* superseded, and its answer brings one the session accepts.
Accepted(c) ==
    /\ c.pc # "revoke"
    /\ c.pc # "answered" => InStep
    /\ c.pc = "sent" => c.token \in {cookie, NoToken}
    /\ c.pc = "rotate" => c.token = cookie
    /\ c.pc = "answered" => InStepWith(Brings(c))

CookieInv ==
    ~torn => /\ Quiet => InStep
             /\ \A i, j \in Exchanging : i = j
             /\ \A i \in Exchanging : Accepted(call[i])

\* At most one exchange, as long as nothing tears.
LEMMA OneExchange ==
    ASSUME Track, ~torn', ~(Quiet' /\ InStep')
    PROVE  /\ ~torn /\ lost' = lost /\ account' = account
           /\ \A i, j \in Exchanging' : i = j
<1>1. ~torn /\ ~TornNow
  BY DEF Track
<1>2. lost' = lost /\ account' = account /\ ~(Cardinality(Exchanging') > 1)
  BY <1>1 DEF TornNow
<1> DEFINE S == Exchanging'
<1>3. S \in SUBSET Calls
  BY DEF Exchanging
<1> HIDE DEF S
<1>4. IsFiniteSet(S) /\ Cardinality(S) \in Nat
  BY <1>3, FS_Subset, FS_CardinalityType, SessionsAssumption
<1>5. ASSUME NEW i \in S, NEW j \in S PROVE i = j
  <2>1. Cardinality(S) # 0 /\ (Cardinality(S) = 1 => \E x : S = {x})
    BY <1>4, <1>5, FS_EmptySet, FS_Singleton
  <2>2. Cardinality(S) = 1
    BY <1>2, <1>4, <2>1 DEF S
  <2> QED  BY <1>5, <2>1, <2>2
<1> QED  BY <1>1, <1>2, <1>5 DEF S

\* An answer whose cookie the session accepts.
LEMMA AnswerAccepted ==
    ASSUME TypeOK, NEW i \in Calls, NEW reply, Answer(i, reply), NEW token,
           token = IF reply.cookie = Keep THEN cookie' ELSE reply.cookie,
           InStepWith(token)'
    PROVE  Accepted(call[i])'
<1>1. call'[i].pc = "answered" /\ call'[i].reply = reply
  BY AnswerAfter
<1>2. Brings(call[i])' = token
  BY <1>1 DEF Brings
<1> QED  BY <1>1, <1>2 DEF Accepted, InStepWith

\* An exchange that is sent or on its way to the next step.
LEMMA StepAccepted ==
    ASSUME NEW i \in Calls, InStep', call'[i].pc \in {"sent", "rotate", "open"},
           call'[i].pc = "sent" => call'[i].token \in {cookie', NoToken},
           call'[i].pc = "rotate" => call'[i].token = cookie'
    PROVE  Accepted(call[i])'
  BY DEF Accepted

\* The handler of the one exchange.
LEMMA HandlerAccepted ==
    ASSUME TypeOK, CallForm, CookieInv, ~torn, NEW i \in Exchanging, ServerStep(i)
    PROVE  Accepted(call[i])' /\ UNCHANGED cookie
<1>0. /\ i \in Calls /\ call[i] \in Call /\ Form(call[i], logins) /\ Accepted(call[i])
      /\ call[i].at \in {"refresh", "login", "logout"} /\ call[i].pc # "idle"
      /\ session \in [Sids -> Row \cup {NoSession}] /\ now \in Nat
      /\ cookie \in Refresh \cup {NoToken}
  BY NowType DEF Exchanging, CookieInv, TypeOK, CallForm, Row
<1>1. UNCHANGED <<now, cookie>>
  BY DEF ServerStep, Guarded, GuardRefuses, Handled,
         RefreshMissing, RefreshLookup, RefreshRevoke, RefreshRotate,
         LoginVerify, LoginOpen, Logout, browserVars
<1>2. ~Guarded(i) /\ ~RefreshRevoke(i)
  BY <1>0 DEF Guarded, GuardRefuses, Handled, Handles, RefreshRevoke, Accepted
<1>3. \A status : Plain(status).cookie = Keep
  BY DEF Plain
<1>4. ASSUME InStep', NEW status, Answer(i, Plain(status)) PROVE Accepted(call[i])'
  <2>1. \A token : token = cookie' => InStepWith(token)'
    BY <1>4 DEF InStep, Usable, InStepWith
  <2> QED  BY <1>0, <1>3, <1>4, <2>1, AnswerAccepted
<1>5. CASE RefreshMissing(i)
  <2>1. InStep /\ UNCHANGED session
    BY <1>0, <1>5 DEF RefreshMissing, Handles, Accepted, serverVars
  <2>2. InStep'
    BY <1>1, <2>1 DEF InStep, Usable, Live, Expired
  <2> QED  BY <1>1, <1>4, <1>5, <2>2 DEF RefreshMissing
<1>6. CASE RefreshLookup(i)
  <2>1. InStep /\ UNCHANGED session /\ call[i].token = cookie /\ call[i].token # NoToken
    BY <1>0, <1>6 DEF RefreshLookup, Handles, Accepted, serverVars
  <2>2. InStep'
    BY <1>1, <2>1 DEF InStep, Usable, Live, Expired
  <2>3. CASE RefusedAtOnce(call[i].token)
    <3>1. Answer(i, Refused) /\ Refused.cookie = NoToken /\ NoToken # Keep
      BY <1>6, <2>3, Distinct DEF RefreshLookup, Refused
    <3>2. InStepWith(NoToken)'
      BY DEF InStepWith
    <3> QED  BY <1>0, <1>1, <3>1, <3>2, AnswerAccepted
  <2>4. CASE ~RefusedAtOnce(call[i].token)
    <3>1. session[cookie.sid].token = cookie
      BY <2>1, <2>4 DEF RefusedAtOnce, InStep, Usable
    <3>2. Proceed(i, "rotate")
      BY <1>6, <2>1, <2>4, <3>1 DEF RefreshLookup
    <3>3. call'[i].pc = "rotate" /\ call'[i].token = cookie'
      BY <1>0, <1>1, <2>1, <3>2, ProceedAfter
    <3> QED  BY <1>0, <1>1, <2>2, <3>3, StepAccepted
  <2> QED  BY <2>3, <2>4
<1>7. ASSUME NEW token, token \in Refresh, session' = Upserted(token.sid, token),
             Answer(i, Granted(token))
      PROVE  Accepted(call[i])'
  <2>1. Granted(token).cookie = token /\ token # Keep /\ token.sid \in Sids
    BY <1>7, Distinct DEF Granted, Refresh
  <2>2. session'[token.sid] = [token |-> token, revoked |-> FALSE]
    BY <1>0, <1>7, <2>1 DEF Upserted
  <2>3. session'[token.sid] \in Row
    BY <1>7, <2>2 DEF Row
  <2>4. session'[token.sid] # NoSession
    BY <2>3, SessionsAssumption DEF Row
  <2>5. InStepWith(token)'
    BY <2>2, <2>4 DEF InStepWith, Live, Expired
  <2> QED  BY <1>0, <1>7, <2>1, <2>5, AnswerAccepted
<1>8. CASE RefreshRotate(i)
  <2> DEFINE token == [sid |-> call[i].token.sid, iat |-> now]
  <2>1. token \in Refresh /\ token.sid = call[i].token.sid
    BY <1>0, <1>8 DEF RefreshRotate, Form, Call, Refresh
  <2>2. InStep
    BY <1>0, <1>8 DEF RefreshRotate, Accepted
  <2>3. \/ session' = Upserted(token.sid, token) /\ Answer(i, Granted(token))
        \/ UNCHANGED session /\ Answer(i, Plain(500))
    BY <1>8 DEF RefreshRotate
  <2>4. UNCHANGED session => InStep'
    BY <1>1, <2>2 DEF InStep, Usable, Live, Expired
  <2> HIDE DEF token
  <2> QED  BY <1>1, <1>4, <1>7, <2>1, <2>3, <2>4
<1>9. CASE LoginVerify(i)
  <2>1. InStep
    BY <1>0, <1>9 DEF LoginVerify, Handles, Accepted
  <2>2. ASSUME session' = [s \in Sids |-> IF Stale(s) THEN NoSession ELSE session[s]]
        PROVE  InStep'
    <3> SUFFICES ASSUME Usable'
                 PROVE  (Live(cookie.sid) /\ session[cookie.sid].token = cookie)'
      BY DEF InStep
    <3>1. cookie # NoToken /\ ~Expired(cookie) /\ Usable
      BY <1>1 DEF Usable, Expired
    <3>2. cookie.sid \in Sids /\ Live(cookie.sid) /\ session[cookie.sid].token = cookie
      BY <1>0, <2>1, <3>1 DEF InStep, Refresh
    <3>3. session'[cookie.sid] = session[cookie.sid]
      BY <2>2, <3>2, NowType, SessionsAssumption DEF Stale, Live, Expired, Refresh, TypeOK
    <3> QED  BY <1>1, <3>2, <3>3 DEF Live, Expired
  <2>3. UNCHANGED session => InStep'
    BY <1>1, <2>1 DEF InStep, Usable, Live, Expired
  <2>4. InStep'
    BY <1>9, <2>2, <2>3 DEF LoginVerify
  <2>5. CASE Proceed(i, "open")
    BY <1>0, <1>1, <2>4, <2>5, ProceedAfter, StepAccepted
  <2> QED  BY <1>1, <1>4, <1>9, <2>4, <2>5 DEF LoginVerify
<1>10. CASE LoginOpen(i)
  <2> DEFINE token == [sid |-> call[i].sid, iat |-> now]
  <2>1. token \in Refresh
    BY <1>0, <1>10, SessionsAssumption DEF LoginOpen, Form, Refresh, Sids, TypeOK
  <2>2. InStep
    BY <1>0, <1>10 DEF LoginOpen, Accepted
  <2>3. \/ session' = Upserted(token.sid, token) /\ Answer(i, Granted(token))
        \/ UNCHANGED session /\ Answer(i, Plain(500))
    BY <1>10 DEF LoginOpen
  <2>4. UNCHANGED session => InStep'
    BY <1>1, <2>2 DEF InStep, Usable, Live, Expired
  <2> HIDE DEF token
  <2> QED  BY <1>1, <1>4, <1>7, <2>1, <2>3, <2>4
<1>11. CASE Logout(i)
  <2> DEFINE reply == [Refused EXCEPT !.status = 200]
  <2>1. Answer(i, reply)
    BY <1>11 DEF Logout
  <2>2. reply.cookie = NoToken /\ NoToken # Keep
    BY Distinct DEF Refused
  <2>3. InStepWith(NoToken)'
    BY DEF InStepWith
  <2> HIDE DEF reply
  <2> QED  BY <1>0, <1>1, <2>1, <2>2, <2>3, AnswerAccepted
<1> QED  BY <1>1, <1>2, <1>5, <1>6, <1>8, <1>9, <1>10, <1>11 DEF ServerStep

\* Time alone tears nothing.
LEMMA InStepKept ==
    ASSUME TypeOK, NEW token \in Refresh \cup {NoToken}, InStepWith(token),
           UNCHANGED session, now' \in {now, now + 1}
    PROVE  InStepWith(token)'
<1> SUFFICES ASSUME token # NoToken, ~(token.iat + RefreshTtl <= now')
             PROVE  (Live(token.sid) /\ session[token.sid].token = token)'
  BY DEF InStepWith, Expired
<1>1. token.iat \in Nat /\ RefreshTtl \in Nat /\ now \in Nat
  BY NowType, SessionsAssumption DEF Refresh
<1>2. ~Expired(token)
  BY <1>1 DEF Expired
<1>3. Live(token.sid) /\ session[token.sid].token = token
  BY <1>2 DEF InStepWith
<1> QED  BY <1>3 DEF Live, Expired

LEMMA CookieKept ==
    ASSUME TypeOK, CallForm, UNCHANGED <<session, cookie>>, now' \in {now, now + 1}
    PROVE  /\ InStep => InStep'
           /\ \A i \in Exchanging : Accepted(call[i]) /\ call'[i] = call[i] => Accepted(call[i])'
<1>1. cookie \in Refresh \cup {NoToken}
  BY DEF TypeOK
<1>2. InStep => InStep'
  <2>1. InStep => InStepWith(cookie)
    BY DEF InStep, Usable, InStepWith
  <2>2. \A token : token = cookie /\ InStep => InStepWith(token)'
    BY <1>1, <2>1, InStepKept
  <2>3. (\A token : token = cookie => InStepWith(token)') => InStep'
    BY DEF InStep, Usable, InStepWith
  <2> QED  BY <2>2, <2>3
<1>3. ASSUME NEW i \in Exchanging, Accepted(call[i]), call'[i] = call[i],
             call[i].pc = "answered"
      PROVE  InStepWith(Brings(call[i]))'
  <2>1. call[i].reply \in Reply
    BY <1>3 DEF Exchanging, TypeOK, CallForm, Form, Call
  <2>2. Brings(call[i]) \in Refresh \cup {NoToken}
    BY <1>1, <2>1 DEF Brings, Reply
  <2>3. \A token : token = Brings(call[i]) => InStepWith(token)'
    BY <1>3, <2>2, InStepKept DEF Accepted
  <2>4. Brings(call[i])' = Brings(call[i])
    BY <1>3 DEF Brings
  <2> QED  BY <2>3, <2>4 DEF InStepWith
<1> QED  BY <1>2, <1>3 DEF Accepted

\* A handler keeps its call, and what the call is after.
LEMMA HandlerAfter ==
    ASSUME TypeOK, NEW i \in Calls, ServerStep(i)
    PROVE  call[i].pc # "idle" /\ call'[i].pc # "idle" /\ call'[i].at = call[i].at
<1>1. /\ call[i].pc # "idle"
      /\ \/ \E reply : Answer(i, reply)
         \/ \E pc \in {"rotate", "revoke", "open"} : Proceed(i, pc)
  BY DEF ServerStep, Guarded, GuardRefuses, Handled,
         RefreshMissing, RefreshLookup, RefreshRevoke, RefreshRotate,
         LoginVerify, LoginOpen, Logout, Handles
<1> QED  BY <1>1, AnswerAfter, ProceedAfter

\* What a tab sends carries the cookie it then has.
LEMMA CookieSent ==
    ASSUME TypeOK, NEW i \in Calls, Receive(i) \/ \E t \in Tabs : Start(i, t)
    PROVE  \/ call'[i].pc = "idle"
           \/ /\ call'[i].pc = "sent" /\ call'[i].token \in {cookie', NoToken}
              /\ Receive(i) /\ call[i].at \in {"refresh", "login", "logout"} => call'[i].at = "retry"
<1>0. /\ {"boot", "api", "renew", "login", "logout"} \subseteq Ops
      /\ logins \in 0 .. MaxLogins /\ MaxLogins \in Nat
      /\ SentCookie \in {cookie', NoToken}
  BY SessionsAssumption DEF Ops, TypeOK, SentCookie
<1>1. CASE Receive(i)
  <2>1. \/ Done(i)
        \/ Send(i, "refresh") /\ call[i].at \in {"me", "api"}
        \/ Send(i, "retry")
    BY <1>1 DEF Receive, ProfileLoaded, ProfileFailed, Refreshed, RefreshFailed, FetchRefused,
       FetchEnds, SignedIn, SignInFailed, SignedOut, Retry, Arrived, Arrives
  <2>2. ASSUME NEW at, Send(i, at)
        PROVE  call'[i].pc = "sent" /\ call'[i].token \in {cookie', NoToken} /\ call'[i].at = at
    BY <1>0, <2>2, SendAfter
  <2> QED  BY <2>1, <2>2, DoneAfter
<1>2. ASSUME NEW t \in Tabs, Start(i, t)
      PROVE  ~Receive(i) /\ call'[i].pc = "sent" /\ call'[i].token \in {cookie', NoToken}
  <2>1. \E op \in Ops, at \in Stages, sid \in 0 .. MaxLogins : Begin(i, t, op, at, sid)
    <3>1. CASE Open(i, t)
      BY <1>0, <3>1 DEF Open, Stages
    <3>2. CASE Fetch(i, t) \/ Renew(i, t) \/ SignOut(i, t)
      BY <1>0, <3>2 DEF Fetch, Renew, SignOut, Use, Stages
    <3>3. CASE SignIn(i, t)
      <4>1. Begin(i, t, "login", "login", logins + 1) /\ logins + 1 \in 0 .. MaxLogins
        BY <1>0, <3>3 DEF SignIn
      <4> QED  BY <1>0, <4>1 DEF Stages
    <3> QED  BY <1>2, <3>1, <3>2, <3>3 DEF Start
  <2>2. call'[i].pc = "sent" /\ call'[i].token \in {cookie', NoToken}
    BY <1>0, <2>1, BeginAfter
  <2>3. ~Receive(i)
    BY <1>2, StartAfter, ReceiveAfter
  <2> QED  BY <2>2, <2>3
<1> QED  BY <1>1, <1>2

\* A call that was no exchange, and at most becomes one.
LEMMA CookieBegins ==
    ASSUME TypeOK, CallForm, CookieInv, ~torn, NEW i \in Calls \ Exchanging,
           UNCHANGED <<now, session, cookie>>,
           \A j \in Calls \ {i} : call'[j] = call[j],
           i \in Exchanging' => call'[i].pc = "sent" /\ call'[i].token \in {cookie', NoToken},
           \A j, k \in Exchanging' : j = k
    PROVE  CookieInv'
<1>1. CASE i \in Exchanging'
  <2>1. Quiet
    BY <1>1 DEF Quiet, Exchanging
  <2>2. InStep'
    BY <2>1, CookieKept DEF CookieInv
  <2>3. Accepted(call[i])'
    BY <1>1, <2>2, StepAccepted
  <2>4. \A j \in Exchanging' : j = i
    BY <1>1
  <2> QED  BY <2>2, <2>3, <2>4 DEF CookieInv
<1>2. CASE i \notin Exchanging'
  <2>1. Exchanging' = Exchanging /\ (Quiet' <=> Quiet)
    BY <1>2 DEF Exchanging, Quiet
  <2>2. \A j \in Exchanging : Accepted(call[j])'
    BY CookieKept DEF CookieInv, Exchanging
  <2> QED  BY <2>1, <2>2, CookieKept DEF CookieInv
<1> QED  BY <1>1, <1>2

LEMMA CookieReceives ==
    ASSUME TypeOK, CallForm, CookieInv, ~torn, NEW i \in Calls, Receive(i),
           \A j, k \in Exchanging' : j = k
    PROVE  CookieInv'
<1>1. /\ call[i] \in Call /\ Form(call[i], logins) /\ call[i].pc = "answered"
      /\ UNCHANGED <<now, session>> /\ cookie' = Brings(call[i])
      /\ \A j \in Calls \ {i} : call'[j] = call[j]
  <2>1. PICK at : Arrives(i, at)
    BY DEF Receive, ProfileLoaded, ProfileFailed, Refreshed, RefreshFailed, FetchRefused,
           FetchEnds, SignedIn, SignInFailed, SignedOut, Arrived
  <2>2. call[i].pc = "answered" /\ UNCHANGED <<now, session>> /\ cookie' = Brings(call[i])
    BY <2>1 DEF Arrives, serverVars, Brings
  <2> QED  BY <2>1, <2>2, ArrivesType, CallsApart
<1>2. CASE i \in Exchanging
  <2>1. InStepWith(Brings(call[i])) /\ \A j \in Exchanging : j = i
    BY <1>1, <1>2 DEF CookieInv, Accepted
  <2>2. InStep'
    BY <1>1, <2>1 DEF InStep, Usable, InStepWith, Live, Expired
  <2>3. Exchanging' = {}
    BY <1>1, <1>2, <2>1, CookieSent DEF Exchanging
  <2> QED  BY <2>2, <2>3 DEF CookieInv, Quiet
<1>3. CASE i \notin Exchanging
  <2>1. call[i].at \in {"me", "api", "retry"}
    BY <1>1, <1>3 DEF Exchanging, Call, Stages
  <2>2. cookie' = cookie
    BY <1>1, <2>1 DEF Form, Brings
  <2>3. i \in Exchanging' => call'[i].pc = "sent" /\ call'[i].token \in {cookie', NoToken}
    BY CookieSent DEF Exchanging
  <2> QED  BY <1>1, <1>3, <2>2, <2>3, CookieBegins
<1> QED  BY <1>2, <1>3

LEMMA CookieStep ==
    ASSUME TypeOK, CallForm, CookieInv, Next, Track
    PROVE  CookieInv'
<1>1. CASE torn' \/ (Quiet' /\ InStep')
  BY <1>1 DEF CookieInv, Quiet
<1>2. CASE ~torn' /\ ~(Quiet' /\ InStep')
  <2>0. /\ ~torn /\ lost' = lost /\ account' = account
        /\ \A i, j \in Exchanging' : i = j
    BY <1>2, OneExchange
  <2>1. CASE Tick
    <3>1. UNCHANGED <<session, cookie, call>> /\ now' \in {now, now + 1}
      BY <2>1 DEF Tick, serverVars, browserVars
    <3>2. Exchanging' = Exchanging /\ (Quiet' <=> Quiet)
      BY <3>1 DEF Exchanging, Quiet
    <3> QED  BY <2>0, <3>1, <3>2, CookieKept DEF CookieInv
  <2>2. ~RemoveAccount
    BY <2>0 DEF RemoveAccount
  <2>3. \A i \in Calls : ~Lose(i)
    BY <2>0, SessionsAssumption DEF Lose, TypeOK
  <2>4. ASSUME NEW i \in Calls, ServerStep(i) PROVE CookieInv'
    <3>1. /\ \A j \in Calls \ {i} : call'[j] = call[j]
          /\ call[i].pc # "idle" /\ call'[i].pc # "idle" /\ call'[i].at = call[i].at
      BY <2>4, CallsApart, HandlerAfter
    <3>2. Exchanging' = Exchanging
      BY <3>1 DEF Exchanging
    <3>3. CASE i \in Exchanging
      <4>1. Accepted(call[i])'
        BY <2>0, <2>4, <3>3, HandlerAccepted
      <4> QED  BY <2>0, <3>2, <3>3, <4>1 DEF CookieInv, Quiet
    <3>4. CASE i \notin Exchanging
      <4>1. ~(call[i].at \in {"refresh", "login", "logout"}) /\ Form(call[i], logins)
        BY <3>1, <3>4 DEF Exchanging, CallForm
      <4>2. Guarded(i)
        BY <2>4, <4>1 DEF ServerStep, RefreshMissing, RefreshLookup, RefreshRevoke, RefreshRotate,
           LoginVerify, LoginOpen, Logout, Handles, Form
      <4>3. UNCHANGED <<now, session, cookie>>
        BY <4>2 DEF Guarded, GuardRefuses, Handled, serverVars, browserVars
      <4> QED  BY <2>0, <3>1, <3>2, <3>4, <4>3, CookieBegins
    <3> QED  BY <3>3, <3>4
  <2>5. ASSUME NEW i \in Calls, Receive(i) PROVE CookieInv'
    BY <2>0, <2>5, CookieReceives
  <2>6. ASSUME NEW i \in Calls, NEW t \in Tabs, Start(i, t) PROVE CookieInv'
    <3>1. /\ UNCHANGED <<now, session, cookie>> /\ i \notin Exchanging
          /\ \A j \in Calls \ {i} : call'[j] = call[j]
      BY <2>6, StartAfter, CallsApart DEF serverVars, Exchanging
    <3>2. i \in Exchanging' => call'[i].pc = "sent" /\ call'[i].token \in {cookie', NoToken}
      BY <2>6, CookieSent DEF Exchanging
    <3> QED  BY <2>0, <3>1, <3>2, CookieBegins
  <2> QED  BY <2>1, <2>2, <2>3, <2>4, <2>5, <2>6 DEF Next
<1> QED  BY <1>1, <1>2

LEMMA CookieNext ==
    TypeOK /\ CallForm /\ CookieInv /\ [HistoryNext]_historyVars => CookieInv'
<1> SUFFICES ASSUME TypeOK, CallForm, CookieInv, [HistoryNext]_historyVars PROVE CookieInv'
  OBVIOUS
<1>1. CASE HistoryNext
  BY <1>1, CookieStep DEF HistoryNext
<1>2. CASE UNCHANGED historyVars
  BY <1>2 DEF historyVars, vars, serverVars, browserVars, CookieInv, Quiet, Exchanging, InStep,
     Usable, Live, Expired, Accepted, InStepWith, Brings
<1> QED  BY <1>1, <1>2

LEMMA CookieInit == HistoryInit => CookieInv
<1> SUFFICES ASSUME HistoryInit PROVE CookieInv
  OBVIOUS
<1>1. Exchanging = {}
  BY DEF HistoryInit, Init, Exchanging, IdleCall
<1>2. InStep
  <2> SUFFICES ASSUME Usable PROVE Live(cookie.sid) /\ session[cookie.sid].token = cookie
    BY DEF InStep
  <2>1. logins = 1 /\ cookie = [sid |-> 1, iat |-> 0] /\ 1 \in Sids
    BY SessionsAssumption DEF HistoryInit, Init, Usable, Sids
  <2>2. session[1] = [token |-> cookie, revoked |-> FALSE]
    BY <2>1 DEF HistoryInit, Init
  <2>3. session[1] # NoSession
    <3>1. session[1] \in Row
      BY <2>1, <2>2 DEF Row, Refresh
    <3> QED  BY <3>1, SessionsAssumption DEF Row
  <2> QED  BY <2>1, <2>2, <2>3 DEF Live, Usable
<1> QED  BY <1>1, <1>2 DEF CookieInv

\* While no exchange is in progress, the cookie in the browser is the one its
\* session accepts: only a lost call, two exchanges at once or the removal of the
\* account can leave the browser with a cookie that is refused.
THEOREM CookiesAccepted == HistorySpec => []CookieAccepted
<1>1. HistoryInit => TypeOK /\ CallForm /\ CookieInv
  BY SessionsInit, CookieInit DEF HistoryInit
<1>2. TypeOK /\ CallForm /\ [HistoryNext]_historyVars => TypeOK' /\ CallForm'
  <2>1. [HistoryNext]_historyVars => [Next]_vars
    BY DEF HistoryNext, historyVars
  <2> QED  BY <2>1, SessionsStep
<1>3. CookieInv => CookieAccepted
  BY DEF CookieInv, CookieAccepted
<1> QED  BY <1>1, <1>2, <1>3, CookieNext, PTL DEF HistorySpec
=================================================================================
