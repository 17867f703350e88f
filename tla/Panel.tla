------------------------------- MODULE Panel -------------------------------
(***************************************************************************)
(* The Clients page of the web panel: a table of clients, the card and the *)
(* QR dialog of the client selected in it.  Its handlers and effects are   *)
(* tasks that await answers of the API while the user goes on; React       *)
(* renders their state updates later, and runs the effects after that.     *)
(*                                                                         *)
(* A query stands for the search text with the page number.  Only which    *)
(* client the state is about is kept, not the client's data.               *)
(***************************************************************************)
EXTENDS Naturals, FiniteSets

CONSTANTS
    Clients,
    Own,        \* clients this administrator may manage and see the configs of
    Queries,
    Home,       \* no search text, first page
    Matching,   \* the clients the API lists for a query
    Filters,    \* the status filters, as the sets of clients they let through
    Slots,      \* bound on the tasks of the page in flight at once
    MaxClicks,  \* bound on what the user does
    None, Waiting, Failed

ASSUME PanelAssumption ==
    /\ Own \subseteq Clients /\ Home \in Queries
    /\ Matching \in [Queries -> SUBSET Clients]
    /\ Filters \subseteq SUBSET Clients /\ Clients \in Filters
    /\ MaxClicks \in Nat
    /\ None \notin Clients \cup Queries \cup Slots
    /\ Waiting # Failed /\ \A listed \in SUBSET Clients : listed \notin {Waiting, Failed}

VARIABLES
    exists,       \* clients the server has
    search, deferred, url, filter, items, isLoading,
    selected, bundle, form, isClientCardOpen, isQrOpen, qrImage,
    drawing,      \* the client whose QR code is being drawn
    selectedClientId, isClientCardOpenRef,
    listRequest,    \* slot of the latest list request, for listRequestIdRef
    detailRequest,  \* slot of the latest request for details, for detailRequestIdRef
    task,
    due,          \* effects whose dependencies changed since they last ran
    clicks

queryVars  == <<search, deferred, url, filter>>
cardVars   == <<selected, bundle, form, isClientCardOpen>>
qrVars     == <<isQrOpen, qrImage, drawing>>
refVars    == <<selectedClientId, isClientCardOpenRef, detailRequest>>
listVars   == <<items, isLoading, listRequest>>
vars == <<exists, queryVars, listVars, cardVars, qrVars, refVars, task, due, clicks>>

Maybe == Clients \cup {None}

\* What a task does, the step it awaits, the client it changes or prefers, the
\* client whose details it loads, the query its closure holds, and the answer.
Task == [op : {"load", "open", "qr", "copy", "change", "save", "delete", "create", "import"},
         pc : {"idle", "send", "list", "detail", "bundle"},
         prefer : Maybe, detail : Maybe, query : Queries,
         reply : {Waiting, Failed} \cup SUBSET Clients]
Idle == [op |-> "load", pc |-> "idle", prefer |-> None, detail |-> None,
         query |-> Home, reply |-> Waiting]

TypeOK ==
    /\ exists \subseteq Clients /\ items \subseteq Clients
    /\ search \in Queries /\ deferred \in Queries \cup {None} /\ url \in Queries
    /\ filter \in Filters
    /\ {selected, bundle, form, qrImage, drawing, selectedClientId} \subseteq Maybe
    /\ {isClientCardOpen, isClientCardOpenRef, isQrOpen, isLoading} \subseteq BOOLEAN
    /\ {listRequest, detailRequest} \subseteq Slots \cup {None}
    /\ task \in [Slots -> Task]
    /\ due \subseteq {"card", "selection", "url", "qr"}
    /\ clicks \in 0..MaxClicks

\* The page is mounted with the query of its URL; the first effects are due.
Init ==
    /\ exists \in SUBSET Clients
    /\ search \in Queries /\ url = search /\ deferred = None
    /\ filter = Clients /\ items = {} /\ isLoading = TRUE
    /\ selected = None /\ bundle = None /\ form = None /\ isClientCardOpen = FALSE
    /\ isQrOpen = FALSE /\ qrImage = None /\ drawing = None
    /\ selectedClientId = None /\ isClientCardOpenRef = FALSE
    /\ listRequest = None /\ detailRequest = None
    /\ task = [s \in Slots |-> Idle]
    /\ due = {"card", "selection", "url", "qr"}
    /\ clicks = 0

filteredClients == items \cap filter

-------------------------------------------------------------------------------
(***************************************************************************)
(* Steps the handlers share.                                               *)
(***************************************************************************)
Await(s, t) == task' = [task EXCEPT ![s] = [t EXCEPT !.reply = Waiting]]

\* The task is over.  Nobody else holds its request number, so that of a list
\* is forgotten, and the latest of the list's requests ends the loading.
Finish(s) ==
    /\ task' = [task EXCEPT ![s] = Idle]
    /\ isLoading' = (isLoading /\ listRequest # s)
    /\ listRequest' = IF listRequest = s THEN None ELSE listRequest
ForgetDetail(s) == detailRequest' = IF detailRequest = s THEN None ELSE detailRequest

\* clearSelectedClient: a request for details in flight will not be shown.
ClearSelectedClient ==
    /\ detailRequest' = None
    /\ selectedClientId' = None
    /\ selected' = None /\ bundle' = None /\ form' = None /\ isClientCardOpen' = FALSE

\* loadClientDetails, up to its first answer.
AskDetails(s, t, c) ==
    /\ Await(s, [t EXCEPT !.pc = "detail", !.detail = c])
    /\ detailRequest' = s
    /\ selectedClientId' = c

\* A slip: a list being read is not asked for again.
AskListOnce(s, t) ==
    /\ Await(s, [t EXCEPT !.pc = "list"])
    /\ listRequest' = IF listRequest = None THEN s ELSE listRequest
    /\ isLoading' = TRUE

\* loadClients, up to its answer.
AskList(s, t) ==
    /\ Await(s, [t EXCEPT !.pc = "list"])
    /\ listRequest' = s
    /\ isLoading' = TRUE

-------------------------------------------------------------------------------
(***************************************************************************)
(* What the user does, on a page that is rendered; a rendering with another*)
(* query may be due.                                                       *)
(***************************************************************************)
Click ==
    /\ due \subseteq {"url"}
    /\ clicks < MaxClicks
    /\ clicks' = clicks + 1
    /\ UNCHANGED exists

Type(q) ==
    /\ Click
    /\ search' = q
    /\ UNCHANGED <<deferred, url, filter, listVars, cardVars, qrVars, refVars, task>>

\* The search box above the page leads to the page's own URL.
SearchFromTopbar(q) ==
    /\ Click
    /\ url' = q
    /\ UNCHANGED <<search, deferred, filter, listVars, cardVars, qrVars, refVars, task>>

SetStatusFilter(f) ==
    /\ Click
    /\ filter' = f
    /\ UNCHANGED <<search, deferred, url, listVars, cardVars, qrVars, refVars, task>>

\* A free slot for a new task.
Free(s) == task[s].pc = "idle" /\ \A r \in Slots : r < s => task[r].pc # "idle"

\* A row is opened, or its config copied or shown; the last two by the owner.
Ask(s, op, c) ==
    /\ Click
    /\ Free(s)
    /\ c \in filteredClients
    /\ op \in {"copy", "qr"} => c \in Own
    /\ AskDetails(s, [Idle EXCEPT !.op = op], c)
    /\ UNCHANGED <<queryVars, listVars, cardVars, qrVars, isClientCardOpenRef>>

\* A request that changes clients, from a row, the card or a form.
Send(s, t) ==
    /\ Click
    /\ Free(s)
    /\ Await(s, [t EXCEPT !.pc = "send", !.query = search])
    /\ UNCHANGED <<queryVars, listVars, cardVars, qrVars, refVars>>

Running(op) == \E s \in Slots : task[s].pc # "idle" /\ task[s].op = op

\* The client of a row with its actions, or of the open card.
Managed(c) == c \in Own /\ (c \in filteredClients \/ (isClientCardOpen /\ c = selected))

\* handleToggleClient, handleExtendClient, handleResetTraffic.
Change(s, c) == Managed(c) /\ Send(s, [Idle EXCEPT !.op = "change", !.prefer = c])
Delete(s, c) == Managed(c) /\ Send(s, [Idle EXCEPT !.op = "delete", !.detail = c])
Save(s) ==
    /\ isClientCardOpen /\ selected \in Own
    /\ ~Running("save")
    /\ Send(s, [Idle EXCEPT !.op = "save", !.prefer = selected])
Create(s) == ~Running("create") /\ Send(s, [Idle EXCEPT !.op = "create"])
Import(s) == ~Running("import") /\ Send(s, [Idle EXCEPT !.op = "import"])

CloseClientCard ==
    /\ Click
    /\ isClientCardOpen
    /\ isQrOpen' = FALSE
    /\ ClearSelectedClient
    /\ UNCHANGED <<queryVars, listVars, qrImage, drawing, isClientCardOpenRef, task>>

ToggleQr ==
    /\ Click
    /\ isQrOpen \/ (isClientCardOpen /\ selected \in Own)
    /\ isQrOpen' = ~isQrOpen
    /\ UNCHANGED <<queryVars, listVars, cardVars, qrImage, drawing, refVars, task>>

UserStep ==
    \/ \E q \in Queries : Type(q) \/ SearchFromTopbar(q)
    \/ \E f \in Filters : SetStatusFilter(f)
    \/ \E s \in Slots, c \in Clients :
          \/ \E op \in {"open", "qr", "copy"} : Ask(s, op, c)
          \/ Change(s, c) \/ Delete(s, c)
    \/ \E s \in Slots : Save(s) \/ Create(s) \/ Import(s)
    \/ CloseClientCard \/ ToggleQr

-------------------------------------------------------------------------------
(***************************************************************************)
(* The server, and the network between.                                    *)
(***************************************************************************)
Answer(s, reply) == task' = [task EXCEPT ![s].reply = reply]
ServerUnchanged == UNCHANGED <<queryVars, listVars, cardVars, qrVars, refVars, clicks>>

AnswerList(s) ==
    /\ task[s].pc = "list" /\ task[s].reply = Waiting
    /\ Answer(s, Matching[task[s].query] \cap exists)
    /\ UNCHANGED exists /\ ServerUnchanged

\* A slip: a client that is gone is answered with null.
AnswerNull(s) ==
    /\ task[s].pc \in {"detail", "bundle"} /\ task[s].reply = Waiting
    /\ Answer(s, IF task[s].detail \in exists THEN {task[s].detail} ELSE {None})
    /\ UNCHANGED exists /\ ServerUnchanged

AnswerDetail(s) ==
    /\ task[s].pc \in {"detail", "bundle"} /\ task[s].reply = Waiting
    /\ Answer(s, IF task[s].detail \in exists THEN {task[s].detail} ELSE Failed)
    /\ UNCHANGED exists /\ ServerUnchanged

\* A change of a client that is gone is refused.
AnswerChange(s) ==
    LET t == task[s] IN
    /\ t.pc = "send" /\ t.reply = Waiting
    /\ \/ /\ t.op \in {"change", "save"}
          /\ Answer(s, IF t.prefer \in exists THEN {} ELSE Failed)
          /\ UNCHANGED exists
       \/ /\ t.op = "delete"
          /\ Answer(s, IF t.detail \in exists THEN {} ELSE Failed)
          /\ exists' = exists \ {t.detail}
       \/ /\ t.op \in {"create", "import"}
          /\ \E c \in Clients \ exists : exists' = exists \cup {c}
          /\ Answer(s, {})
    /\ ServerUnchanged

\* The request or its answer is lost, or the server fails.
Lose(s) ==
    /\ task[s].pc # "idle" /\ task[s].reply # Failed
    /\ Answer(s, Failed)
    /\ UNCHANGED exists /\ ServerUnchanged

Answered(s) == task[s].pc # "idle" /\ task[s].reply # Waiting

-------------------------------------------------------------------------------
(***************************************************************************)
(* The page goes on with an answer.                                        *)
(***************************************************************************)
\* A change was made: the list is read again, with the query the handler's
\* closure holds; a deletion closes the QR code, a creation resets the search.
Sent(s) ==
    LET t == task[s] IN
    /\ t.pc = "send" /\ Answered(s) /\ t.reply # Failed
    /\ AskList(s, [t EXCEPT !.query = IF t.op = "create" THEN Home ELSE @])
    /\ isQrOpen' = (isQrOpen /\ t.op # "delete")
    /\ search' = IF t.op = "create" THEN Home ELSE search
    /\ UNCHANGED <<exists, clicks, deferred, url, filter, items, cardVars, qrImage, drawing, refVars>>

\* A handler whose request failed, or whose list was superseded or failed, ends.
GivenUp(s) ==
    /\ Answered(s)
    /\ \/ task[s].pc = "send" /\ task[s].reply = Failed
       \/ task[s].pc = "list" /\ (listRequest # s \/ task[s].reply = Failed)
    /\ Finish(s)
    /\ UNCHANGED <<exists, clicks, queryVars, items, cardVars, qrVars, refVars>>

\* The list is shown.  The selected client, or the one the handler was about,
\* is loaded again for an open card, and dropped when it is not listed.
Listed(s) ==
    LET t == task[s]
        current == IF t.prefer # None THEN t.prefer ELSE selectedClientId
    IN
    /\ t.pc = "list" /\ listRequest = s /\ t.reply \notin {Waiting, Failed}
    /\ items' = t.reply
    /\ IF current # None /\ current \in t.reply /\ isClientCardOpenRef
       THEN /\ AskDetails(s, t, current)
            /\ UNCHANGED <<isLoading, listRequest, cardVars>>
       ELSE /\ Finish(s)
            /\ IF t.reply = {} \/ (current # None /\ current \notin t.reply)
               THEN ClearSelectedClient
               ELSE UNCHANGED <<selectedClientId, detailRequest, cardVars>>
    /\ UNCHANGED <<exists, clicks, queryVars, qrVars, isClientCardOpenRef>>

\* A slip: the number of a request is not compared.
NeverSuperseded(s) == task[s].pc = "idle"
Superseded(s) == detailRequest # s \/ selectedClientId # task[s].detail

\* An answer about a client that is no longer asked for is dropped, and an
\* error ends the task.
DetailGivenUp(s) ==
    /\ task[s].pc \in {"detail", "bundle"} /\ Answered(s)
    /\ task[s].reply = Failed \/ Superseded(s)
    /\ Finish(s)
    /\ ForgetDetail(s)
    /\ UNCHANGED <<exists, clicks, queryVars, items, cardVars, qrVars,
                   selectedClientId, isClientCardOpenRef>>

\* A slip: the client is shown before its config has come.
ShownBeforeConfig(s) ==
    /\ task[s].pc = "detail" /\ task[s].reply \notin {Waiting, Failed} /\ ~Superseded(s)
    /\ task[s].detail \in Own
    /\ Await(s, [task[s] EXCEPT !.pc = "bundle"])
    /\ selected' = task[s].detail /\ form' = task[s].detail
    /\ UNCHANGED <<exists, clicks, queryVars, listVars, bundle, isClientCardOpen, qrVars, refVars>>

\* The config is asked for only if this administrator may see it.
DetailLoaded(s) ==
    /\ task[s].pc = "detail" /\ task[s].reply \notin {Waiting, Failed} /\ ~Superseded(s)
    /\ task[s].detail \in Own
    /\ Await(s, [task[s] EXCEPT !.pc = "bundle"])
    /\ UNCHANGED <<exists, clicks, queryVars, listVars, cardVars, qrVars, refVars>>

\* Everything of the client is set at once; the caller opens card or QR code.
Shown(s) ==
    LET t == task[s] IN
    /\ t.reply \notin {Waiting, Failed} /\ ~Superseded(s)
    /\ t.pc = "bundle" \/ (t.pc = "detail" /\ t.detail \notin Own)
    /\ selected' = t.detail /\ form' = t.detail
    /\ bundle' = IF t.pc = "bundle" THEN t.detail ELSE None
    /\ isClientCardOpen' = (isClientCardOpen \/ t.op = "open")
    /\ isQrOpen' = (isQrOpen \/ (t.op = "qr" /\ t.pc = "bundle"))
    /\ Finish(s)
    /\ ForgetDetail(s)
    /\ UNCHANGED <<exists, clicks, queryVars, items, qrImage, drawing,
                   selectedClientId, isClientCardOpenRef>>

QrDrawn ==
    /\ drawing # None
    /\ qrImage' \in {drawing, None}
    /\ drawing' = None
    /\ UNCHANGED <<exists, clicks, queryVars, listVars, cardVars, isQrOpen, refVars, task>>

ServerStep(s) == AnswerList(s) \/ AnswerDetail(s) \/ AnswerChange(s) \/ Lose(s)
TaskStep(s) == \/ Sent(s) \/ GivenUp(s) \/ Listed(s)
               \/ DetailGivenUp(s) \/ DetailLoaded(s) \/ Shown(s)

-------------------------------------------------------------------------------
(***************************************************************************)
(* React renders the state and runs the effects that depend on what        *)
(* changed.  Both effects on the URL see the values of that rendering.     *)
(***************************************************************************)
SyncUrl ==
    IF "url" \in due
    THEN /\ url' = search
         /\ search' = url
    ELSE UNCHANGED <<search, url>>

DropHidden ==
    IF /\ "selection" \in due
       /\ filteredClients = {} \/ (selected # None /\ selected \notin filteredClients)
    THEN ClearSelectedClient
    ELSE UNCHANGED <<detailRequest, selectedClientId, cardVars>>

RenderQr ==
    IF "qr" \notin due THEN UNCHANGED <<qrImage, drawing>>
    ELSE IF isQrOpen /\ bundle # None THEN drawing' = bundle /\ UNCHANGED qrImage
    ELSE qrImage' = None /\ drawing' = None

Commit ==
    /\ due # {}
    /\ isClientCardOpenRef' = isClientCardOpen
    /\ SyncUrl /\ DropHidden /\ RenderQr
    /\ UNCHANGED <<exists, clicks, deferred, filter, listVars, isQrOpen, task>>

\* The deferred rendering with a new query is committed: the list is read.
LoadDeferred(s) ==
    /\ "url" \notin due
    /\ deferred # search
    /\ deferred' = search
    /\ Free(s)
    /\ AskList(s, [Idle EXCEPT !.query = search])
    /\ UNCHANGED <<exists, clicks, search, url, filter, items, cardVars, qrVars, refVars>>

Changed ==
    {e \in {"card", "selection", "url", "qr"} :
        \/ e = "card" /\ isClientCardOpen' # isClientCardOpen
        \/ e = "selection" /\ <<items, filter, selected>>' # <<items, filter, selected>>
        \/ e = "url" /\ <<search, url>>' # <<search, url>>
        \/ e = "qr" /\ <<bundle, isQrOpen>>' # <<bundle, isQrOpen>>}

Next ==
    \/ /\ UserStep \/ QrDrawn \/ \E s \in Slots : ServerStep(s) \/ TaskStep(s) \/ LoadDeferred(s)
       /\ due' = due \cup Changed
    \/ Commit /\ due' = Changed

Spec == Init /\ [][Next]_vars

-------------------------------------------------------------------------------
\* Card, edit form, config and QR code are always of one client: a form filled
\* in for one client is never saved to another, nor a code shown under the
\* wrong name once it is drawn, whichever answers overtake each other
\* (loadClientDetails, the QR effect).
CardOfOneClient ==
    /\ form = selected
    /\ bundle = IF selected \in Own THEN selected ELSE None
    /\ isClientCardOpen => selected # None
    /\ "qr" \notin due /\ drawing = None => qrImage \in {None, bundle}
===============================================================================
