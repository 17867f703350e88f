------------------------------ MODULE PanelProofs ------------------------------
(***************************************************************************)
(* Theorems about the two pages of Pages, for any clients, queries, tasks  *)
(* in flight, clicks, and for any usage tables, snapshots and edits.       *)
(***************************************************************************)
EXTENDS Pages, TLAPS
LOCAL INSTANCE FiniteSetsExt
LOCAL INSTANCE Functions
LOCAL INSTANCE Folds
LOCAL INSTANCE FiniteSetTheorems

-------------------------------------------------------------------------------
(* The tasks of the Clients page.                                          *)

\* Only for a client is anything loaded, its config only for an owner.
Form(t) ==
    /\ t \in Task
    /\ t.pc \in {"detail", "bundle"} => t.detail \in Clients
    /\ t.pc = "bundle" => t.detail \in Own

TaskForm == \A s \in Slots : Form(task[s])

LEMMA Apart ==
    /\ None \notin Clients /\ None \notin Queries /\ None \notin Slots /\ None \in Maybe
    /\ Clients \subseteq Maybe
    /\ Waiting # Failed
    /\ \A listed \in SUBSET Clients : listed # Waiting /\ listed # Failed
  BY PanelAssumption DEF Maybe

LEMMA IdleForm == Form(Idle) /\ Idle.pc = "idle" /\ Idle.reply = Waiting
<1>1. Idle \in Task
  BY Apart, PanelAssumption DEF Idle, Task
<1> QED  BY <1>1 DEF Form, Idle

\* One task is replaced.
LEMMA OneTask ==
    ASSUME TypeOK, TaskForm, NEW s \in Slots, NEW rec, Form(rec),
           task' = [task EXCEPT ![s] = rec]
    PROVE  /\ task' \in [Slots -> Task] /\ TaskForm'
           /\ task'[s] = rec /\ \A r \in Slots \ {s} : task'[r] = task[r]
  BY DEF TypeOK, Form, TaskForm

\* What the records written by the steps the handlers share look like.
LEMMA AwaitedForm ==
    ASSUME NEW t \in Task, NEW pc \in {"send", "list"}
    PROVE  LET rec == [[t EXCEPT !.pc = pc] EXCEPT !.reply = Waiting] IN
           /\ Form(rec) /\ rec.pc = pc /\ rec.reply = Waiting /\ rec.query = t.query
           /\ rec.detail = t.detail /\ rec.op = t.op
<1> DEFINE rec == [[t EXCEPT !.pc = pc] EXCEPT !.reply = Waiting]
<1>1. rec \in Task /\ rec.pc = pc /\ rec.reply = Waiting /\ rec.query = t.query
      /\ rec.detail = t.detail /\ rec.op = t.op
  BY DEF Task
<1> QED  BY <1>1 DEF Form

LEMMA AskedForm ==
    ASSUME NEW t \in Task, NEW c \in Clients
    PROVE  LET rec == [[t EXCEPT !.pc = "detail", !.detail = c] EXCEPT !.reply = Waiting] IN
           Form(rec) /\ rec.pc = "detail" /\ rec.reply = Waiting /\ rec.detail = c
<1> DEFINE rec == [[t EXCEPT !.pc = "detail", !.detail = c] EXCEPT !.reply = Waiting]
<1>1. rec \in Task /\ rec.pc = "detail" /\ rec.reply = Waiting /\ rec.detail = c
  BY Apart DEF Task
<1> QED  BY <1>1 DEF Form

LEMMA AnsweredForm ==
    ASSUME NEW t, Form(t), NEW reply \in {Waiting, Failed} \cup SUBSET Clients
    PROVE  LET rec == [t EXCEPT !.reply = reply] IN
           /\ Form(rec) /\ rec.pc = t.pc /\ rec.reply = reply /\ rec.query = t.query
           /\ rec.detail = t.detail
<1> DEFINE rec == [t EXCEPT !.reply = reply]
<1>1. rec \in Task /\ rec.pc = t.pc /\ rec.reply = reply /\ rec.query = t.query
      /\ rec.detail = t.detail
  BY DEF Task, Form
<1> QED  BY <1>1 DEF Form

-------------------------------------------------------------------------------
(* Types.                                                                  *)

\* All but the tasks and the effects that are due.
RestTyped ==
    /\ exists \subseteq Clients /\ items \subseteq Clients
    /\ search \in Queries /\ deferred \in Queries \cup {None} /\ url \in Queries
    /\ filter \in Filters
    /\ {selected, bundle, form, qrImage, drawing, selectedClientId} \subseteq Maybe
    /\ {isClientCardOpen, isClientCardOpenRef, isQrOpen, isLoading} \subseteq BOOLEAN
    /\ {listRequest, detailRequest} \subseteq Slots \cup {None}
    /\ clicks \in 0..MaxClicks

LEMMA ClickTyped == TypeOK /\ Click => clicks' \in 0..MaxClicks /\ exists' = exists
  BY PanelAssumption DEF TypeOK, Click

LEMMA UserTyped == TypeOK /\ TaskForm /\ UserStep => RestTyped' /\ task' \in [Slots -> Task] /\ TaskForm'
<1> SUFFICES ASSUME TypeOK, TaskForm, UserStep
             PROVE  RestTyped' /\ task' \in [Slots -> Task] /\ TaskForm'
  OBVIOUS
<1>0. /\ search \in Queries /\ selected \in Maybe /\ Idle \in Task /\ items \subseteq Clients
      /\ task \in [Slots -> Task]
  BY IdleForm DEF TypeOK, Form
<1>1. ASSUME NEW q \in Queries, Type(q) \/ SearchFromTopbar(q)
      PROVE  RestTyped' /\ task' = task
  BY <1>1, ClickTyped DEF Type, SearchFromTopbar, TypeOK, RestTyped, listVars, cardVars, qrVars, refVars
<1>2. ASSUME NEW f \in Filters, SetStatusFilter(f)
      PROVE  RestTyped' /\ task' = task
  BY <1>2, ClickTyped DEF SetStatusFilter, TypeOK, RestTyped, listVars, cardVars, qrVars, refVars
<1>3. ASSUME NEW s \in Slots, NEW c \in Clients, NEW op \in {"open", "qr", "copy"}, Ask(s, op, c)
      PROVE  RestTyped' /\ task' \in [Slots -> Task] /\ TaskForm'
  <2>1. [Idle EXCEPT !.op = op] \in Task
    BY <1>0 DEF Task
  <2>2. /\ task' \in [Slots -> Task] /\ TaskForm'
    <3>1. task' = [task EXCEPT ![s] = [[[Idle EXCEPT !.op = op] EXCEPT !.pc = "detail", !.detail = c]
                                                                EXCEPT !.reply = Waiting]]
      BY <1>3 DEF Ask, AskDetails, Await
    <3> QED  BY <2>1, <3>1, AskedForm, OneTask
  <2>3. RestTyped'
    BY <1>3, ClickTyped, Apart DEF Ask, AskDetails, TypeOK, RestTyped, queryVars, listVars, cardVars, qrVars
  <2> QED  BY <2>2, <2>3
<1>4. ASSUME NEW s \in Slots, NEW t \in Task, Send(s, t)
      PROVE  RestTyped' /\ task' \in [Slots -> Task] /\ TaskForm'
  <2>1. /\ task' \in [Slots -> Task] /\ TaskForm'
    <3> DEFINE u == [t EXCEPT !.query = search]
    <3>1. u \in Task /\ [t EXCEPT !.pc = "send", !.query = search] = [u EXCEPT !.pc = "send"]
      BY <1>0 DEF Task
    <3>2. task' = [task EXCEPT ![s] = [[u EXCEPT !.pc = "send"] EXCEPT !.reply = Waiting]]
      BY <1>4, <3>1 DEF Send, Await
    <3> HIDE DEF u
    <3> QED  BY <3>1, <3>2, AwaitedForm, OneTask
  <2>2. RestTyped'
    BY <1>4, ClickTyped DEF Send, TypeOK, RestTyped, queryVars, listVars, cardVars, qrVars, refVars
  <2> QED  BY <2>1, <2>2
<1>5. ASSUME NEW s \in Slots,
             \/ \E c \in Clients : Change(s, c) \/ Delete(s, c)
             \/ Save(s) \/ Create(s) \/ Import(s)
      PROVE  \E t \in Task : Send(s, t)
  <2>1. \A c \in Maybe : /\ [Idle EXCEPT !.op = "change", !.prefer = c] \in Task
                         /\ [Idle EXCEPT !.op = "delete", !.detail = c] \in Task
                         /\ [Idle EXCEPT !.op = "save", !.prefer = c] \in Task
                         /\ [Idle EXCEPT !.op = "create"] \in Task
                         /\ [Idle EXCEPT !.op = "import"] \in Task
    BY <1>0 DEF Task
  <2> QED  BY <1>0, <1>5, <2>1, Apart DEF Change, Delete, Save, Create, Import
<1>6. CASE CloseClientCard
  <2>1. RestTyped'
    BY <1>6, ClickTyped, Apart DEF CloseClientCard, ClearSelectedClient, TypeOK, RestTyped, queryVars, listVars
  <2> QED  BY <1>0, <1>6, <2>1 DEF CloseClientCard, TaskForm
<1>7. CASE ToggleQr
  <2>1. RestTyped'
    BY <1>7, ClickTyped DEF ToggleQr, TypeOK, RestTyped, queryVars, listVars, cardVars, refVars
  <2> QED  BY <1>0, <1>7, <2>1 DEF ToggleQr, TaskForm
<1> QED
  BY <1>0, <1>1, <1>2, <1>3, <1>4, <1>5, <1>6, <1>7 DEF UserStep, TaskForm

\* The server answers one task.
LEMMA ServerAfter ==
    ASSUME TypeOK, TaskForm, NEW s \in Slots, ServerStep(s)
    PROVE  /\ task' \in [Slots -> Task] /\ TaskForm'
           /\ task[s].pc # "idle"
           /\ \E reply \in {Failed} \cup SUBSET Clients : task' = [task EXCEPT ![s].reply = reply]
           /\ exists' \subseteq Clients /\ ServerUnchanged
<1>0. task[s] \in Task /\ Form(task[s]) /\ exists \subseteq Clients
  BY DEF TypeOK, TaskForm
<1>1. ASSUME NEW reply \in {Failed} \cup SUBSET Clients, Answer(s, reply)
      PROVE  task' \in [Slots -> Task] /\ TaskForm'
  <2>1. task' = [task EXCEPT ![s] = [task[s] EXCEPT !.reply = reply]]
    BY <1>1 DEF Answer
  <2> QED  BY <1>0, <2>1, AnsweredForm, OneTask
<1>2. CASE AnswerList(s)
  BY <1>0, <1>1, <1>2 DEF AnswerList, Answer
<1>3. CASE AnswerDetail(s)
  <2>1. {task[s].detail} \in SUBSET Clients
    BY <1>0, <1>3 DEF AnswerDetail, Form
  <2> QED  BY <1>0, <1>1, <1>3, <2>1 DEF AnswerDetail, Answer
<1>4. CASE AnswerChange(s)
  <2>1. \E reply \in {Failed} \cup SUBSET Clients : Answer(s, reply)
    BY <1>4 DEF AnswerChange
  <2>2. exists' \subseteq Clients
    BY <1>0, <1>4 DEF AnswerChange
  <2> QED  BY <1>1, <1>4, <2>1, <2>2 DEF AnswerChange, Answer
<1>5. CASE Lose(s)
  BY <1>0, <1>1, <1>5 DEF Lose, Answer
<1> QED  BY <1>2, <1>3, <1>4, <1>5 DEF ServerStep

\* The tasks a step of the page itself leaves.
LEMMA StepTasks ==
    ASSUME TypeOK, TaskForm, NEW s \in Slots, TaskStep(s) \/ LoadDeferred(s)
    PROVE  task' \in [Slots -> Task] /\ TaskForm' /\ \A r \in Slots \ {s} : task'[r] = task[r]
<1>0. task[s] \in Task /\ Form(task[s]) /\ selectedClientId \in Maybe
  BY DEF TypeOK, TaskForm
<1>1. ASSUME Finish(s) PROVE task' \in [Slots -> Task] /\ TaskForm' /\ \A r \in Slots \ {s} : task'[r] = task[r]
  BY <1>1, IdleForm, OneTask DEF Finish
<1>2. ASSUME NEW t \in Task, AskList(s, t)
      PROVE  task' \in [Slots -> Task] /\ TaskForm' /\ \A r \in Slots \ {s} : task'[r] = task[r]
  <2>1. task' = [task EXCEPT ![s] = [[t EXCEPT !.pc = "list"] EXCEPT !.reply = Waiting]]
    BY <1>2 DEF AskList, Await
  <2> QED  BY <2>1, AwaitedForm, OneTask
<1>3. CASE GivenUp(s) \/ DetailGivenUp(s) \/ Shown(s)
  BY <1>1, <1>3 DEF GivenUp, DetailGivenUp, Shown
<1>4. CASE Sent(s)
  <2>1. [task[s] EXCEPT !.query = IF task[s].op = "create" THEN Home ELSE @] \in Task
    BY <1>0, PanelAssumption DEF Task
  <2> QED  BY <1>2, <1>4, <2>1 DEF Sent
<1>5. CASE LoadDeferred(s)
  <2>1. [Idle EXCEPT !.query = search] \in Task
    BY IdleForm DEF Form, Task, TypeOK
  <2> QED  BY <1>2, <1>5, <2>1 DEF LoadDeferred
<1>6. CASE Listed(s)
  <2>1. CASE Finish(s)
    BY <1>1, <2>1
  <2>2. CASE ~Finish(s)
    <3>1. PICK c \in task[s].reply : AskDetails(s, task[s], c)
      BY <1>6, <2>2 DEF Listed
    <3>2. c \in Clients
      BY <1>0, <1>6, <3>1 DEF Listed, Task
    <3>3. task' = [task EXCEPT ![s] = [[task[s] EXCEPT !.pc = "detail", !.detail = c]
                                                 EXCEPT !.reply = Waiting]]
      BY <3>1 DEF AskDetails, Await
    <3> QED  BY <1>0, <3>2, <3>3, AskedForm, OneTask
  <2> QED  BY <2>1, <2>2
<1>7. CASE DetailLoaded(s)
  <2> DEFINE rec == [[task[s] EXCEPT !.pc = "bundle"] EXCEPT !.reply = Waiting]
  <2>1. rec \in Task /\ rec.pc = "bundle" /\ rec.detail = task[s].detail
    BY <1>0 DEF Task
  <2>2. task[s].detail \in Own /\ task[s].detail \in Clients
    BY <1>7, PanelAssumption DEF DetailLoaded
  <2>3. Form(rec)
    BY <2>1, <2>2 DEF Form
  <2>4. task' = [task EXCEPT ![s] = rec]
    BY <1>7 DEF DetailLoaded, Await
  <2> HIDE DEF rec
  <2> QED  BY <2>3, <2>4, OneTask
<1> QED  BY <1>3, <1>4, <1>5, <1>6, <1>7 DEF TaskStep

LEMMA StepTyped ==
    ASSUME TypeOK, TaskForm, NEW s \in Slots, TaskStep(s) \/ LoadDeferred(s)
    PROVE  RestTyped'
<1>0. task[s] \in Task /\ Form(task[s]) /\ selectedClientId \in Maybe
  BY DEF TypeOK, TaskForm
<1>1. CASE Sent(s) \/ LoadDeferred(s)
  BY <1>1, PanelAssumption DEF Sent, LoadDeferred, AskList, TypeOK, RestTyped, cardVars, qrVars, refVars
<1>2. CASE GivenUp(s)
  BY <1>2 DEF GivenUp, Finish, TypeOK, RestTyped, queryVars, cardVars, qrVars, refVars
<1>3. CASE DetailGivenUp(s)
  BY <1>3 DEF DetailGivenUp, ForgetDetail, Finish, TypeOK, RestTyped, queryVars, cardVars, qrVars
<1>4. CASE DetailLoaded(s)
  BY <1>4 DEF DetailLoaded, TypeOK, RestTyped, queryVars, listVars, cardVars, qrVars, refVars
<1>5. CASE Shown(s)
  <2>1. task[s].detail \in Clients
    BY <1>0, <1>5 DEF Shown, Form
  <2> QED
    BY <1>5, <2>1, Apart DEF Shown, ForgetDetail, Finish, TypeOK, RestTyped, queryVars, qrVars
<1>6. CASE Listed(s)
  <2>1. task[s].reply \subseteq Clients
    BY <1>0, <1>6 DEF Listed, Task
  <2>2. /\ {selected, bundle, form, selectedClientId}' \subseteq Maybe
        /\ isClientCardOpen' \in BOOLEAN /\ isLoading' \in BOOLEAN
        /\ {listRequest, detailRequest}' \subseteq Slots \cup {None}
    BY <1>6, <2>1, Apart DEF Listed, AskDetails, ClearSelectedClient, Finish, TypeOK, cardVars
  <2> QED
    BY <1>6, <2>1, <2>2 DEF Listed, TypeOK, RestTyped, queryVars, qrVars
<1> QED  BY <1>1, <1>2, <1>3, <1>4, <1>5, <1>6 DEF TaskStep

LEMMA CommitTyped == TypeOK /\ TaskForm /\ (Commit \/ QrDrawn)
                     => RestTyped' /\ task' \in [Slots -> Task] /\ TaskForm'
<1> SUFFICES ASSUME TypeOK, TaskForm, Commit \/ QrDrawn
             PROVE  RestTyped' /\ task' = task
  BY DEF TypeOK, TaskForm
<1>1. CASE QrDrawn
  BY <1>1, Apart DEF QrDrawn, TypeOK, RestTyped, queryVars, listVars, cardVars, refVars
<1>2. CASE Commit
  <2>1. {search, url}' \subseteq Queries
    BY <1>2 DEF Commit, SyncUrl, TypeOK
  <2>2. /\ {selected, bundle, form, selectedClientId}' \subseteq Maybe
        /\ isClientCardOpen' \in BOOLEAN /\ detailRequest' \in Slots \cup {None}
    BY <1>2, Apart DEF Commit, DropHidden, ClearSelectedClient, TypeOK, cardVars
  <2>3. {qrImage, drawing}' \subseteq Maybe
    BY <1>2, Apart DEF Commit, RenderQr, TypeOK
  <2> QED
    BY <1>2, <2>1, <2>2, <2>3 DEF Commit, TypeOK, RestTyped, listVars
<1> QED  BY <1>1, <1>2

LEMMA PanelTypeStep == TypeOK /\ TaskForm /\ [Next]_vars => TypeOK' /\ TaskForm'
<1> SUFFICES ASSUME TypeOK, TaskForm, [Next]_vars PROVE TypeOK' /\ TaskForm'
  OBVIOUS
<1>1. CASE UNCHANGED vars
  BY <1>1 DEF vars, queryVars, listVars, cardVars, qrVars, refVars, TypeOK, TaskForm, Form
<1>2. CASE Next
  <2>1. due' \subseteq {"card", "selection", "url", "qr"}
    BY <1>2 DEF Next, Changed, TypeOK
  <2>2. ASSUME NEW s \in Slots, ServerStep(s) PROVE RestTyped' /\ task' \in [Slots -> Task] /\ TaskForm'
    <3>1. /\ task' \in [Slots -> Task] /\ TaskForm'
          /\ exists' \subseteq Clients /\ ServerUnchanged
      BY <2>2, ServerAfter
    <3> QED
      BY <3>1 DEF ServerUnchanged, TypeOK, RestTyped, queryVars, listVars, cardVars, qrVars, refVars
  <2>3. RestTyped' /\ task' \in [Slots -> Task] /\ TaskForm'
    BY <1>2, <2>2, UserTyped, StepTasks, StepTyped, CommitTyped DEF Next
  <2> QED  BY <2>1, <2>3 DEF RestTyped, TypeOK
<1> QED  BY <1>1, <1>2

-------------------------------------------------------------------------------
(* What the steps do to the tasks.                                         *)

Others(s) == \A r \in Slots \ {s} : task'[r] = task[r]

LEMMA FinishAfter ==
    ASSUME TypeOK, TaskForm, NEW s \in Slots, Finish(s)
    PROVE  task'[s].pc = "idle" /\ Others(s)
  BY IdleForm, OneTask DEF Finish, Others

LEMMA AskDetailsAfter ==
    ASSUME TypeOK, TaskForm, NEW s \in Slots, NEW t \in Task, NEW c \in Clients, AskDetails(s, t, c)
    PROVE  /\ task'[s].pc = "detail" /\ task'[s].detail = c /\ Others(s)
           /\ detailRequest' = s /\ selectedClientId' = c
<1> DEFINE rec == [[t EXCEPT !.pc = "detail", !.detail = c] EXCEPT !.reply = Waiting]
<1>1. task' = [task EXCEPT ![s] = rec] /\ detailRequest' = s /\ selectedClientId' = c
  BY DEF AskDetails, Await
<1>2. Form(rec) /\ rec.pc = "detail" /\ rec.detail = c
  BY AskedForm
<1> HIDE DEF rec
<1> QED  BY <1>1, <1>2, OneTask DEF Others

LEMMA AskListAfter ==
    ASSUME TypeOK, TaskForm, NEW s \in Slots, NEW t \in Task, AskList(s, t)
    PROVE  /\ task'[s].pc = "list" /\ task'[s].reply = Waiting /\ task'[s].query = t.query
           /\ Others(s) /\ listRequest' = s /\ isLoading' = TRUE
<1>1. task' = [task EXCEPT ![s] = [[t EXCEPT !.pc = "list"] EXCEPT !.reply = Waiting]]
  BY DEF AskList, Await
<1> QED  BY <1>1, AwaitedForm, OneTask DEF AskList, Others

LEMMA LoadedAfter ==
    ASSUME TypeOK, TaskForm, NEW s \in Slots, DetailLoaded(s)
    PROVE  task'[s].pc = "bundle" /\ task'[s].detail = task[s].detail /\ Others(s)
<1>1. task[s] \in Task /\ task \in [Slots -> Task]
  BY DEF TypeOK
<1>2. task' = [task EXCEPT ![s] = [[task[s] EXCEPT !.pc = "bundle"] EXCEPT !.reply = Waiting]]
  BY DEF DetailLoaded, Await
<1>3. task'[s] = [[task[s] EXCEPT !.pc = "bundle"] EXCEPT !.reply = Waiting]
  BY <1>1, <1>2
<1>4. task'[s].pc = "bundle" /\ task'[s].detail = task[s].detail
  BY <1>1, <1>3 DEF Task
<1> QED  BY <1>1, <1>2, <1>4 DEF Others

LEMMA AnswerAfter ==
    ASSUME TypeOK, TaskForm, NEW s \in Slots, ServerStep(s)
    PROVE  /\ task[s].pc # "idle" /\ task'[s].pc = task[s].pc /\ task'[s].detail = task[s].detail
           /\ task'[s].query = task[s].query /\ task'[s].reply # Waiting
           /\ Others(s)
<1>1. task[s] \in Task /\ Form(task[s])
  BY DEF TypeOK, TaskForm
<1>2. PICK reply \in {Failed} \cup SUBSET Clients : task' = [task EXCEPT ![s] = [task[s] EXCEPT !.reply = reply]]
  BY ServerAfter
<1>3. /\ Form([task[s] EXCEPT !.reply = reply])
      /\ [task[s] EXCEPT !.reply = reply].pc = task[s].pc
      /\ [task[s] EXCEPT !.reply = reply].reply = reply
      /\ [task[s] EXCEPT !.reply = reply].query = task[s].query
      /\ [task[s] EXCEPT !.reply = reply].detail = task[s].detail
  BY <1>1, AnsweredForm
<1> QED  BY <1>2, <1>3, ServerAfter, OneTask, Apart DEF Others

\* What the user does: nothing about tasks, or the selection is cleared, or a
\* request is sent, or a client is asked for.
LEMMA UserAfter ==
    ASSUME TypeOK, TaskForm, UserStep
    PROVE  /\ UNCHANGED <<exists, deferred, listVars, qrImage, drawing>>
           /\ \/ task' = task /\ UNCHANGED <<cardVars, detailRequest, selectedClientId>>
              \/ task' = task /\ ClearSelectedClient
              \/ \E s \in Slots : /\ task[s].pc = "idle" /\ task'[s].pc = "send"
                                  /\ task'[s].reply = Waiting /\ Others(s)
                                  /\ UNCHANGED <<cardVars, detailRequest, selectedClientId>>
              \/ \E s \in Slots, c \in Clients :
                    /\ task[s].pc = "idle" /\ task'[s].pc = "detail" /\ task'[s].detail = c
                    /\ Others(s) /\ detailRequest' = s /\ selectedClientId' = c
                    /\ UNCHANGED cardVars
<1>0. search \in Queries /\ Idle \in Task /\ task \in [Slots -> Task]
  BY IdleForm DEF TypeOK, Form
<1>1. CASE \/ \E q \in Queries : Type(q) \/ SearchFromTopbar(q)
           \/ \E f \in Filters : SetStatusFilter(f)
           \/ ToggleQr
  BY <1>1 DEF Type, SearchFromTopbar, SetStatusFilter, ToggleQr, Click, queryVars, qrVars, refVars
<1>2. CASE CloseClientCard
  BY <1>2 DEF CloseClientCard, Click, queryVars
<1>3. ASSUME NEW s \in Slots, NEW c \in Clients, NEW op \in {"open", "qr", "copy"}, Ask(s, op, c)
      PROVE  /\ UNCHANGED <<exists, deferred, listVars, qrImage, drawing>>
             /\ task[s].pc = "idle" /\ task'[s].pc = "detail" /\ task'[s].detail = c
             /\ Others(s) /\ detailRequest' = s /\ selectedClientId' = c
             /\ UNCHANGED cardVars
  <2>1. [Idle EXCEPT !.op = op] \in Task
    BY <1>0 DEF Task
  <2> QED  BY <1>3, <2>1, AskDetailsAfter DEF Ask, Click, Free, queryVars, qrVars
<1>4. ASSUME NEW s \in Slots, NEW t, t = Idle \/ t.pc = "idle", t \in Task, Send(s, t)
      PROVE  /\ UNCHANGED <<exists, deferred, listVars, qrImage, drawing>>
             /\ task[s].pc = "idle" /\ task'[s].pc = "send"
             /\ task'[s].reply = Waiting /\ Others(s)
             /\ UNCHANGED <<cardVars, detailRequest, selectedClientId>>
  <2> DEFINE u == [t EXCEPT !.query = search]
  <2>1. u \in Task /\ [t EXCEPT !.pc = "send", !.query = search] = [u EXCEPT !.pc = "send"]
    BY <1>0, <1>4 DEF Task
  <2>2. task' = [task EXCEPT ![s] = [[u EXCEPT !.pc = "send"] EXCEPT !.reply = Waiting]]
    BY <1>4, <2>1 DEF Send, Await
  <2> HIDE DEF u
  <2>3. task'[s].pc = "send" /\ task'[s].reply = Waiting /\ Others(s)
    BY <2>1, <2>2, AwaitedForm, OneTask DEF Others
  <2> QED  BY <1>4, <2>3 DEF Send, Click, Free, queryVars, qrVars, refVars
<1>5. ASSUME NEW s \in Slots,
             \/ \E c \in Clients : Change(s, c) \/ Delete(s, c)
             \/ Save(s) \/ Create(s) \/ Import(s)
      PROVE  \E t \in Task : t.pc = "idle" /\ Send(s, t)
  <2>1. ASSUME NEW c \in Maybe, NEW t,
               \/ t = [Idle EXCEPT !.op = "change", !.prefer = c]
               \/ t = [Idle EXCEPT !.op = "delete", !.detail = c]
               \/ t = [Idle EXCEPT !.op = "save", !.prefer = c]
               \/ t = [Idle EXCEPT !.op = "create"]
               \/ t = [Idle EXCEPT !.op = "import"]
        PROVE  t \in Task /\ t.pc = "idle"
    BY <1>0, <2>1, IdleForm DEF Task
  <2>2. selected \in Maybe
    BY DEF TypeOK
  <2> QED  BY <1>5, <2>1, <2>2, Apart DEF Change, Delete, Save, Create, Import
<1> QED  BY <1>1, <1>2, <1>3, <1>4, <1>5 DEF UserStep

\* A list is read.
LEMMA ReadAfter ==
    ASSUME TypeOK, TaskForm, NEW s \in Slots, Sent(s) \/ LoadDeferred(s)
    PROVE  /\ task[s].pc \in {"idle", "send"}
           /\ task'[s].pc = "list" /\ task'[s].reply = Waiting
           /\ Others(s) /\ listRequest' = s /\ isLoading' = TRUE
<1>1. task[s] \in Task /\ search \in Queries
  BY DEF TypeOK
<1>2. CASE Sent(s)
  <2>1. [task[s] EXCEPT !.query = IF task[s].op = "create" THEN Home ELSE @] \in Task
    BY <1>1, PanelAssumption DEF Task
  <2> QED  BY <1>2, <2>1, AskListAfter DEF Sent
<1>3. CASE LoadDeferred(s)
  <2>1. [Idle EXCEPT !.query = search] \in Task
    BY <1>1, IdleForm DEF Form, Task
  <2> QED  BY <1>3, <2>1, AskListAfter DEF LoadDeferred, Free
<1> QED  BY <1>2, <1>3

\* A list is shown: the card is loaded again, or the task ends.
LEMMA ListedAfter ==
    ASSUME TypeOK, TaskForm, NEW s \in Slots, Listed(s)
    PROVE  /\ Others(s) /\ task[s].pc = "list" /\ listRequest = s
           /\ \/ /\ \E c \in Clients : /\ task'[s].pc = "detail" /\ task'[s].detail = c
                                       /\ detailRequest' = s /\ selectedClientId' = c
                 /\ UNCHANGED <<isLoading, listRequest, cardVars>>
              \/ /\ Finish(s) /\ task'[s].pc = "idle"
                 /\ \/ ClearSelectedClient
                    \/ UNCHANGED <<selectedClientId, detailRequest, cardVars>>
<1>1. task[s] \in Task
  BY DEF TypeOK
<1>2. task[s].pc = "list" /\ listRequest = s /\ task[s].reply \notin {Waiting, Failed}
  BY DEF Listed
<1>3. \/ \E c \in task[s].reply : /\ AskDetails(s, task[s], c)
                                 /\ UNCHANGED <<isLoading, listRequest, cardVars>>
      \/ /\ Finish(s)
         /\ \/ ClearSelectedClient
            \/ UNCHANGED <<selectedClientId, detailRequest, cardVars>>
  BY DEF Listed
<1>4. ASSUME NEW c \in task[s].reply, AskDetails(s, task[s], c)
      PROVE  /\ c \in Clients /\ task'[s].pc = "detail" /\ task'[s].detail = c /\ Others(s)
             /\ detailRequest' = s /\ selectedClientId' = c
  <2>1. c \in Clients
    BY <1>1, <1>2 DEF Task
  <2> QED  BY <1>1, <1>4, <2>1, AskDetailsAfter
<1>5. Finish(s) => task'[s].pc = "idle" /\ Others(s)
  BY FinishAfter
<1> QED  BY <1>2, <1>3, <1>4, <1>5

-------------------------------------------------------------------------------
(* The card.                                                               *)

\* The QR code that is drawn, or being drawn, is of the config that is loaded.
CodeForm ==
    "qr" \notin due => /\ drawing \in {None, bundle}
                       /\ drawing = None => qrImage \in {None, bundle}

\* The latest request for details still runs, for the client that is selected,
\* who is the one wanted unless a list has turned the card.
DetailAsked ==
    detailRequest # None =>
      /\ task[detailRequest].pc \in {"detail", "bundle"}
      /\ selectedClientId = task[detailRequest].detail
      /\ selectedClientId = wanted \/ pulled

\* A step that asks for no details, and ends no request for those in flight.
Quiet ==
    /\ UNCHANGED <<cardVars, detailRequest, selectedClientId>>
    /\ \A r \in Slots : task'[r].pc = "detail" => task[r].pc = "detail"
    /\ \A r \in Slots : r = detailRequest /\ task[r].pc \in {"detail", "bundle"}
                           => task'[r].pc \in {"detail", "bundle"} /\ task'[r].detail = task[r].detail

\* Details are asked for by task s, which was at pc.
DetailsFrom(s, c, pc) ==
    /\ task[s].pc = pc /\ task'[s].pc = "detail" /\ task'[s].detail = c
    /\ Others(s) /\ detailRequest' = s /\ selectedClientId' = c
    /\ UNCHANGED cardVars

\* What a step does to the card and to the request for its details.
CardStep ==
    \/ Quiet
    \/ ClearSelectedClient
    \/ \E s \in Slots, c \in Clients : DetailsFrom(s, c, "idle") \/ DetailsFrom(s, c, "list")
    \/ \E s \in Slots : /\ DetailGivenUp(s) /\ s = detailRequest
                        /\ task'[s].pc = "idle" /\ Others(s)
    \/ \E s \in Slots : Shown(s) /\ task'[s].pc = "idle" /\ Others(s)

LEMMA CardSteps ==
    ASSUME TypeOK, TaskForm, Next
    PROVE  CardStep
<1>1. CASE UserStep
  <2>1. CASE UNCHANGED <<task, cardVars, detailRequest, selectedClientId>>
    BY <2>1 DEF CardStep, Quiet
  <2>2. CASE \E s \in Slots : /\ task[s].pc = "idle" /\ task'[s].pc = "send" /\ Others(s)
                              /\ UNCHANGED <<cardVars, detailRequest, selectedClientId>>
    BY <2>2 DEF CardStep, Quiet, Others
  <2> QED  BY <1>1, <2>1, <2>2, UserAfter DEF CardStep, DetailsFrom
<1>2. CASE QrDrawn \/ Commit
  BY <1>2 DEF QrDrawn, Commit, DropHidden, CardStep, Quiet, refVars
<1>3. ASSUME NEW s \in Slots, ServerStep(s) PROVE CardStep
  <2>1. /\ task'[s].pc = task[s].pc /\ task'[s].detail = task[s].detail /\ Others(s)
        /\ ServerUnchanged
    BY <1>3, AnswerAfter, ServerAfter
  <2> QED  BY <2>1 DEF ServerUnchanged, refVars, CardStep, Quiet, Others
<1>4. ASSUME NEW s \in Slots, Sent(s) \/ LoadDeferred(s) PROVE CardStep
  <2>1. task[s].pc \in {"idle", "send"} /\ task'[s].pc = "list" /\ Others(s)
    BY <1>4, ReadAfter
  <2> QED  BY <1>4, <2>1 DEF Sent, LoadDeferred, refVars, CardStep, Quiet, Others
<1>5. ASSUME NEW s \in Slots, GivenUp(s) PROVE CardStep
  <2>1. task[s].pc \in {"send", "list"} /\ task'[s].pc = "idle" /\ Others(s)
    BY <1>5, FinishAfter DEF GivenUp
  <2> QED  BY <1>5, <2>1 DEF GivenUp, refVars, CardStep, Quiet, Others
<1>6. ASSUME NEW s \in Slots, Listed(s) PROVE CardStep
  <2>1. CASE \E c \in Clients : DetailsFrom(s, c, "list")
    BY <2>1 DEF CardStep
  <2>2. CASE ClearSelectedClient
    BY <2>2 DEF CardStep
  <2>3. CASE task'[s].pc = "idle" /\ UNCHANGED <<selectedClientId, detailRequest, cardVars>>
    BY <1>6, <2>3, ListedAfter DEF CardStep, Quiet, Others
  <2> QED  BY <1>6, <2>1, <2>2, <2>3, ListedAfter DEF DetailsFrom
<1>7. ASSUME NEW s \in Slots, DetailGivenUp(s) PROVE CardStep
  <2>1. task'[s].pc = "idle" /\ Others(s)
    BY <1>7, FinishAfter DEF DetailGivenUp
  <2>2. CASE s = detailRequest
    BY <1>7, <2>1, <2>2 DEF CardStep
  <2>3. CASE s # detailRequest
    BY <1>7, <2>1, <2>3 DEF DetailGivenUp, ForgetDetail, CardStep, Quiet, Others
  <2> QED  BY <2>2, <2>3
<1>8. ASSUME NEW s \in Slots, DetailLoaded(s) PROVE CardStep
  <2>1. task'[s].pc = "bundle" /\ task'[s].detail = task[s].detail /\ Others(s)
    BY <1>8, LoadedAfter
  <2> QED  BY <1>8, <2>1 DEF DetailLoaded, refVars, CardStep, Quiet, Others
<1>9. ASSUME NEW s \in Slots, Shown(s) PROVE CardStep
  <2>1. task'[s].pc = "idle" /\ Others(s)
    BY <1>9, FinishAfter DEF Shown
  <2> QED  BY <1>9, <2>1 DEF CardStep
<1> QED  BY <1>1, <1>2, <1>3, <1>4, <1>5, <1>6, <1>7, <1>8, <1>9 DEF Next, TaskStep

LEMMA CardOfOneStep ==
    ASSUME TypeOK, TaskForm, CardOfOneClient, CodeForm, Next
    PROVE  CardOfOneClient' /\ CodeForm'
<1> USE Apart, PanelAssumption
<1> DEFINE Card == /\ form = selected
                   /\ bundle = IF selected \in Own THEN selected ELSE None
                   /\ isClientCardOpen => selected # None
<1>1. Card'
  <2>1. CASE UNCHANGED cardVars
    BY <2>1 DEF cardVars, CardOfOneClient
  <2>2. CASE ClearSelectedClient
    BY <2>2 DEF ClearSelectedClient
  <2>3. ASSUME NEW s \in Slots, Shown(s) PROVE Card'
    <3>1. /\ task[s].detail \in Clients
          /\ task[s].pc = "bundle" => task[s].detail \in Own
      BY <2>3 DEF Shown, TaskForm, Form
    <3> QED  BY <2>3, <3>1 DEF Shown
  <2> QED  BY <2>1, <2>2, <2>3, CardSteps DEF CardStep, Quiet, DetailsFrom, DetailGivenUp
<1>2. CodeForm'
  <2>1. CASE Commit /\ due' = Changed
    BY <2>1 DEF Commit, RenderQr, Changed, CodeForm
  <2>2. CASE QrDrawn /\ due' = due \cup Changed
    <3>1. "qr" \notin due' => "qr" \notin due /\ bundle' = bundle
      BY <2>2 DEF Changed
    <3> QED  BY <2>2, <3>1 DEF QrDrawn, CodeForm
  <2>3. CASE UNCHANGED <<qrImage, drawing>> /\ due' = due \cup Changed
    BY <2>3 DEF Changed, CodeForm
  <2>4. ASSUME NEW s \in Slots, ServerStep(s) \/ TaskStep(s) \/ LoadDeferred(s)
        PROVE  UNCHANGED <<qrImage, drawing>>
    BY <2>4, ServerAfter DEF ServerUnchanged, qrVars, TaskStep, Sent, GivenUp, Listed,
       DetailGivenUp, DetailLoaded, Shown, LoadDeferred
  <2> QED  BY <2>1, <2>2, <2>3, <2>4, UserAfter DEF Next
<1> QED  BY <1>1, <1>2 DEF CardOfOneClient, CodeForm

\* What the history remembers of a step.
LEMMA WantedAfter ==
    ASSUME TrackHistory, ~CardCloses
    PROVE  /\ ~AskFails /\ (\A c \in Clients : ~Asked(c)) => wanted' = wanted
           /\ AskFails /\ (\A c \in Clients : ~Asked(c)) => wanted' = selected
           /\ \A c \in Clients : ~AskFails /\ (\A b \in Clients : Asked(b) <=> b = c)
                                   => wanted' = c
           /\ (\A c \in Clients : ~Asked(c)) => (pulled \/ Pulls => pulled')
<1>1. ~AskFails /\ (\A c \in Clients : ~Asked(c)) => wanted' = wanted
  BY Zenon DEF TrackHistory
<1>2. AskFails /\ (\A c \in Clients : ~Asked(c)) => wanted' = selected
  BY Zenon DEF TrackHistory
<1>3. ASSUME ~AskFails, NEW c \in Clients, \A b \in Clients : Asked(b) <=> b = c
      PROVE  wanted' = c
  <2>1. wanted' = CHOOSE b \in Clients : Asked(b)
    BY <1>3, Zenon DEF TrackHistory
  <2> QED  BY <1>3, <2>1
<1>4. (\A c \in Clients : ~Asked(c)) => (pulled \/ Pulls => pulled')
  BY DEF TrackHistory
<1> QED  BY <1>1, <1>2, <1>3, <1>4

LEMMA CardExplainedStep ==
    ASSUME TypeOK, TaskForm, DetailAsked, CardExplained, Next, TrackHistory
    PROVE  DetailAsked' /\ CardExplained'
<1> USE Apart
<1>0. detailRequest \in Slots \cup {None}
  BY DEF TypeOK
<1>1. CASE Quiet
  <2>1. ~CardCloses /\ ~AskFails /\ \A c \in Clients : ~Asked(c)
    BY <1>1 DEF Quiet, cardVars, CardCloses, AskFails, Asked
  <2>2. wanted' = wanted /\ (pulled => pulled')
    BY <2>1, WantedAfter
  <2>3. DetailAsked'
    BY <1>0, <1>1, <2>2 DEF Quiet, DetailAsked
  <2> QED  BY <1>1, <2>2, <2>3 DEF Quiet, cardVars, CardExplained
<1>2. CASE ClearSelectedClient
  BY <1>2 DEF ClearSelectedClient, DetailAsked, CardExplained
<1>3. ASSUME NEW s \in Slots, NEW c \in Clients, DetailsFrom(s, c, "idle") \/ DetailsFrom(s, c, "list")
      PROVE  DetailAsked' /\ CardExplained'
  <2>1. ~CardCloses /\ ~AskFails
    BY <1>3 DEF DetailsFrom, cardVars, CardCloses, AskFails
  <2>2. CASE DetailsFrom(s, c, "idle")
    <3>1. \A b \in Clients : Asked(b) <=> b = c
      BY <2>2 DEF DetailsFrom, Others, Asked
    <3>2. wanted' = c
      BY <2>1, <3>1, WantedAfter
    <3> QED  BY <2>2, <3>2 DEF DetailsFrom, DetailAsked, CardExplained
  <2>3. CASE DetailsFrom(s, c, "list")
    <3>1. \A b \in Clients : ~Asked(b)
      BY <2>3 DEF DetailsFrom, Others, Asked
    <3>2. c # wanted => Pulls
      BY <2>3 DEF DetailsFrom, Pulls
    <3>3. c = wanted' \/ pulled'
      BY <2>1, <3>1, <3>2, WantedAfter
    <3> QED  BY <2>3, <3>3 DEF DetailsFrom, DetailAsked, CardExplained
  <2> QED  BY <1>3, <2>2, <2>3
<1>4. ASSUME NEW s \in Slots, DetailGivenUp(s), s = detailRequest, task'[s].pc = "idle", Others(s)
      PROVE  DetailAsked' /\ CardExplained'
  <2>1. task[s].reply = Failed
    BY <1>4 DEF DetailGivenUp, Superseded, DetailAsked
  <2>2. detailRequest' = None /\ UNCHANGED cardVars
    BY <1>4 DEF DetailGivenUp, ForgetDetail
  <2>3. ~CardCloses /\ AskFails /\ \A c \in Clients : ~Asked(c)
    BY <1>4, <2>1, <2>2 DEF cardVars, CardCloses, AskFails, Asked, Others
  <2>4. wanted' = selected'
    BY <2>2, <2>3, WantedAfter DEF cardVars
  <2> QED  BY <2>2, <2>4 DEF DetailAsked, CardExplained
<1>5. ASSUME NEW s \in Slots, Shown(s), task'[s].pc = "idle", Others(s)
      PROVE  DetailAsked' /\ CardExplained'
  <2>1. /\ detailRequest = s /\ selectedClientId = task[s].detail /\ task[s].reply # Failed
        /\ detailRequest' = None /\ selected' = task[s].detail
        /\ isClientCardOpen => isClientCardOpen'
    BY <1>5 DEF Shown, Superseded, ForgetDetail
  <2>2. ~CardCloses /\ ~AskFails /\ \A c \in Clients : ~Asked(c)
    BY <1>5, <2>1 DEF CardCloses, AskFails, Asked, Others
  <2>3. wanted' = wanted /\ (pulled => pulled')
    BY <2>2, WantedAfter
  <2> QED  BY <2>1, <2>3 DEF DetailAsked, CardExplained
<1> QED  BY <1>1, <1>2, <1>3, <1>4, <1>5, CardSteps DEF CardStep

-------------------------------------------------------------------------------
(* The list.                                                               *)

\* The page says it is loading while a task of the latest request runs.
LoadingTold ==
    /\ listRequest # None => isLoading /\ task[listRequest].pc \in {"list", "detail", "bundle"}
    /\ listRequest = None /\ deferred # None => ~isLoading

\* The effect on the selection has nothing left to drop.
SelectionListed == "selection" \notin due => selected \in filteredClients \cup {None}

\* A change was answered and its handler has yet to read the list.
Changing == \E s \in Slots : task[s].pc = "send" /\ task[s].reply # Waiting
Current(listed, query) == listed = Matching[query] \cap exists
Reading(r) == r \in Slots /\ listRequest = r /\ task[r].pc = "list"

\* Unless a change is under way, the latest list brings what the server has.
ReplyFresh ==
    \A r \in Slots : cause = {} /\ ~Changing /\ Reading(r)
                       => task[r].reply \in {Waiting, Failed} \/ Current(task[r].reply, task[r].query)

\* Unless a change is under way, a list that is not up to date is being read.
ListComes ==
    cause = {} /\ deferred # None /\ ~Changing /\ ~Current(items, deferred)
      => \E r \in Slots : Reading(r)

LEMMA SelectionStep ==
    ASSUME SelectionListed, Next
    PROVE  SelectionListed'
<1>1. CASE due' = due \cup Changed
  BY <1>1 DEF Changed, SelectionListed, filteredClients
<1>2. CASE Commit
  BY <1>2 DEF Commit, DropHidden, ClearSelectedClient, listVars, cardVars, SelectionListed, filteredClients
<1> QED  BY <1>1, <1>2 DEF Next

\* A step beside the lists: the server's clients and the table are left alone,
\* and so are changes, and the latest list while it is read.
Beside ==
    /\ UNCHANGED <<exists, deferred, items>>
    /\ \A r \in Slots : task[r].pc = "send" => task'[r] = task[r]
    /\ \A r \in Slots : Reading(r) => task'[r] = task[r] /\ listRequest' = r
    /\ \A r \in Slots : Reading(r)' => Reading(r)

\* The loading flag follows the latest request: it is left alone, it starts, or
\* it ends with the task.
LoadingStep ==
    \/ /\ UNCHANGED <<isLoading, listRequest>> /\ deferred' = deferred
       /\ listRequest # None /\ task[listRequest].pc \in {"list", "detail", "bundle"}
            => task'[listRequest].pc \in {"list", "detail", "bundle"}
    \/ \E s \in Slots : isLoading' /\ listRequest' = s /\ task'[s].pc = "list"
    \/ \E s \in Slots : Finish(s) /\ Others(s) /\ deferred' = deferred

LEMMA LoadingAfter ==
    ASSUME TypeOK, LoadingTold, LoadingStep
    PROVE  LoadingTold'
<1> USE Apart
<1>1. listRequest \in Slots \cup {None}
  BY DEF TypeOK
<1>2. CASE UNCHANGED <<isLoading, listRequest>> /\ deferred' = deferred
           /\ (listRequest # None /\ task[listRequest].pc \in {"list", "detail", "bundle"}
                 => task'[listRequest].pc \in {"list", "detail", "bundle"})
  BY <1>1, <1>2 DEF LoadingTold
<1>3. CASE \E s \in Slots : isLoading' /\ listRequest' = s /\ task'[s].pc = "list"
  BY <1>1, <1>3 DEF LoadingTold
<1>4. CASE \E s \in Slots : Finish(s) /\ Others(s) /\ deferred' = deferred
  BY <1>1, <1>4 DEF Finish, Others, LoadingTold
<1> QED  BY <1>2, <1>3, <1>4 DEF LoadingStep

\* Each step of the server or of the page is beside the lists, or changes what
\* the server has, or is about a list.
LEMMA ListSteps ==
    ASSUME TypeOK, TaskForm, Next
    PROVE  /\ LoadingStep
           /\ \/ Beside
              \/ \E s \in Slots : \/ AnswerList(s) \/ AnswerChange(s) \/ Lose(s)
                                  \/ Sent(s) \/ LoadDeferred(s) \/ GivenUp(s) \/ Listed(s)
<1> USE Apart
<1>1. CASE UserStep
  <2>1. /\ UNCHANGED <<exists, deferred, listVars>>
        /\ \A r \in Slots : \/ task'[r] = task[r]
                            \/ task[r].pc = "idle" /\ task'[r].pc # "list"
    BY <1>1, UserAfter DEF Others
  <2>2. listRequest # None => listRequest \in Slots
    BY DEF TypeOK
  <2> QED  BY <2>1, <2>2 DEF listVars, LoadingStep, Beside, Reading
<1>2. CASE QrDrawn \/ Commit
  BY <1>2 DEF QrDrawn, Commit, queryVars, listVars, LoadingStep, Beside, Reading
<1>3. ASSUME NEW s \in Slots, ServerStep(s)
      PROVE  LoadingStep /\ (AnswerDetail(s) => Beside)
  <2>1. /\ task'[s].pc = task[s].pc /\ Others(s) /\ ServerUnchanged
    BY <1>3, AnswerAfter, ServerAfter
  <2>2. LoadingStep
    <3>1. listRequest # None => listRequest \in Slots
      BY DEF TypeOK
    <3> QED  BY <2>1, <3>1 DEF ServerUnchanged, queryVars, listVars, LoadingStep, Others
  <2>3. AnswerDetail(s) => Beside
    BY <2>1 DEF AnswerDetail, ServerUnchanged, queryVars, listVars, Beside, Reading, Others
  <2> QED  BY <2>2, <2>3
<1>4. ASSUME NEW s \in Slots, Sent(s) \/ LoadDeferred(s) PROVE LoadingStep
  BY <1>4, ReadAfter DEF LoadingStep
<1>5. ASSUME NEW s \in Slots, GivenUp(s) PROVE LoadingStep
  BY <1>5, FinishAfter DEF GivenUp, queryVars, LoadingStep
<1>6. ASSUME NEW s \in Slots, Listed(s) PROVE LoadingStep
  <2>1. deferred' = deferred
    BY <1>6 DEF Listed, queryVars
  <2> QED  BY <1>6, <2>1, ListedAfter DEF LoadingStep
<1>7. ASSUME NEW s \in Slots, DetailGivenUp(s) \/ Shown(s) PROVE LoadingStep /\ Beside
  <2>1. /\ Finish(s) /\ Others(s) /\ UNCHANGED <<exists, deferred, items>>
        /\ task[s].pc \in {"detail", "bundle"}
    BY <1>7, FinishAfter DEF DetailGivenUp, Shown, queryVars
  <2> QED  BY <2>1 DEF Finish, LoadingStep, Beside, Reading, Others
<1>8. ASSUME NEW s \in Slots, DetailLoaded(s) PROVE LoadingStep /\ Beside
  <2>1. /\ task'[s].pc = "bundle" /\ Others(s) /\ UNCHANGED <<exists, deferred, listVars>>
        /\ task[s].pc = "detail"
    BY <1>8, LoadedAfter DEF DetailLoaded, queryVars
  <2>2. listRequest # None => listRequest \in Slots
    BY DEF TypeOK
  <2> QED  BY <2>1, <2>2 DEF listVars, LoadingStep, Beside, Reading, Others
<1> QED
  BY <1>1, <1>2, <1>3, <1>4, <1>5, <1>6, <1>7, <1>8 DEF Next, ServerStep, TaskStep

\* A list that may be called current has no cause, or was found so.
LEMMA CauseAfter ==
    ASSUME TrackHistory, cause' = {}
    PROVE  \/ cause = {} /\ ~OtherQuery /\ ~LostAnswer
           \/ (\E s \in Slots : Listed(s)) /\ Current(items, deferred)'
  BY DEF TrackHistory, Current

LEMMA ListComesStep ==
    ASSUME TypeOK, TaskForm, ReplyFresh, ListComes, Next, TrackHistory
    PROVE  ReplyFresh' /\ ListComes'
<1> USE Apart
<1> SUFFICES ASSUME cause' = {} PROVE ReplyFresh' /\ ListComes'
  BY DEF ReplyFresh, ListComes
<1> DEFINE Kept == cause = {} /\ ~OtherQuery /\ ~LostAnswer
<1>1. \/ Kept
      \/ (\E s \in Slots : Listed(s)) /\ Current(items, deferred)'
  BY CauseAfter
<1>2. ASSUME NEW s \in Slots, Sent(s) \/ LoadDeferred(s) PROVE ReplyFresh' /\ ListComes'
  BY <1>2, ReadAfter DEF ReplyFresh, ListComes, Reading
<1>3. ASSUME NEW s \in Slots, Listed(s) PROVE ReplyFresh' /\ ListComes'
  <2>1. /\ Others(s) /\ Reading(s) /\ task'[s].pc # "list" /\ listRequest' \in {s, None}
        /\ exists' = exists /\ deferred' = deferred /\ items' = task[s].reply
        /\ task[s].reply \notin {Waiting, Failed}
    BY <1>3, ListedAfter DEF Listed, Finish, queryVars, Reading
  <2>2. ReplyFresh'
    BY <2>1 DEF ReplyFresh, Reading
  <2>3. ASSUME Kept, ~Changing PROVE Current(items, deferred)'
    <3>1. task[s].query = deferred
      BY <1>3, <2>3 DEF OtherQuery
    <3> QED  BY <2>1, <2>3, <3>1 DEF ReplyFresh, Current
  <2>4. Changing => Changing'
    BY <2>1 DEF Changing, Others, Reading
  <2> QED  BY <1>1, <2>2, <2>3, <2>4 DEF ListComes
<1>4. CASE Beside /\ Kept
  <2>1. Changing => Changing'
    BY <1>4 DEF Beside, Changing
  <2>2. ReplyFresh'
    BY <1>4, <2>1 DEF Beside, ReplyFresh, Reading, Current
  <2>3. ListComes'
    BY <1>4, <2>1 DEF Beside, ListComes, Reading, Current
  <2> QED  BY <2>2, <2>3
<1>5. ASSUME NEW s \in Slots, AnswerChange(s) \/ (Lose(s) /\ task[s].pc = "send") PROVE ReplyFresh' /\ ListComes'
  <2>1. Changing'
    BY <1>5, AnswerAfter DEF ServerStep, AnswerChange, Changing
  <2> QED  BY <2>1 DEF ReplyFresh, ListComes
<1>6. ASSUME NEW s \in Slots, AnswerList(s) \/ (Lose(s) /\ task[s].pc # "send"), Kept
      PROVE  ReplyFresh' /\ ListComes'
  <2>1. /\ task[s].pc # "send" /\ task'[s].pc = task[s].pc /\ task'[s].query = task[s].query
        /\ Others(s) /\ UNCHANGED <<exists, items, deferred, listRequest>>
    BY <1>6, AnswerAfter, ServerAfter DEF ServerStep, AnswerList, Lose, ServerUnchanged, queryVars, listVars
  <2>2. task'[s].reply = Failed \/ Current(task[s].reply, task[s].query)'
    <3>1. ASSUME NEW reply, Answer(s, reply) PROVE task'[s].reply = reply
      BY <3>1 DEF Answer, TypeOK, Task
    <3> QED  BY <1>6, <2>1, <3>1 DEF Current, AnswerList, Lose
  <2>3. Changing => Changing'
    BY <2>1 DEF Changing, Others
  <2>4. ReplyFresh'
    BY <1>6, <2>1, <2>2, <2>3 DEF ReplyFresh, Reading, Others, Current
  <2>5. ListComes'
    BY <1>6, <2>1, <2>3 DEF ListComes, Reading, Current, Others
  <2> QED  BY <2>4, <2>5
<1>7. ASSUME NEW s \in Slots, GivenUp(s), Kept PROVE ReplyFresh' /\ ListComes'
  <2>1. task'[s].pc = "idle" /\ Finish(s) /\ Others(s) /\ UNCHANGED <<exists, deferred, items>>
    BY <1>7, FinishAfter DEF GivenUp, queryVars
  <2>2. task[s].pc # "send" /\ ~Reading(s)
    BY <1>7, <2>1 DEF GivenUp, LostAnswer, Reading
  <2>3. Beside
    BY <2>1, <2>2 DEF Finish, Others, Beside, Reading
  <2> QED  BY <1>4, <1>7, <2>3
<1> QED  BY <1>1, <1>2, <1>3, <1>4, <1>5, <1>6, <1>7, ListSteps

-------------------------------------------------------------------------------
(* Sums.  SumFunctionOnSet is defined by a recursive function on the       *)
(* subsets, which takes away one chosen element after the other.  What     *)
(* holds of sums is proved by induction on the subsets of a finite set,    *)
(* with a set of subsets in place of a predicate.                          *)

LEMMA SubsetInduction ==
    ASSUME NEW S, IsFiniteSet(S), NEW P,
           \A T \in SUBSET S : (\A R \in (SUBSET T) \ {T} : R \in P) => T \in P
    PROVE  \A T \in SUBSET S : T \in P
<1> DEFINE less == StrictSubsetOrdering(S)
           bad == {T \in SUBSET S : T \notin P}
<1>1. IsWellFoundedOn(less, SUBSET S)
  BY FS_StrictSubsetOrderingWellFounded, FS_FiniteSubsetsOfFinite
<1>2. CASE bad # {}
  <2>1. PICK T \in bad : \A R \in bad : <<R, T>> \notin less
    <3> HIDE DEF less
    <3>1. bad \subseteq SUBSET S
      OBVIOUS
    <3> HIDE DEF bad
    <3> QED  BY <1>1, <1>2, <3>1, WFMin
  <2>2. ASSUME NEW R \in SUBSET T, R # T PROVE R \in P
    <3>1. R \in SUBSET S /\ <<R, T>> \in less
      BY <2>2 DEF StrictSubsetOrdering
    <3> QED  BY <2>1, <3>1
  <2> QED  BY <2>2
<1> QED  BY <1>2

Pick(S) == CHOOSE x \in S : TRUE
IsSum(g, f, T) == g = [s \in SUBSET T |-> IF s = {} THEN 0 ELSE f[Pick(s)] + g[s \ {Pick(s)}]]

LEMMA Picked == ASSUME NEW S, S # {} PROVE Pick(S) \in S
  BY DEF Pick

LEMMA SumUnfolds ==
    ASSUME NEW f, NEW S
    PROVE  SumFunctionOnSet(f, S) = (CHOOSE g : IsSum(g, f, S))[S]
  BY DEF SumFunctionOnSet, FoldFunctionOnSet, MapThenFoldSet, IsSum, Pick

\* Two such functions agree where both are defined.
LEMMA SumsAgree ==
    ASSUME NEW f, NEW S, IsFiniteSet(S), NEW g, IsSum(g, f, S), NEW T, NEW h, IsSum(h, f, T)
    PROVE  \A s \in SUBSET S : s \subseteq T => g[s] = h[s]
<1> DEFINE P == {s \in SUBSET S : s \subseteq T => g[s] = h[s]}
<1>1. ASSUME NEW s \in SUBSET S, \A r \in (SUBSET s) \ {s} : r \in P, s \subseteq T PROVE g[s] = h[s]
  <2>1. /\ g[s] = IF s = {} THEN 0 ELSE f[Pick(s)] + g[s \ {Pick(s)}]
        /\ h[s] = IF s = {} THEN 0 ELSE f[Pick(s)] + h[s \ {Pick(s)}]
    BY <1>1 DEF IsSum
  <2>2. CASE s # {}
    <3>1. s \ {Pick(s)} \in (SUBSET s) \ {s}
      BY <2>2, Picked
    <3> QED  BY <1>1, <2>1, <2>2, <3>1
  <2> QED  BY <2>1, <2>2
<1>2. \A s \in SUBSET S : s \in P
  <2>1. \A s \in SUBSET S : (\A r \in (SUBSET s) \ {s} : r \in P) => s \in P
    BY <1>1
  <2> HIDE DEF P
  <2> QED  BY <2>1, SubsetInduction
<1> QED  BY <1>2

LEMMA SumExists ==
    ASSUME NEW f, NEW S, IsFiniteSet(S)
    PROVE  \A T \in SUBSET S : \E g : IsSum(g, f, T)
<1> DEFINE P == {T \in SUBSET S : \E g : IsSum(g, f, T)}
           Total(T) == (CHOOSE g : IsSum(g, f, T))[T]
<1>1. ASSUME NEW T \in SUBSET S, \A R \in (SUBSET T) \ {T} : R \in P PROVE \E g : IsSum(g, f, T)
  <2> DEFINE g == [s \in SUBSET T |-> IF s = {} THEN 0 ELSE f[Pick(s)] + Total(s \ {Pick(s)})]
  <2>1. ASSUME NEW R \in SUBSET T, R # T PROVE g[R] = Total(R)
    <3> DEFINE h == CHOOSE q : IsSum(q, f, R)
    <3>1. IsSum(h, f, R)
      BY <1>1, <2>1
    <3>2. h[R] = IF R = {} THEN 0 ELSE f[Pick(R)] + h[R \ {Pick(R)}]
      <4> HIDE DEF h
      <4> QED  BY <3>1 DEF IsSum
    <3>3. CASE R # {}
      <4> DEFINE r == R \ {Pick(R)}
                 k == CHOOSE q : IsSum(q, f, r)
      <4>1. r \in SUBSET T /\ r # T /\ r \in SUBSET R /\ IsFiniteSet(r)
        BY <3>3, Picked, FS_Subset
      <4>2. IsSum(k, f, r)
        <5>1. r \in P
          BY <1>1, <4>1
        <5> QED  BY <5>1
      <4>3. k[r] = h[r]
        <5> HIDE DEF h, k, r
        <5> QED  BY <3>1, <4>1, <4>2, SumsAgree
      <4> QED  BY <3>2, <3>3, <4>3
    <3> QED  BY <3>2, <3>3
  <2>2. \A s \in SUBSET T : s # {} => g[s \ {Pick(s)}] = Total(s \ {Pick(s)})
    <3> SUFFICES ASSUME NEW s \in SUBSET T, s # {} PROVE g[s \ {Pick(s)}] = Total(s \ {Pick(s)})
      OBVIOUS
    <3>1. s \ {Pick(s)} \in SUBSET T /\ s \ {Pick(s)} # T
      BY Picked
    <3> HIDE DEF g, Total
    <3> QED  BY <2>1, <3>1
  <2>3. g = [s \in SUBSET T |-> IF s = {} THEN 0 ELSE f[Pick(s)] + g[s \ {Pick(s)}]]
    <3> HIDE DEF Total
    <3> QED  BY <2>2
  <2> QED  BY <2>3 DEF IsSum
<1>2. \A T \in SUBSET S : T \in P
  <2>1. \A T \in SUBSET S : (\A R \in (SUBSET T) \ {T} : R \in P) => T \in P
    BY <1>1
  <2> HIDE DEF P
  <2> QED  BY <2>1, SubsetInduction
<1> QED  BY <1>2

\* The sum of nothing, and of a set without the element chosen.
LEMMA SumStarts ==
    ASSUME NEW f, NEW S, IsFiniteSet(S)
    PROVE  SumFunctionOnSet(f, S) =
              IF S = {} THEN 0 ELSE f[Pick(S)] + SumFunctionOnSet(f, S \ {Pick(S)})
<1> DEFINE g == CHOOSE q : IsSum(q, f, S)
<1>1. IsSum(g, f, S)
  BY SumExists
<1>2. g[S] = IF S = {} THEN 0 ELSE f[Pick(S)] + g[S \ {Pick(S)}]
  <2> HIDE DEF g
  <2> QED  BY <1>1 DEF IsSum
<1>3. g[S \ {Pick(S)}] = SumFunctionOnSet(f, S \ {Pick(S)})
  <2> DEFINE r == S \ {Pick(S)}
             h == CHOOSE q : IsSum(q, f, r)
  <2>1. IsFiniteSet(r) /\ r \in SUBSET S
    BY FS_Subset
  <2>2. IsSum(h, f, r)
    BY <2>1, SumExists
  <2>3. g[r] = h[r]
    <3> HIDE DEF g, h, r
    <3> QED  BY <1>1, <2>1, <2>2, SumsAgree
  <2> QED  BY <2>3, SumUnfolds
<1> QED  BY <1>2, <1>3, SumUnfolds

LEMMA SumEmpty == ASSUME NEW f PROVE SumFunctionOnSet(f, {}) = 0
  BY SumStarts, FS_EmptySet

\* It does not matter which element is taken first.
LEMMA SumTakes ==
    ASSUME NEW f, NEW S, IsFiniteSet(S), \A x \in S : f[x] \in Nat
    PROVE  /\ SumFunctionOnSet(f, S) \in Nat
           /\ \A x \in S : SumFunctionOnSet(f, S) = f[x] + SumFunctionOnSet(f, S \ {x})
<1> DEFINE W(T) == SumFunctionOnSet(f, T)
           P == {T \in SUBSET S : W(T) \in Nat /\ \A x \in T : W(T) = f[x] + W(T \ {x})}
<1>1. ASSUME NEW T \in SUBSET S, \A R \in (SUBSET T) \ {T} : R \in P
      PROVE  W(T) \in Nat /\ \A x \in T : W(T) = f[x] + W(T \ {x})
  <2>0. IsFiniteSet(T)
    BY FS_Subset
  <2>1. CASE T = {}
    BY <2>1, SumEmpty
  <2>2. CASE T # {}
    <3> DEFINE p == Pick(T)
    <3>1. p \in T /\ W(T) = f[p] + W(T \ {p})
      BY <2>0, <2>2, Picked, SumStarts
    <3> HIDE DEF W, p
    <3>2. \A x \in T : T \ {x} \in P
      BY <1>1
    <3>3. \A x \in T : W(T \ {x}) \in Nat /\ \A y \in T \ {x} : W(T \ {x}) = f[y] + W((T \ {x}) \ {y})
      BY <3>2
    <3>4. ASSUME NEW x \in T, x # p PROVE W(T) = f[x] + W(T \ {x})
      <4>1. (T \ {x}) \ {p} = (T \ {p}) \ {x}
        OBVIOUS
      <4>2. W(T \ {p}) = f[x] + W((T \ {p}) \ {x})
        BY <3>1, <3>3, <3>4
      <4>3. W(T \ {x}) = f[p] + W((T \ {p}) \ {x})
        BY <3>1, <3>3, <3>4, <4>1
      <4>4. W((T \ {p}) \ {x}) \in Nat
        <5>1. (T \ {p}) \ {x} \in P
          BY <1>1, <3>1
        <5> QED  BY <5>1
      <4>5. f[x] \in Nat /\ f[p] \in Nat
        BY <3>1
      <4> QED  BY <3>1, <4>2, <4>3, <4>4, <4>5
    <3>5. W(T) \in Nat
      BY <3>1, <3>3
    <3> QED  BY <3>1, <3>4, <3>5
  <2> QED  BY <2>1, <2>2
<1>2. \A T \in SUBSET S : T \in P
  <2>1. \A T \in SUBSET S : (\A R \in (SUBSET T) \ {T} : R \in P) => T \in P
    BY <1>1
  <2> HIDE DEF P
  <2> QED  BY <2>1, SubsetInduction
<1>3. S \in P
  BY <1>2
<1> QED  BY <1>3

LEMMA SumSplit ==
    ASSUME NEW f, NEW S, IsFiniteSet(S), \A x \in S : f[x] \in Nat
    PROVE  \A T \in SUBSET S :
              SumFunctionOnSet(f, S) = SumFunctionOnSet(f, T) + SumFunctionOnSet(f, S \ T)
<1> DEFINE W(T) == SumFunctionOnSet(f, T)
           P == {T \in SUBSET S : W(S) = W(T) + W(S \ T)}
<1>0. \A T \in SUBSET S : W(T) \in Nat /\ \A x \in T : W(T) = f[x] + W(T \ {x})
  BY SumTakes, FS_Subset
<1>1. ASSUME NEW T \in SUBSET S, \A R \in (SUBSET T) \ {T} : R \in P PROVE W(S) = W(T) + W(S \ T)
  <2>1. CASE T = {}
    <3>1. S \ T = S /\ W(T) = 0 /\ W(S) \in Nat
      BY <1>0, <2>1, SumEmpty
    <3> HIDE DEF W
    <3> QED  BY <3>1
  <2>2. CASE T # {}
    <3>1. PICK x \in T : TRUE
      BY <2>2
    <3> DEFINE R == T \ {x}
    <3>2. R \in (SUBSET T) \ {T} /\ R \in SUBSET S /\ S \ R \in SUBSET S /\ x \in S \ R
          /\ (S \ R) \ {x} = S \ T /\ S \ T \in SUBSET S
      BY <3>1
    <3>3. W(S) = W(R) + W(S \ R)
      BY <1>1, <3>2
    <3>4. W(T) = f[x] + W(R) /\ W(S \ R) = f[x] + W(S \ T)
      <4>1. W(T) = f[x] + W(R)
        BY <1>0, <3>1
      <4>2. W(S \ R) = f[x] + W((S \ R) \ {x})
        <5> HIDE DEF W, R
        <5> QED  BY <1>0, <3>2
      <4> QED  BY <3>2, <4>1, <4>2
    <3>5. W(T) \in Nat /\ W(R) \in Nat /\ W(S \ T) \in Nat /\ f[x] \in Nat
      BY <1>0, <3>2
    <3> HIDE DEF W, R
    <3> QED  BY <3>3, <3>4, <3>5
  <2> QED  BY <2>1, <2>2
<1>2. \A T \in SUBSET S : T \in P
  <2>1. \A T \in SUBSET S : (\A R \in (SUBSET T) \ {T} : R \in P) => T \in P
    BY <1>1
  <2> HIDE DEF P
  <2> QED  BY <2>1, SubsetInduction
<1> QED  BY <1>2

LEMMA SumMonotone ==
    ASSUME NEW S, IsFiniteSet(S), NEW f, NEW g, \A x \in S : f[x] \in Nat /\ g[x] \in Nat /\ f[x] <= g[x]
    PROVE  SumFunctionOnSet(f, S) <= SumFunctionOnSet(g, S)
<1> DEFINE V(T) == SumFunctionOnSet(f, T)
           W(T) == SumFunctionOnSet(g, T)
           P == {T \in SUBSET S : V(T) <= W(T)}
<1>0. \A T \in SUBSET S : /\ V(T) \in Nat /\ \A x \in T : V(T) = f[x] + V(T \ {x})
                          /\ W(T) \in Nat /\ \A x \in T : W(T) = g[x] + W(T \ {x})
  BY SumTakes, FS_Subset
<1>1. ASSUME NEW T \in SUBSET S, \A R \in (SUBSET T) \ {T} : R \in P PROVE V(T) <= W(T)
  <2>1. CASE T = {}
    BY <2>1, SumEmpty
  <2>2. CASE T # {}
    <3>1. PICK x \in T : TRUE
      BY <2>2
    <3> DEFINE R == T \ {x}
    <3>2. R \in (SUBSET T) \ {T} /\ R \in SUBSET S
      BY <3>1
    <3>3. V(R) <= W(R) /\ V(R) \in Nat /\ W(R) \in Nat
      BY <1>0, <1>1, <3>2
    <3>4. V(T) = f[x] + V(R) /\ W(T) = g[x] + W(R)
      BY <1>0, <3>1
    <3>5. f[x] \in Nat /\ g[x] \in Nat /\ f[x] <= g[x]
      BY <3>1
    <3> HIDE DEF V, W, R
    <3> QED  BY <3>3, <3>4, <3>5
  <2> QED  BY <2>1, <2>2
<1>2. \A T \in SUBSET S : T \in P
  <2>1. \A T \in SUBSET S : (\A R \in (SUBSET T) \ {T} : R \in P) => T \in P
    BY <1>1
  <2> HIDE DEF P
  <2> QED  BY <2>1, SubsetInduction
<1>3. S \in P
  BY <1>2
<1> QED  BY <1>3

LEMMA SumEqual ==
    ASSUME NEW S, IsFiniteSet(S), NEW f, NEW g, \A x \in S : f[x] \in Nat /\ f[x] = g[x]
    PROVE  SumFunctionOnSet(f, S) = SumFunctionOnSet(g, S)
<1>1. SumFunctionOnSet(f, S) \in Nat /\ SumFunctionOnSet(g, S) \in Nat
  BY SumTakes
<1>2. SumFunctionOnSet(f, S) <= SumFunctionOnSet(g, S) /\ SumFunctionOnSet(g, S) <= SumFunctionOnSet(f, S)
  BY SumMonotone
<1> QED  BY <1>1, <1>2

LEMMA SumZero ==
    ASSUME NEW S, IsFiniteSet(S), NEW f, \A x \in S : f[x] = 0
    PROVE  SumFunctionOnSet(f, S) = 0
<1> DEFINE W(T) == SumFunctionOnSet(f, T)
           P == {T \in SUBSET S : W(T) = 0}
<1>1. ASSUME NEW T \in SUBSET S, \A R \in (SUBSET T) \ {T} : R \in P PROVE W(T) = 0
  <2>1. CASE T = {}
    BY <2>1, SumEmpty
  <2>2. CASE T # {}
    <3>1. PICK x \in T : TRUE
      BY <2>2
    <3>2. W(T \ {x}) = 0
      BY <1>1, <3>1
    <3>3. W(T) = f[x] + W(T \ {x})
      BY <3>1, SumTakes, FS_Subset
    <3> QED  BY <3>1, <3>2, <3>3
  <2> QED  BY <2>1, <2>2
<1>2. \A T \in SUBSET S : T \in P
  <2>1. \A T \in SUBSET S : (\A R \in (SUBSET T) \ {T} : R \in P) => T \in P
    BY <1>1
  <2> HIDE DEF P
  <2> QED  BY <2>1, SubsetInduction
<1>3. S \in P
  BY <1>2
<1> QED  BY <1>3

LEMMA SumAdds ==
    ASSUME NEW S, IsFiniteSet(S), NEW f, NEW g, NEW h,
           \A x \in S : f[x] \in Nat /\ g[x] \in Nat /\ h[x] = f[x] + g[x]
    PROVE  SumFunctionOnSet(h, S) = SumFunctionOnSet(f, S) + SumFunctionOnSet(g, S)
<1> DEFINE U(T) == SumFunctionOnSet(f, T)
           V(T) == SumFunctionOnSet(g, T)
           W(T) == SumFunctionOnSet(h, T)
           P == {T \in SUBSET S : W(T) = U(T) + V(T)}
<1>0. \A T \in SUBSET S : /\ U(T) \in Nat /\ \A x \in T : U(T) = f[x] + U(T \ {x})
                          /\ V(T) \in Nat /\ \A x \in T : V(T) = g[x] + V(T \ {x})
                          /\ W(T) \in Nat /\ \A x \in T : W(T) = h[x] + W(T \ {x})
  BY SumTakes, FS_Subset
<1>1. ASSUME NEW T \in SUBSET S, \A R \in (SUBSET T) \ {T} : R \in P PROVE W(T) = U(T) + V(T)
  <2>1. CASE T = {}
    BY <2>1, SumEmpty
  <2>2. CASE T # {}
    <3>1. PICK x \in T : TRUE
      BY <2>2
    <3> DEFINE R == T \ {x}
    <3>2. R \in (SUBSET T) \ {T} /\ R \in SUBSET S
      BY <3>1
    <3>3. W(R) = U(R) + V(R) /\ U(R) \in Nat /\ V(R) \in Nat
      BY <1>0, <1>1, <3>2
    <3>4. U(T) = f[x] + U(R) /\ V(T) = g[x] + V(R) /\ W(T) = h[x] + W(R)
      BY <1>0, <3>1
    <3>5. f[x] \in Nat /\ g[x] \in Nat /\ h[x] = f[x] + g[x]
      BY <3>1
    <3> HIDE DEF U, V, W, R
    <3> QED  BY <3>3, <3>4, <3>5
  <2> QED  BY <2>1, <2>2
<1>2. \A T \in SUBSET S : T \in P
  <2>1. \A T \in SUBSET S : (\A R \in (SUBSET T) \ {T} : R \in P) => T \in P
    BY <1>1
  <2> HIDE DEF P
  <2> QED  BY <2>1, SubsetInduction
<1>3. S \in P
  BY <1>2
<1> QED  BY <1>3

\* The sums of the rows of a table and of its columns.
RowSums(row, A, B) == [x \in A |-> SumFunctionOnSet(row[x], B)]
Turned(row, A, B) == [y \in B |-> [x \in A |-> row[x][y]]]

LEMMA SumExchange ==
    ASSUME NEW A, IsFiniteSet(A), NEW B, IsFiniteSet(B), NEW row \in [A -> [B -> Nat]]
    PROVE  SumFunctionOnSet(RowSums(row, A, B), A)
              = SumFunctionOnSet(RowSums(Turned(row, A, B), B, A), B)
<1> DEFINE col == Turned(row, A, B)
           f == RowSums(row, A, B)
           g == RowSums(col, B, A)
<1>1. /\ \A y \in B : col[y] \in [A -> Nat] /\ g[y] = SumFunctionOnSet(col[y], A)
      /\ \A x \in A : row[x] \in [B -> Nat] /\ f[x] = SumFunctionOnSet(row[x], B)
      /\ \A y \in B : \A x \in A : col[y][x] = row[x][y]
  BY DEF RowSums, Turned
<1> HIDE DEF col, f, g
<1> DEFINE cols(T) == [y \in B |-> SumFunctionOnSet(col[y], T)]
           P == {T \in SUBSET A : SumFunctionOnSet(f, T) = SumFunctionOnSet(cols(T), B)}
<1>2. /\ \A x \in A : f[x] \in Nat
      /\ \A y \in B : \A x \in A : col[y][x] \in Nat
  BY <1>1, SumTakes
<1>3. ASSUME NEW T \in SUBSET A, \A R \in (SUBSET T) \ {T} : R \in P
      PROVE  SumFunctionOnSet(f, T) = SumFunctionOnSet(cols(T), B)
  <2>0. IsFiniteSet(T) /\ \A y \in B : SumFunctionOnSet(col[y], T) \in Nat
    BY <1>2, FS_Subset, SumTakes
  <2>1. CASE T = {}
    <3>1. \A y \in B : cols(T)[y] = 0
      BY <2>1, SumEmpty
    <3> HIDE DEF cols
    <3> QED  BY <2>1, <3>1, SumEmpty, SumZero
  <2>2. CASE T # {}
    <3>1. PICK x \in T : TRUE
      BY <2>2
    <3> DEFINE R == T \ {x}
    <3>2. R \in (SUBSET T) \ {T} /\ R \in SUBSET A /\ x \in A /\ IsFiniteSet(R)
      BY <3>1, FS_Subset
    <3>3. SumFunctionOnSet(f, R) = SumFunctionOnSet(cols(R), B)
      BY <1>3, <3>2
    <3>4. SumFunctionOnSet(f, T) = SumFunctionOnSet(row[x], B) + SumFunctionOnSet(f, R)
      <4>1. \A z \in T : f[z] \in Nat
        BY <1>2
      <4>2. f[x] = SumFunctionOnSet(row[x], B)
        BY <1>1, <3>2
      <4>3. SumFunctionOnSet(f, T) = f[x] + SumFunctionOnSet(f, R)
        BY <2>0, <3>1, <4>1, SumTakes
      <4> QED  BY <4>2, <4>3
    <3>5. \A y \in B : /\ row[x][y] \in Nat /\ cols(R)[y] \in Nat
                       /\ cols(T)[y] = row[x][y] + cols(R)[y]
      <4> SUFFICES ASSUME NEW y \in B
                   PROVE  /\ row[x][y] \in Nat /\ cols(R)[y] \in Nat
                          /\ cols(T)[y] = row[x][y] + cols(R)[y]
        OBVIOUS
      <4>1. col[y][x] = row[x][y] /\ row[x][y] \in Nat
        BY <1>1, <3>2
      <4>2. /\ SumFunctionOnSet(col[y], R) \in Nat
            /\ SumFunctionOnSet(col[y], T) = col[y][x] + SumFunctionOnSet(col[y], R)
        <5>1. (\A z \in T : col[y][z] \in Nat) /\ (\A z \in R : col[y][z] \in Nat)
          BY <1>2
        <5>2. SumFunctionOnSet(col[y], R) \in Nat
          BY <3>2, <5>1, SumTakes
        <5>3. SumFunctionOnSet(col[y], T) = col[y][x] + SumFunctionOnSet(col[y], R)
          BY <2>0, <3>1, <5>1, SumTakes
        <5> QED  BY <5>2, <5>3
      <4> QED  BY <4>1, <4>2
    <3>6. SumFunctionOnSet(cols(T), B) = SumFunctionOnSet(row[x], B) + SumFunctionOnSet(cols(R), B)
      <4> HIDE DEF cols, R
      <4> QED  BY <3>5, SumAdds
    <3> QED  BY <3>3, <3>4, <3>6
  <2> QED  BY <2>1, <2>2
<1>4. \A T \in SUBSET A : T \in P
  <2>1. \A T \in SUBSET A : (\A R \in (SUBSET T) \ {T} : R \in P) => T \in P
    BY <1>3
  <2> HIDE DEF P
  <2> QED  BY <2>1, SubsetInduction
<1>5. A \in P
  BY <1>4
<1>6. \A y \in B : cols(A)[y] \in Nat /\ cols(A)[y] = g[y]
  BY <1>1, <1>2, SumTakes
<1>7. SumFunctionOnSet(cols(A), B) = SumFunctionOnSet(g, B)
  <2> HIDE DEF cols
  <2> QED  BY <1>6, SumEqual
<1> QED  BY <1>5, <1>7 DEF f, g, col

\* Counting by kind.
LEMMA SumCounts ==
    ASSUME NEW A, IsFiniteSet(A), NEW B, IsFiniteSet(B), NEW k
    PROVE  SumFunctionOnSet([b \in B |-> Cardinality({x \in A : k[x] = b})], B)
              = Cardinality({x \in A : k[x] \in B})
<1> DEFINE n == [b \in B |-> Cardinality({x \in A : k[x] = b})]
           P == {T \in SUBSET B : SumFunctionOnSet(n, T) = Cardinality({x \in A : k[x] \in T})}
<1>0. \A b \in B : n[b] \in Nat /\ n[b] = Cardinality({x \in A : k[x] = b})
  BY FS_Subset, FS_CardinalityType
<1>1. ASSUME NEW T \in SUBSET B, \A R \in (SUBSET T) \ {T} : R \in P
      PROVE  SumFunctionOnSet(n, T) = Cardinality({x \in A : k[x] \in T})
  <2>0. IsFiniteSet(T)
    BY FS_Subset
  <2>1. CASE T = {}
    BY <2>1, SumEmpty, FS_EmptySet
  <2>2. CASE T # {}
    <3>1. PICK b \in T : TRUE
      BY <2>2
    <3> DEFINE R == T \ {b}
               X == {x \in A : k[x] \in R}
               Y == {x \in A : k[x] = b}
    <3>2. SumFunctionOnSet(n, R) = Cardinality(X)
      BY <1>1, <3>1
    <3>3. SumFunctionOnSet(n, T) = Cardinality(Y) + Cardinality(X)
      <4>1. SumFunctionOnSet(n, T) = n[b] + SumFunctionOnSet(n, R)
        <5>1. \A x \in T : n[x] \in Nat
          BY <1>0
        <5> HIDE DEF n
        <5> QED  BY <2>0, <3>1, <5>1, SumTakes
      <4>2. n[b] = Cardinality(Y)
        BY <1>0, <3>1
      <4> HIDE DEF n, X, Y, R
      <4> QED  BY <3>2, <4>1, <4>2
    <3>4. X \cup Y = {x \in A : k[x] \in T} /\ X \cap Y = {}
      BY <3>1
    <3>5. /\ IsFiniteSet(X) /\ IsFiniteSet(Y)
          /\ Cardinality(X) \in Nat /\ Cardinality(Y) \in Nat
      BY FS_Subset, FS_CardinalityType
    <3>6. Cardinality(X \cup Y) = Cardinality(X) + Cardinality(Y) - Cardinality(X \cap Y)
      <4> HIDE DEF X, Y
      <4> QED  BY <3>5, FS_Union
    <3>7. Cardinality(X \cap Y) = 0
      BY <3>4, FS_EmptySet
    <3>8. Cardinality({x \in A : k[x] \in T}) = Cardinality(X \cup Y)
      BY <3>4
    <3> HIDE DEF X, Y, n
    <3> QED  BY <3>3, <3>5, <3>6, <3>7, <3>8
  <2> QED  BY <2>1, <2>2
<1>2. \A T \in SUBSET B : T \in P
  <2>1. \A T \in SUBSET B : (\A R \in (SUBSET T) \ {T} : R \in P) => T \in P
    BY <1>1
  <2> HIDE DEF P
  <2> QED  BY <2>1, SubsetInduction
<1>3. B \in P
  BY <1>2
<1> QED  BY <1>3

-------------------------------------------------------------------------------
(* The usage table.                                                        *)

LEMMA MaxOfTwo ==
    ASSUME NEW m \in Nat, NEW n \in Nat
    PROVE  Max({m, n}) \in {m, n} /\ Max({m, n}) >= m /\ Max({m, n}) >= n
  BY DEF Max

LEMMA ConnectionsType ==
    ASSUME NEW o \in Observation
    PROVE  /\ ActiveConnections(o) \in Nat
           /\ o.online <=> ActiveConnections(o) > 0
<1>1. o.online \in BOOLEAN
  BY DEF Observation
<1>2. OnlineIpCount(o) \in Nat /\ (~o.online => OnlineIpCount(o) = 0)
  <2>1. o.addresses \in Nat \cup {Lost} /\ o.fallback \in Nat \cup {Lost}
    BY DEF Observation
  <2>2. CASE o.online /\ o.addresses # Lost
    BY <2>1, <2>2 DEF OnlineIpCount
  <2>3. CASE o.online /\ o.addresses = Lost /\ o.fallback # Lost
    BY <2>1, <2>3 DEF OnlineIpCount
  <2>4. CASE ~o.online \/ (o.addresses = Lost /\ o.fallback = Lost)
    BY <1>1, <2>4 DEF OnlineIpCount
  <2> QED  BY <1>1, <2>2, <2>3, <2>4
<1> QED  BY <1>1, <1>2, MaxOfTwo DEF ActiveConnections

LEMMA DaysType == LastDay \in Nat /\ LastDay > 0 /\ Days \subseteq Nat
<1>1. LastDay \in Nat /\ TrendDays \in 1..LastDay
  BY AnalyticsAssumption
<1> QED  BY <1>1 DEF Days

\* The latest of some days.
LEMMA LatestDay ==
    ASSUME NEW S \in SUBSET Days, S # {}
    PROVE  Max(S) \in S /\ \A d \in S : d <= Max(S)
<1> DEFINE Ago == {n \in Nat : LastDay - n \in S}
<1>1. \E n \in Nat : n \in Ago
  <2>1. PICK d \in S : d \in 0..LastDay
    BY DEF Days
  <2>2. LastDay - d \in Nat /\ LastDay - (LastDay - d) = d
    BY <2>1, DaysType
  <2> QED  BY <2>1, <2>2
<1>2. PICK n \in Ago : \A m \in Ago : ~(m < n)
  <2>1. PICK n \in Ago : \A m \in Ago : <<m, n>> \notin OpToRel(<, Nat)
    BY <1>1, NatLessThanWellFounded, WFMin
  <2> QED  BY <2>1 DEF OpToRel
<1>3. LastDay - n \in S /\ \A d \in S : LastDay - n >= d
  <2>1. ASSUME NEW d \in S PROVE LastDay - n >= d
    <3>1. d \in Nat /\ LastDay - d \in Nat /\ LastDay - (LastDay - d) = d
      BY DaysType DEF Days
    <3>2. LastDay - d \in Ago
      BY <3>1
    <3> QED  BY <1>2, <3>1, <3>2, DaysType
  <2> QED  BY <1>2, <2>1
<1>4. Max(S) \in S /\ \A d \in S : Max(S) >= d
  BY <1>3 DEF Max
<1> QED  BY <1>4, DaysType

\* The rows of one client.
Rows == [Days -> Entry \cup {NoEntry}]

LEMMA EntryParts ==
    ASSUME NEW rows \in Rows, NEW d \in Days
    PROVE  /\ HasRow(rows, d) => rows[d] \in Entry /\ rows[d].bytes \in Nat /\ rows[d].conn \in Nat
           /\ BytesOf(rows, d) \in Nat
  BY AnalyticsAssumption DEF Rows, HasRow, BytesOf, Entry

\* Nobody is shown connected but for the connections of the latest row.
LEMMA ShownConnected ==
    ASSUME NEW rows \in Rows
    PROVE  /\ LatestConnections(rows) \in Nat
           /\ LatestConnections(rows) > 0 => Recorded(rows) # {}
           /\ \A d \in Days : HasRow(rows, d) /\ (\A e \in Recorded(rows) : e <= d)
                              => LatestConnections(rows) = rows[d].conn
<1>1. Recorded(rows) \subseteq Days
  BY DEF Recorded
<1>2. CASE Recorded(rows) = {}
  BY <1>2 DEF LatestConnections, Recorded
<1>3. CASE Recorded(rows) # {}
  <2> DEFINE m == Max(Recorded(rows))
  <2>1. m \in Recorded(rows) /\ \A d \in Recorded(rows) : d <= m
    BY <1>1, <1>3, LatestDay
  <2>2. LatestConnections(rows) = rows[m].conn
    BY <1>3 DEF LatestConnections
  <2> HIDE DEF m
  <2>3. LatestConnections(rows) \in Nat
    BY <2>1, <2>2, EntryParts DEF Recorded
  <2>4. ASSUME NEW d \in Days, HasRow(rows, d), \A e \in Recorded(rows) : e <= d
        PROVE  LatestConnections(rows) = rows[d].conn
    <3>1. m <= d /\ d <= m /\ m \in Nat /\ d \in Nat
      BY <1>1, <2>1, <2>4, DaysType DEF Recorded
    <3> QED  BY <2>2, <3>1
  <2> QED  BY <1>3, <2>3, <2>4
<1> QED  BY <1>2, <1>3

LEMMA EmptyRows == NoRows \in Rows /\ Recorded(NoRows) = {} /\ LatestConnections(NoRows) = 0
  BY DEF NoRows, Rows, Recorded, HasRow, LatestConnections

\* What a snapshot leaves of the rows of a client that have no day to come: a
\* client that is online is shown connected, one that is not only if Xray names
\* its counters, with nothing in them, and it has no row of today.
LEMMA SnapshotRows ==
    ASSUME today \in Days, NEW rows \in Rows, NEW o \in Observation,
           Recorded(rows) \subseteq 0..today
    PROVE  /\ RowsAfter(rows, o) \in Rows
           /\ Recorded(RowsAfter(rows, o)) \subseteq 0..today
           /\ o.online => LatestConnections(RowsAfter(rows, o)) > 0
           /\ ~o.online /\ LatestConnections(RowsAfter(rows, o)) > 0
                 => o.counted /\ ~Observed(o) /\ ~HasRow(RowsAfter(rows, o), today)
<1> DEFINE zeroed == IF HasRow(rows, today) THEN [rows EXCEPT ![today].conn = 0] ELSE rows
           rec == [bytes |-> BytesOf(rows, today) + o.bytes, conn |-> ActiveConnections(o)]
           ended == [bytes |-> BytesOf(rows, today), conn |-> 0]
<1>0. /\ o.online \in BOOLEAN /\ o.counted \in BOOLEAN /\ o.bytes \in Nat
      /\ ActiveConnections(o) \in Nat /\ (o.online <=> ActiveConnections(o) > 0)
      /\ today \in Nat /\ BytesOf(rows, today) \in Nat
  BY ConnectionsType, DaysType, EntryParts DEF Observation
<1>1. /\ zeroed \in Rows /\ Recorded(zeroed) = Recorded(rows)
      /\ HasRow(zeroed, today) => zeroed[today].conn = 0
  <2>1. CASE HasRow(rows, today)
    <3> DEFINE e == [rows[today] EXCEPT !.conn = 0]
    <3>1. e \in Entry /\ e.conn = 0
      BY <2>1, EntryParts DEF Entry
    <3>2. zeroed = [rows EXCEPT ![today] = e]
      BY <2>1
    <3> HIDE DEF e, zeroed
    <3>3. zeroed \in Rows /\ zeroed[today] = e /\ \A d \in Days : d # today => zeroed[d] = rows[d]
      BY <3>1, <3>2 DEF Rows
    <3>4. e # NoEntry
      BY <3>1, AnalyticsAssumption
    <3> QED  BY <2>1, <3>1, <3>3, <3>4 DEF Recorded, HasRow
  <2> QED  BY <2>1
<1>2. ASSUME NEW e \in Entry
      PROVE  LET after == [zeroed EXCEPT ![today] = e] IN
             /\ after \in Rows /\ Recorded(after) \subseteq 0..today
             /\ LatestConnections(after) = e.conn
  <2> DEFINE after == [zeroed EXCEPT ![today] = e]
  <2> HIDE DEF zeroed
  <2>1. after \in Rows /\ after[today] = e /\ \A d \in Days : d # today => after[d] = zeroed[d]
    BY <1>1 DEF Rows
  <2>2. HasRow(after, today)
    BY <2>1, AnalyticsAssumption DEF HasRow
  <2>3. Recorded(after) \subseteq 0..today
    BY <1>0, <1>1, <2>1 DEF Recorded, HasRow
  <2>4. \A d \in Recorded(after) : d <= today
    BY <2>3
  <2> HIDE DEF after
  <2>5. LatestConnections(after) = e.conn
    BY <2>1, <2>2, <2>4, ShownConnected
  <2> QED  BY <2>1, <2>3, <2>5 DEF after
<1>3. rec \in Entry /\ rec.conn = ActiveConnections(o) /\ ended \in Entry /\ ended.conn = 0
  BY <1>0 DEF Entry
<1>4. o.online => Named(o) /\ Observed(o)
  BY <1>0 DEF Named, Observed
<1> HIDE DEF zeroed, rec, ended
<1>5. CASE Named(o) /\ Observed(o)
  <2>1. RowsAfter(rows, o) = [zeroed EXCEPT ![today] = rec]
    BY <1>5 DEF RowsAfter, zeroed, rec
  <2> QED  BY <1>0, <1>2, <1>3, <2>1
<1>6. CASE ~Named(o) /\ LatestConnections(zeroed) # 0
  <2>1. RowsAfter(rows, o) = [zeroed EXCEPT ![today] = ended]
    BY <1>6 DEF RowsAfter, zeroed, ended
  <2>2. ~o.online
    BY <1>4, <1>6
  <2>3. /\ RowsAfter(rows, o) \in Rows /\ Recorded(RowsAfter(rows, o)) \subseteq 0..today
        /\ LatestConnections(RowsAfter(rows, o)) = 0
    BY <1>2, <1>3, <2>1
  <2> QED  BY <2>2, <2>3
<1>7. CASE ~(Named(o) /\ Observed(o)) /\ ~(~Named(o) /\ LatestConnections(zeroed) # 0)
  <2>1. RowsAfter(rows, o) = zeroed
    BY <1>7 DEF RowsAfter, zeroed
  <2>2. ASSUME LatestConnections(zeroed) > 0, HasRow(zeroed, today) PROVE FALSE
    <3>1. \A d \in Recorded(zeroed) : d <= today
      BY <1>1
    <3>2. LatestConnections(zeroed) = 0
      BY <1>1, <2>2, <3>1, ShownConnected
    <3> QED  BY <2>2, <3>2
  <2>3. LatestConnections(zeroed) > 0 => Named(o)
    BY <1>7
  <2> QED  BY <1>0, <1>1, <1>4, <1>7, <2>1, <2>2, <2>3 DEF Named
<1> QED  BY <1>5, <1>6, <1>7

-------------------------------------------------------------------------------
(* Who is shown connected.  No rows are of a day to come or of a client    *)
(* that is gone: so a snapshot's row of today is the latest one, and a     *)
(* client that is added again is not connected.                            *)

ReportForm == "pc" \in DOMAIN report

RowsPast  == \A u \in Users : Recorded(usage[u]) \subseteq 0..today
GoneEmpty == \A u \in Users \ Present : usage[u] = NoRows
SeenTyped == lastSeen \in [day : Days, online : SUBSET Users, atRest : SUBSET Users]

OnlineInv ==
    AnalyticsTypeOK /\ ReportForm /\ RowsPast /\ GoneEmpty /\ SeenTyped /\ OnlineExplained

LEMMA UsageTyped == AnalyticsTypeOK => usage \in [Users -> Rows] /\ \A u \in Users : usage[u] \in Rows
  BY DEF AnalyticsTypeOK, Rows

LEMMA OnlineInit == AnalyticsHistoryInit => OnlineInv
<1> SUFFICES ASSUME AnalyticsHistoryInit PROVE OnlineInv
  OBVIOUS
<1>1. /\ today = LastDay - 1 /\ status = [u \in Users |-> "ACTIVE"] /\ usage \in Tables
      /\ report = Blank /\ snapshots = 0 /\ edits = 0
  BY DEF AnalyticsHistoryInit, AnalyticsInit
<1>2. today \in Days /\ today \in 0..LastDay
  BY <1>1, DaysType DEF Days
<1>3. AnalyticsTypeOK
  BY <1>1, <1>2, AnalyticsAssumption DEF AnalyticsTypeOK, Blank
<1>4. ReportForm
  BY <1>1 DEF ReportForm, Blank
<1>5. Present = Users
  BY <1>1 DEF Present
<1>6. RowsPast
  <2> SUFFICES ASSUME NEW u \in Users, NEW d \in Recorded(usage[u]) PROVE d \in 0..today
    BY DEF RowsPast
  <2>1. d \in 0..LastDay /\ usage[u][d] # NoEntry
    BY DEF Recorded, HasRow, Days
  <2>2. d # LastDay
    BY <1>1, <2>1, AnalyticsAssumption
  <2> QED  BY <1>1, <2>1, <2>2, DaysType
<1>7. /\ lastSeen = [day |-> today, atRest |-> {},
                     online |-> {u \in Users : LatestConnections(usage[u]) > 0}]
  BY DEF AnalyticsHistoryInit
<1>8. SeenTyped
  BY <1>2, <1>7 DEF SeenTyped
<1>9. lastSeen.online = {u \in Users : LatestConnections(usage[u]) > 0}
  BY <1>7
<1>10. OnlineExplained
  BY <1>5, <1>9 DEF OnlineExplained
<1> QED  BY <1>3, <1>4, <1>5, <1>6, <1>8, <1>10 DEF OnlineInv, GoneEmpty

\* The position of a report after its steps.
LEMMA ReportAfter ==
    ASSUME ReportForm
    PROVE  /\ \A pc, day : LET r == [report EXCEPT !.pc = pc, !.day = day] IN
                 r.pc = pc /\ "pc" \in DOMAIN r
           /\ \A got : LET r == [report EXCEPT !.got = got] IN
                 r.pc = report.pc /\ "pc" \in DOMAIN r
           /\ \A pc, got, view : LET r == [report EXCEPT !.pc = pc, !.got = got, !.view = view] IN
                 r.pc = pc /\ "pc" \in DOMAIN r
  BY DEF ReportForm

LEMMA PrimedReport == PrimeDashboardData => ReportForm' /\ report'.pc = "primed"
<1>1. /\ [Blank EXCEPT !.pc = "primed"].pc = "primed"
      /\ "pc" \in DOMAIN [Blank EXCEPT !.pc = "primed"]
  BY DEF Blank
<1>2. ASSUME NEW w
      PROVE  LET r == [Blank EXCEPT !.pc = "primed", !.kind = "analytics", !.window = w] IN
             r.pc = "primed" /\ "pc" \in DOMAIN r
  BY DEF Blank
<1> QED  BY <1>1, <1>2 DEF PrimeDashboardData, ReportForm

\* A snapshot explains anew who is shown connected.
LEMMA OnlineSnapshot ==
    ASSUME OnlineInv, NEW seen \in [Users -> Observations], SnapshotStep(seen),
           lastSeen' = SeenBy(seen)
    PROVE  OnlineInv'
<1>0. /\ AnalyticsTypeOK /\ ReportForm /\ RowsPast /\ GoneEmpty
      /\ \A u \in Users : seen[u] \in Observation /\ usage[u] \in Rows
      /\ today \in Days
  BY UsageTyped, AnalyticsAssumption DEF OnlineInv, AnalyticsTypeOK
<1>1. /\ UNCHANGED <<today, status, edits>> /\ Record(seen) /\ snapshots' \in 0..MaxSnapshots
      /\ ReportForm' /\ report'.pc \in {"idle", "primed", "reading", "shown"}
  <2>1. TakeSnapshot(seen) /\ UNCHANGED <<today, status, edits>>
    BY DEF SnapshotStep, Snapshot, Prime, PrimeDashboardData
  <2>2. snapshots' \in 0..MaxSnapshots
    BY <1>0, <2>1, AnalyticsAssumption DEF TakeSnapshot, AnalyticsTypeOK
  <2>3. report' = report \/ PrimeDashboardData
    BY DEF SnapshotStep, Snapshot, Prime
  <2>4. report' = report => ReportForm'
    BY <1>0 DEF ReportForm
  <2> QED  BY <1>0, <2>1, <2>2, <2>3, <2>4, PrimedReport DEF TakeSnapshot, AnalyticsTypeOK
<1>2. Present' = Present /\ Present \subseteq Users
  BY <1>1 DEF Present
<1>3. /\ usage' \in [Users -> Rows]
      /\ \A u \in Users : usage'[u] = IF u \in Present THEN RowsAfter(usage[u], seen[u]) ELSE usage[u]
  BY <1>0, <1>1, SnapshotRows DEF Record, RowsPast
<1>4. AnalyticsTypeOK'
  BY <1>0, <1>1, <1>3 DEF AnalyticsTypeOK, Rows
<1>5. RowsPast'
  BY <1>0, <1>1, <1>3, SnapshotRows DEF RowsPast
<1>6. GoneEmpty'
  BY <1>0, <1>2, <1>3 DEF GoneEmpty
<1>7. SeenTyped'
  BY <1>0, <1>2 DEF SeenTyped, SeenBy
<1>8. /\ lastSeen'.day = today
      /\ lastSeen'.online = {u \in Present : ActiveConnections(seen[u]) > 0}
      /\ lastSeen'.atRest = {u \in Present : seen[u].counted /\ ~Observed(seen[u])}
  BY DEF SeenBy
<1>9. OnlineExplained'
  <2> SUFFICES ASSUME NEW u \in Present
               PROVE  /\ u \in lastSeen'.online => LatestConnections(usage'[u]) > 0
                      /\ LatestConnections(usage'[u]) > 0 =>
                            \/ u \in lastSeen'.online
                            \/ u \in lastSeen'.atRest /\ ~HasRow(usage'[u], lastSeen'.day)
    BY <1>2 DEF OnlineExplained
  <2>1. usage'[u] = RowsAfter(usage[u], seen[u]) /\ u \in Users
    BY <1>2, <1>3
  <2>2. seen[u].online <=> u \in lastSeen'.online
    BY <1>0, <1>8, <2>1, ConnectionsType
  <2> QED  BY <1>0, <1>8, <2>1, <2>2, SnapshotRows DEF RowsPast
<1> QED  BY <1>1, <1>4, <1>5, <1>6, <1>7, <1>9 DEF OnlineInv

\* Removals of rows make nobody connected; the clients that remain are
\* explained as before.
LEMMA OnlineOther ==
    ASSUME OnlineInv, AnalyticsTypeOK', ReportForm', lastSeen' = WithoutRows,
           today' >= today,
           \A u \in Users : usage'[u] = usage[u] \/ usage'[u] = NoRows,
           \A u \in Users \ Present' : usage'[u] = NoRows,
           \A u \in Present' \ Present : usage'[u] = usage[u]
    PROVE  OnlineInv'
<1>0. /\ AnalyticsTypeOK /\ RowsPast /\ GoneEmpty /\ SeenTyped /\ OnlineExplained
      /\ \A u \in Users : usage[u] \in Rows
      /\ today \in Nat /\ today' \in Nat
      /\ Present \subseteq Users /\ Present' \subseteq Users
  BY UsageTyped, DaysType DEF OnlineInv, AnalyticsTypeOK, Present
<1>1. RowsPast'
  <2> SUFFICES ASSUME NEW u \in Users PROVE Recorded(usage'[u]) \subseteq 0..today'
    BY DEF RowsPast
  <2>1. Recorded(usage[u]) \subseteq 0..today
    BY <1>0 DEF RowsPast
  <2>2. 0..today \subseteq 0..today'
    BY <1>0
  <2> QED  BY <2>1, <2>2, EmptyRows
<1>2. GoneEmpty'
  BY DEF GoneEmpty
<1>3. /\ lastSeen'.day = lastSeen.day /\ lastSeen'.atRest = lastSeen.atRest
      /\ lastSeen'.online = {u \in lastSeen.online : Recorded(usage'[u]) # {}}
  BY <1>0 DEF WithoutRows, SeenTyped
<1>4. SeenTyped'
  <2>1. lastSeen' = [lastSeen EXCEPT !.online = {u \in @ : Recorded(usage'[u]) # {}}]
    BY DEF WithoutRows
  <2> QED  BY <1>0, <2>1 DEF SeenTyped
<1>5. OnlineExplained'
  <2> SUFFICES ASSUME NEW u \in Present'
               PROVE  /\ u \in lastSeen'.online => LatestConnections(usage'[u]) > 0
                      /\ LatestConnections(usage'[u]) > 0 =>
                            \/ u \in lastSeen'.online
                            \/ u \in lastSeen'.atRest /\ ~HasRow(usage'[u], lastSeen'.day)
    BY DEF OnlineExplained
  <2>1. CASE usage'[u] = NoRows
    BY <1>3, <2>1, EmptyRows
  <2>2. CASE usage'[u] # NoRows
    <3>1. usage'[u] = usage[u] /\ u \in Present /\ u \in Users
      BY <1>0, <2>2 DEF GoneEmpty
    <3>2. LatestConnections(usage[u]) > 0 => Recorded(usage[u]) # {}
      BY <1>0, <3>1, ShownConnected
    <3> QED  BY <1>0, <1>3, <3>1, <3>2 DEF OnlineExplained
  <2> QED  BY <2>1, <2>2
<1> QED  BY <1>1, <1>2, <1>4, <1>5 DEF OnlineInv

LEMMA OnlineEdit == OnlineInv /\ EditStep /\ lastSeen' = WithoutRows => OnlineInv'
<1> SUFFICES ASSUME OnlineInv, EditStep, lastSeen' = WithoutRows PROVE OnlineInv'
  OBVIOUS
<1>0. /\ AnalyticsTypeOK /\ ReportForm /\ GoneEmpty /\ today \in Days /\ today \in Nat
      /\ status \in [Users -> Statuses \cup {"gone"}] /\ usage \in [Users -> Rows]
      /\ "gone" \notin Statuses /\ "ACTIVE" \in Statuses
  BY UsageTyped, DaysType, AnalyticsAssumption DEF OnlineInv, AnalyticsTypeOK
<1>1. Edit => /\ ReportForm' /\ report'.pc \in {"idle", "primed", "reading", "shown"}
              /\ snapshots' \in 0..MaxSnapshots /\ edits' \in 0..MaxEdits
  BY <1>0, AnalyticsAssumption DEF Edit, ReportForm, AnalyticsTypeOK
<1>2. \A u \in Users : u \in Present <=> status[u] # "gone"
  BY DEF Present
<1>3. \A u \in Users : u \in Present' <=> status'[u] # "gone"
  BY DEF Present
<1>4. ASSUME Edit, today' \in Days, today' >= today,
             status' \in [Users -> Statuses \cup {"gone"}],
             \A u \in Users : usage'[u] = usage[u] \/ usage'[u] = NoRows,
             usage' \in [Users -> Rows],
             \A u \in Users \ Present' : usage'[u] = NoRows,
             \A u \in Present' \ Present : usage'[u] = usage[u]
      PROVE  OnlineInv'
  <2>1. AnalyticsTypeOK'
    BY <1>1, <1>4 DEF AnalyticsTypeOK, Rows
  <2> QED  BY <1>1, <1>4, <2>1, OnlineOther
<1>5. ASSUME NEW u \in Users, usage' = NoRowsOf(u)
      PROVE  /\ usage' \in [Users -> Rows] /\ usage'[u] = NoRows
             /\ \A v \in Users \ {u} : usage'[v] = usage[v]
  BY <1>0, <1>5, EmptyRows DEF NoRowsOf
<1>6. ASSUME NEW u \in Users, ResetUsage(u) PROVE OnlineInv'
  <2>1. /\ Edit /\ u \in Present /\ usage' = NoRowsOf(u) /\ today' = today /\ status' = status
    BY <1>6 DEF ResetUsage
  <2>2. Present' = Present
    BY <2>1 DEF Present
  <2> QED  BY <1>0, <1>4, <1>5, <2>1, <2>2 DEF GoneEmpty
<1>7. ASSUME NEW u \in Users, RemoveUser(u) PROVE OnlineInv'
  <2>1. /\ Edit /\ usage' = NoRowsOf(u) /\ today' = today /\ u \in Present
        /\ status' = [status EXCEPT ![u] = "gone"]
    BY <1>7 DEF RemoveUser
  <2>2. \A v \in Users : v \in Present' <=> v \in Present /\ v # u
    BY <1>0, <1>2, <1>3, <2>1
  <2>3. Present' \subseteq Users
    BY DEF Present
  <2>4. status' \in [Users -> Statuses \cup {"gone"}]
    BY <1>0, <2>1
  <2> QED  BY <1>0, <1>4, <1>5, <2>1, <2>2, <2>3, <2>4 DEF GoneEmpty
<1>8. ASSUME NEW u \in Users, NEW s \in Statuses,
             UNCHANGED <<today, usage>>, Edit, status' = [status EXCEPT ![u] = s]
      PROVE  OnlineInv'
  <2>1. status' \in [Users -> Statuses \cup {"gone"}]
    BY <1>0, <1>8
  <2>2. \A v \in Users : v \in Present => v \in Present'
    BY <1>0, <1>2, <1>3, <1>8
  <2> QED  BY <1>0, <1>4, <1>8, <2>1, <2>2 DEF GoneEmpty
<1>9. CASE Midnight
  <2>1. today' \in Days /\ today' >= today
    BY <1>0, <1>9, DaysType DEF Midnight, Days
  <2>2. Present' = Present
    BY <1>9 DEF Midnight, Present
  <2> QED  BY <1>0, <1>4, <1>9, <2>1, <2>2 DEF Midnight, GoneEmpty
<1> QED
  BY <1>0, <1>6, <1>7, <1>8, <1>9 DEF EditStep, AddUser, MarkUser

\* A client that is imported has one row of today, as its item says, or none.
LEMMA ImportedRows ==
    ASSUME today \in Days, NEW item \in Items
    PROVE  LET rows == [NoRows EXCEPT ![today] = item] IN
           /\ rows \in Rows /\ Recorded(rows) \subseteq 0..today
           /\ LatestConnections(rows) > 0 <=> item # NoEntry /\ item.conn > 0
<1> DEFINE rows == [NoRows EXCEPT ![today] = item]
<1>1. /\ item \in Entry \cup {NoEntry} /\ NoEntry \notin Entry /\ today \in Nat
  BY DaysType, AnalyticsAssumption
<1>2. /\ rows \in [Days -> Entry \cup {NoEntry}] /\ rows[today] = item
      /\ \A d \in Days : d # today => rows[d] = NoEntry
  BY <1>1 DEF NoRows
<1> HIDE DEF rows
<1>3. rows \in Rows /\ Recorded(rows) \subseteq {today}
  BY <1>2 DEF Rows, Recorded, HasRow
<1>4. Recorded(rows) \subseteq 0..today
  BY <1>1, <1>3
<1>5. CASE item = NoEntry
  <2>1. rows = NoRows
    BY <1>2, <1>5 DEF NoRows
  <2>2. LatestConnections(rows) = 0
    BY <2>1, EmptyRows
  <2>3. ~(LatestConnections(rows) > 0)
    BY <2>2
  <2> QED  BY <1>3, <1>4, <1>5, <2>3 DEF rows
<1>6. CASE item # NoEntry
  <2>1. HasRow(rows, today) /\ \A d \in Recorded(rows) : d <= today
    BY <1>1, <1>2, <1>3, <1>6 DEF HasRow
  <2>2. LatestConnections(rows) = item.conn
    BY <1>2, <1>3, <2>1, ShownConnected
  <2> QED  BY <1>3, <1>4, <1>6, <2>2 DEF rows
<1> QED  BY <1>5, <1>6

\* An import explains anew whether its client is shown connected.
LEMMA OnlineImport ==
    ASSUME OnlineInv, NEW u \in Users, NEW item \in Items, ImportStep(u, item),
           lastSeen' = ImportedAs(u, item)
    PROVE  OnlineInv'
<1> DEFINE rows == [NoRows EXCEPT ![today] = item]
<1>0. /\ AnalyticsTypeOK /\ ReportForm /\ RowsPast /\ GoneEmpty /\ SeenTyped /\ OnlineExplained
      /\ today \in Days /\ status \in [Users -> Statuses \cup {"gone"}]
      /\ usage \in [Users -> Rows] /\ "gone" \notin Statuses
  BY UsageTyped, AnalyticsAssumption DEF OnlineInv, AnalyticsTypeOK
<1>1. PICK s \in Statuses : ImportUser(u, s, item)
  BY DEF ImportStep
<1>2. /\ rows \in Rows /\ Recorded(rows) \subseteq 0..today
      /\ LatestConnections(rows) > 0 <=> item # NoEntry /\ item.conn > 0
  BY <1>0, ImportedRows
<1>3. usage' = [usage EXCEPT ![u] = rows] /\ today' = today /\ status' = [status EXCEPT ![u] = s]
  BY <1>1 DEF ImportUser
<1>4. /\ lastSeen' = [lastSeen EXCEPT !.online = IF item # NoEntry /\ item.conn > 0
                                                THEN @ \cup {u} ELSE @ \ {u}]
  BY DEF ImportedAs
<1> HIDE DEF rows
<1>5. /\ usage' \in [Users -> Rows] /\ usage'[u] = rows
      /\ \A v \in Users \ {u} : usage'[v] = usage[v]
  BY <1>0, <1>2, <1>3
<1>6. /\ status' \in [Users -> Statuses \cup {"gone"}] /\ u \in Present'
      /\ \A v \in Users \ {u} : v \in Present' <=> v \in Present
  BY <1>0, <1>3 DEF Present
<1>7. /\ lastSeen'.day = lastSeen.day /\ lastSeen'.atRest = lastSeen.atRest
      /\ u \in lastSeen'.online <=> item # NoEntry /\ item.conn > 0
      /\ \A v \in Users \ {u} : v \in lastSeen'.online <=> v \in lastSeen.online
      /\ lastSeen' \in [day : Days, online : SUBSET Users, atRest : SUBSET Users]
  BY <1>0, <1>4 DEF SeenTyped
<1>8. /\ ReportForm' /\ report'.pc \in {"idle", "primed", "reading", "shown"}
      /\ snapshots' \in 0..MaxSnapshots /\ edits' \in 0..MaxEdits
  BY <1>0, <1>1, AnalyticsAssumption DEF ImportUser, Edit, ReportForm, AnalyticsTypeOK
<1>9. AnalyticsTypeOK'
  BY <1>0, <1>3, <1>5, <1>6, <1>8 DEF AnalyticsTypeOK, Rows
<1>10. RowsPast' /\ GoneEmpty'
  BY <1>0, <1>2, <1>3, <1>5, <1>6 DEF RowsPast, GoneEmpty
<1>11. OnlineExplained'
  <2> SUFFICES ASSUME NEW v \in Present'
               PROVE  /\ v \in lastSeen'.online => LatestConnections(usage'[v]) > 0
                      /\ LatestConnections(usage'[v]) > 0 =>
                            \/ v \in lastSeen'.online
                            \/ v \in lastSeen'.atRest /\ ~HasRow(usage'[v], lastSeen'.day)
    BY DEF OnlineExplained
  <2>1. CASE v = u
    BY <1>2, <1>5, <1>7, <2>1
  <2>2. CASE v # u
    <3>1. v \in Present /\ v \in Users \ {u} /\ usage'[v] = usage[v]
      BY <1>5, <1>6, <2>2 DEF Present
    <3> QED  BY <1>0, <1>7, <3>1 DEF OnlineExplained
  <2> QED  BY <2>1, <2>2
<1> QED  BY <1>7, <1>8, <1>9, <1>10, <1>11 DEF OnlineInv, SeenTyped

LEMMA OnlineReport == OnlineInv /\ ReportStep /\ lastSeen' = WithoutRows => OnlineInv'
<1> SUFFICES ASSUME OnlineInv, ReportStep, lastSeen' = WithoutRows PROVE OnlineInv'
  OBVIOUS
<1>0. /\ AnalyticsTypeOK /\ ReportForm /\ GoneEmpty /\ today \in Nat
      /\ status \in [Users -> Statuses \cup {"gone"}]
      /\ "gone" \notin Statuses /\ "EXPIRED" \in Statuses
  BY DaysType, AnalyticsAssumption DEF OnlineInv, AnalyticsTypeOK
<1>1. UNCHANGED <<today, usage, snapshots, edits>>
  BY DEF ReportStep, PrimeWithoutSnapshot, PrimeDashboardData, StartReport, ReadQuery, BuildReport
<1>2. /\ status' \in [Users -> Statuses \cup {"gone"}]
      /\ \A u \in Users : status'[u] = "gone" <=> status[u] = "gone"
  <2>1. CASE StartReport
    BY <1>0, <2>1 DEF StartReport
  <2>2. CASE ~StartReport
    BY <1>0, <2>2 DEF ReportStep, PrimeWithoutSnapshot, PrimeDashboardData, ReadQuery, BuildReport
  <2> QED  BY <2>1, <2>2
<1>3. ReportForm' /\ report'.pc \in {"idle", "primed", "reading", "shown"}
  <2>1. CASE PrimeWithoutSnapshot
    BY <2>1, PrimedReport DEF PrimeWithoutSnapshot
  <2>2. CASE StartReport
    <3>1. report' = [report EXCEPT !.pc = "reading", !.day = today]
      BY <2>2 DEF StartReport
    <3> QED  BY <1>0, <3>1, ReportAfter DEF ReportForm
  <2>3. ASSUME NEW q, ReadQuery(q) PROVE ReportForm' /\ report'.pc = report.pc
    <3>1. \E got : report' = [report EXCEPT !.got = got]
      BY <2>3 DEF ReadQuery
    <3> QED  BY <1>0, <3>1, ReportAfter DEF ReportForm
  <2>4. CASE BuildReport
    <3>1. \E view : report' = [report EXCEPT !.pc = "shown", !.got = <<>>, !.view = view]
      BY <2>4 DEF BuildReport
    <3> QED  BY <1>0, <3>1, ReportAfter DEF ReportForm
  <2> QED  BY <1>0, <2>1, <2>2, <2>3, <2>4 DEF ReportStep, AnalyticsTypeOK
<1>4. Present' = Present
  BY <1>2 DEF Present
<1>5. AnalyticsTypeOK'
  BY <1>0, <1>1, <1>2, <1>3 DEF AnalyticsTypeOK
<1> QED  BY <1>0, <1>1, <1>3, <1>4, <1>5, OnlineOther DEF GoneEmpty

LEMMA OnlineStep == OnlineInv /\ [AnalyticsHistoryNext]_analyticsHistoryVars => OnlineInv'
<1>1. OnlineInv /\ AnalyticsHistoryNext => OnlineInv'
  BY OnlineSnapshot, OnlineEdit, OnlineImport, OnlineReport DEF AnalyticsHistoryNext
<1>2. OnlineInv /\ UNCHANGED analyticsHistoryVars => OnlineInv'
  BY DEF analyticsHistoryVars, analyticsVars, OnlineInv, AnalyticsTypeOK, ReportForm, RowsPast,
         GoneEmpty, SeenTyped, OnlineExplained, Present
<1> QED  BY <1>1, <1>2

-------------------------------------------------------------------------------
(* The sums of a report.                                                   *)

LEMMA FiniteDays == IsFiniteSet(Days) /\ IsFiniteSet(Users) /\ IsFiniteSet(Statuses)
<1>1. IsFiniteSet(0..LastDay)
  BY DaysType, FS_Interval
<1> QED  BY <1>1, AnalyticsAssumption DEF Days

LEMMA BytesType ==
    ASSUME NEW rows \in Rows
    PROVE  /\ \A d \in Days : BytesOf(rows, d) \in Nat /\ (d \notin Recorded(rows) => BytesOf(rows, d) = 0)
           /\ TotalBytes(rows) \in Nat
<1>1. \A d \in Days : BytesOf(rows, d) \in Nat /\ (d \notin Recorded(rows) => BytesOf(rows, d) = 0)
  BY EntryParts DEF BytesOf, HasRow, Rows, Recorded
<1> DEFINE f == [d \in Days |-> BytesOf(rows, d)]
<1>2. SumFunctionOnSet(f, Days) \in Nat
  <2>1. \A d \in Days : f[d] \in Nat
    BY <1>1
  <2> HIDE DEF f
  <2> QED  BY <2>1, FiniteDays, SumTakes
<1>3. TotalBytes(rows) = SumFunctionOnSet(f, Days)
  BY DEF TotalBytes, SumFunction
<1> QED  BY <1>1, <1>2, <1>3

LEMMA NoBytes == TotalBytes(NoRows) = 0 /\ \A d \in Days : BytesOf(NoRows, d) = 0
<1>1. \A d \in Days : BytesOf(NoRows, d) = 0
  BY BytesType, EmptyRows
<1> DEFINE f == [d \in Days |-> BytesOf(NoRows, d)]
<1>2. SumFunctionOnSet(f, Days) = 0
  <2>1. \A d \in Days : f[d] = 0
    BY <1>1
  <2> HIDE DEF f
  <2> QED  BY <2>1, FiniteDays, SumZero
<1>3. TotalBytes(NoRows) = SumFunctionOnSet(f, Days)
  BY DEF TotalBytes, SumFunction
<1> QED  BY <1>1, <1>2, <1>3

\* A part of the rows has at most their bytes.
LEMMA FewerBytes ==
    ASSUME NEW rows \in Rows, NEW part \in Rows, \A d \in Recorded(part) : part[d] = rows[d]
    PROVE  TotalBytes(part) <= TotalBytes(rows)
<1> DEFINE f == [d \in Days |-> BytesOf(part, d)]
           g == [d \in Days |-> BytesOf(rows, d)]
<1>1. \A d \in Days : f[d] \in Nat /\ g[d] \in Nat /\ f[d] <= g[d]
  <2> SUFFICES ASSUME NEW d \in Days
               PROVE  /\ BytesOf(part, d) \in Nat /\ BytesOf(rows, d) \in Nat
                      /\ BytesOf(part, d) <= BytesOf(rows, d)
    OBVIOUS
  <2>1. BytesOf(part, d) \in Nat /\ BytesOf(rows, d) \in Nat
    BY BytesType
  <2>2. d \notin Recorded(part) => BytesOf(part, d) = 0
    BY BytesType
  <2>3. d \in Recorded(part) => BytesOf(part, d) = BytesOf(rows, d)
    BY DEF BytesOf, HasRow
  <2> QED  BY <2>1, <2>2, <2>3
<1>2. SumFunctionOnSet(f, Days) <= SumFunctionOnSet(g, Days)
  <2> HIDE DEF f, g
  <2> QED  BY <1>1, FiniteDays, SumMonotone
<1> QED  BY <1>2 DEF TotalBytes, SumFunction

\* A bucket; the buckets of some days; all the buckets have the bytes of all clients.
LEMMA BucketType ==
    ASSUME NEW trend \in [Users -> Rows]
    PROVE  \A d \in Days : BucketBytes(trend, d) \in Nat
<1> SUFFICES ASSUME NEW d \in Days PROVE BucketBytes(trend, d) \in Nat
  OBVIOUS
<1> DEFINE f == [u \in Users |-> BytesOf(trend[u], d)]
<1>1. \A u \in Users : f[u] \in Nat
  BY BytesType
<1>2. SumFunctionOnSet(f, Users) \in Nat
  <2> HIDE DEF f
  <2> QED  BY <1>1, FiniteDays, SumTakes
<1> QED  BY <1>2 DEF BucketBytes, SumFunction

LEMMA EmptyBucket ==
    ASSUME NEW trend \in [Users -> Rows], NEW d \in Days, \A u \in Users : d \notin Recorded(trend[u])
    PROVE  BucketBytes(trend, d) = 0
<1> DEFINE f == [u \in Users |-> BytesOf(trend[u], d)]
<1>1. \A u \in Users : f[u] = 0
  BY BytesType
<1>2. SumFunctionOnSet(f, Users) = 0
  <2> HIDE DEF f
  <2> QED  BY <1>1, FiniteDays, SumZero
<1> QED  BY <1>2 DEF BucketBytes, SumFunction

LEMMA BucketsSplit ==
    ASSUME NEW trend \in [Users -> Rows], NEW days \in SUBSET Days, NEW part \in SUBSET days
    PROVE  /\ BytesIn(trend, days) \in Nat /\ BytesIn(trend, part) \in Nat
           /\ BytesIn(trend, days \ part) \in Nat
           /\ BytesIn(trend, days) = BytesIn(trend, part) + BytesIn(trend, days \ part)
<1> DEFINE f == [d \in Days |-> BucketBytes(trend, d)]
<1>1. \A d \in Days : f[d] \in Nat
  BY BucketType
<1>2. ASSUME NEW some \in SUBSET Days PROVE BytesIn(trend, some) = SumFunctionOnSet(f, some)
  <2> DEFINE g == [d \in some |-> BucketBytes(trend, d)]
  <2>1. \A d \in some : g[d] \in Nat /\ g[d] = f[d]
    BY BucketType
  <2>2. IsFiniteSet(some)
    BY FiniteDays, FS_Subset
  <2>3. SumFunctionOnSet(g, some) = SumFunctionOnSet(f, some)
    <3> HIDE DEF f, g
    <3> QED  BY <2>1, <2>2, SumEqual
  <2> QED  BY <2>3 DEF BytesIn, SumFunction
<1>3. IsFiniteSet(days) /\ days \ part \in SUBSET Days /\ part \in SUBSET Days
  BY FiniteDays, FS_Subset
<1>4. SumFunctionOnSet(f, days) = SumFunctionOnSet(f, part) + SumFunctionOnSet(f, days \ part)
  <2>1. \A d \in days : f[d] \in Nat
    BY <1>1
  <2> HIDE DEF f
  <2> QED  BY <1>3, <2>1, SumSplit
<1>5. ASSUME NEW some \in SUBSET Days PROVE SumFunctionOnSet(f, some) \in Nat
  <2> HIDE DEF f
  <2> QED  BY <1>1, FiniteDays, FS_Subset, SumTakes
<1> HIDE DEF f
<1> QED  BY <1>2, <1>3, <1>4, <1>5

LEMMA AllBuckets ==
    ASSUME NEW trend \in [Users -> Rows]
    PROVE  BytesIn(trend, Days) = SumFunctionOnSet([u \in Users |-> TotalBytes(trend[u])], Users)
<1> DEFINE row == [u \in Users |-> [d \in Days |-> BytesOf(trend[u], d)]]
           col == Turned(row, Users, Days)
<1>1. row \in [Users -> [Days -> Nat]]
  BY BytesType
<1>2. SumFunctionOnSet(RowSums(row, Users, Days), Users) = SumFunctionOnSet(RowSums(col, Days, Users), Days)
  <2> HIDE DEF row
  <2> QED  BY <1>1, FiniteDays, SumExchange
<1>3. RowSums(row, Users, Days) = [u \in Users |-> TotalBytes(trend[u])]
  BY DEF RowSums, TotalBytes, SumFunction
<1>4. RowSums(col, Days, Users) = [d \in Days |-> BucketBytes(trend, d)]
  <2>1. \A d \in Days : col[d] = [u \in Users |-> BytesOf(trend[u], d)]
    BY DEF Turned
  <2> HIDE DEF row, col
  <2> QED  BY <2>1 DEF RowSums, BucketBytes, SumFunction
<1>5. BytesIn(trend, Days) = SumFunctionOnSet([d \in Days |-> BucketBytes(trend, d)], Days)
  BY DEF BytesIn, SumFunction
<1> QED  BY <1>2, <1>3, <1>4, <1>5

\* The buckets of days with all the rows have the bytes of all clients.
LEMMA TheBuckets ==
    ASSUME NEW trend \in [Users -> Rows], NEW days \in SUBSET Days,
           \A u \in Users : Recorded(trend[u]) \subseteq days
    PROVE  BytesIn(trend, days) = BytesIn(trend, Days)
<1> DEFINE rest == Days \ days
           f == [d \in rest |-> BucketBytes(trend, d)]
<1>1. \A d \in rest : f[d] = 0
  BY EmptyBucket
<1>2. SumFunctionOnSet(f, rest) = 0
  <2>1. IsFiniteSet(rest)
    BY FiniteDays, FS_Subset
  <2> HIDE DEF f, rest
  <2> QED  BY <1>1, <2>1, SumZero
<1>3. BytesIn(trend, rest) = 0
  BY <1>2 DEF BytesIn, SumFunction
<1>4. /\ BytesIn(trend, days) \in Nat
      /\ BytesIn(trend, Days) = BytesIn(trend, days) + BytesIn(trend, rest)
  <2>1. Days \in SUBSET Days /\ days \in SUBSET Days
    OBVIOUS
  <2> QED  BY <2>1, BucketsSplit
<1> HIDE DEF rest
<1> QED  BY <1>3, <1>4

\* Clients without bytes may be left out.
LEMMA SumOfSome ==
    ASSUME NEW f, NEW some \in SUBSET Users, \A u \in Users : f[u] \in Nat,
           \A u \in Users \ some : f[u] = 0
    PROVE  SumFunctionOnSet(f, some) = SumFunctionOnSet(f, Users)
<1>1. SumFunctionOnSet(f, Users) = SumFunctionOnSet(f, some) + SumFunctionOnSet(f, Users \ some)
  BY FiniteDays, SumSplit
<1>2. SumFunctionOnSet(f, Users \ some) = 0
  BY FiniteDays, FS_Subset, SumZero
<1>3. SumFunctionOnSet(f, some) \in Nat
  BY FiniteDays, FS_Subset, SumTakes
<1> QED  BY <1>1, <1>2, <1>3

-------------------------------------------------------------------------------
(* What a report has read.                                                 *)

ReportFields == {"pc", "kind", "window", "day", "got", "view"}

\* What is known of the answer a to the query q, as long as nothing moves.
Told(q, a) ==
    /\ q = "clients" => DOMAIN a \subseteq Users /\ ("clients" \notin moved => DOMAIN a = Present)
    /\ q = "count" /\ "clients" \notin moved => a = Cardinality(Present)
    /\ q \in Statuses /\ "clients" \notin moved => a = Cardinality({u \in Users : status[u] = q})
    /\ q = "latest" /\ "clients" \notin moved => \A u \in Users : a[u].status = status[u]
    /\ q = "allTime" /\ "usage" \notin moved => \A u \in Users : a[u] = TotalBytes(usage[u])
    /\ q = "usage" /\ "usage" \notin moved => a = SumFunction([u \in Users |-> TotalBytes(usage[u])])
    /\ q = "trend" =>
          /\ a \in [Users -> Rows]
          /\ \A u \in Users : \A d \in Recorded(a[u]) : d <= today /\ report.day < d + report.window
          /\ "clients" \notin moved => \A u \in Users \ Present : a[u] = NoRows
          /\ "usage" \notin moved => \A u \in Users : \A d \in Recorded(a[u]) : a[u][d] = usage[u][d]

ReadForm ==
    report.pc = "reading" =>
        /\ report.day \in Nat /\ report.day <= today
        /\ "midnight" \notin moved => report.day = today
        /\ DOMAIN report.got \subseteq Reads[report.kind]
        /\ \A q \in DOMAIN report.got : Told(q, report.got[q])

AskedFor == report.pc \in {"primed", "reading"} =>
    report.kind \in {"summary", "analytics"} /\ report.window \in Nat

ReportInv ==
    /\ DOMAIN report = ReportFields
    /\ AskedFor /\ (report.pc = "primed" => report.got = <<>>)
    /\ ReadForm /\ ReportAddsUp

LEMMA ReadsKnown ==
    /\ DOMAIN Reads = {"analytics", "summary"}
    /\ Reads["analytics"] = {"clients", "allTime", "trend", "latest"}
    /\ Reads["summary"] = {"count", "usage", "latest", "trend"} \cup Statuses
    /\ Statuses \cap {"gone", "clients", "count", "allTime", "usage", "latest", "trend"} = {}
  BY AnalyticsAssumption DEF Reads

\* An answer stays as it is told while it is noted what moves.
LEMMA ToldStays ==
    ASSUME NEW q, NEW a, Told(q, a), moved' = moved \cup Moved,
           today \in Nat, today' \in Nat, today <= today',
           report'.day = report.day, report'.window = report.window
    PROVE  Told(q, a)'
<1>1. "clients" \notin moved' => "clients" \notin moved /\ status' = status
  BY DEF Moved
<1>2. "usage" \notin moved' => "usage" \notin moved /\ usage' = usage
  BY DEF Moved
<1>3. status' = status => Present' = Present
  BY DEF Present
<1>4. ASSUME NEW d \in Days, d <= today PROVE d <= today'
  BY <1>4, DaysType
<1>5. q = "trend" => Told(q, a)'
  <2> SUFFICES ASSUME q = "trend" PROVE Told(q, a)'
    OBVIOUS
  <2>1. /\ a \in [Users -> Rows]
        /\ \A u \in Users : \A d \in Recorded(a[u]) : d <= today /\ report.day < d + report.window
        /\ "clients" \notin moved => \A u \in Users \ Present : a[u] = NoRows
        /\ "usage" \notin moved => \A u \in Users : \A d \in Recorded(a[u]) : a[u][d] = usage[u][d]
    BY DEF Told
  <2>2. \A u \in Users : \A d \in Recorded(a[u]) : d <= today' /\ report'.day < d + report'.window
    BY <1>4, <2>1 DEF Recorded
  <2>3. q \notin Statuses
    BY ReadsKnown
  <2> QED  BY <1>1, <1>2, <1>3, <2>1, <2>2, <2>3 DEF Told
<1> QED  BY <1>1, <1>2, <1>3, <1>5 DEF Told

\* What a query reads is told.
LEMMA ReadTold ==
    ASSUME OnlineInv, report.day \in Nat, report.window \in Nat,
           NEW q \in Reads["analytics"] \cup Reads["summary"]
    PROVE  Told(q, ReadNow(q))
<1>1. CASE q \in Statuses
  <2>1. ReadNow(q) = Cardinality({u \in Users : status[u] = q})
    BY <1>1, ReadsKnown DEF ReadNow
  <2> QED  BY <1>1, <2>1, ReadsKnown DEF Told
<1>2. CASE q = "clients"
  <2>1. ReadNow(q) = [u \in Present |-> status[u]]
    BY <1>2, ReadsKnown DEF ReadNow
  <2>2. DOMAIN ReadNow(q) = Present /\ Present \subseteq Users
    BY <2>1 DEF Present
  <2> QED  BY <1>2, <2>2, ReadsKnown DEF Told
<1>3. CASE q = "count"
  BY <1>3, ReadsKnown DEF Told, ReadNow
<1>4. CASE q = "latest"
  <2>1. ReadNow(q) = [u \in Users |-> [conn |-> LatestConnections(usage[u]), status |-> status[u]]]
    BY <1>4, ReadsKnown DEF ReadNow
  <2> QED  BY <1>4, <2>1, ReadsKnown DEF Told
<1>5. CASE q = "allTime"
  <2>1. ReadNow(q) = [u \in Users |-> TotalBytes(usage[u])]
    BY <1>5, ReadsKnown DEF ReadNow
  <2> QED  BY <1>5, <2>1, ReadsKnown DEF Told
<1>6. CASE q = "usage"
  BY <1>6, ReadsKnown DEF Told, ReadNow
<1>7. CASE q = "trend"
  <2> DEFINE a == ReadNow(q)
  <2>0. /\ \A u \in Users : usage[u] \in Rows /\ Recorded(usage[u]) \subseteq 0..today
        /\ \A u \in Users \ Present : usage[u] = NoRows
        /\ today \in Nat
    BY UsageTyped, DaysType DEF OnlineInv, RowsPast, GoneEmpty, AnalyticsTypeOK
  <2>1. a = [u \in Users |-> [d \in Days |->
                IF report.day < d + report.window THEN usage[u][d] ELSE NoEntry]]
    BY <1>7, ReadsKnown DEF ReadNow
  <2>2. a \in [Users -> Rows]
    BY <2>0, <2>1 DEF Rows
  <2>3. \A u \in Users : \A d \in Recorded(a[u]) :
            d \in Recorded(usage[u]) /\ a[u][d] = usage[u][d] /\ report.day < d + report.window
    BY <2>1 DEF Recorded, HasRow
  <2>4. \A u \in Users \ Present : a[u] = NoRows
    BY <2>0, <2>1 DEF NoRows
  <2> HIDE DEF a
  <2>5. \A u \in Users : \A d \in Recorded(a[u]) : d <= today
    BY <2>0, <2>3
  <2>6. Told(q, a)
    BY <1>7, <2>2, <2>3, <2>4, <2>5, ReadsKnown DEF Told
  <2> QED  BY <2>6 DEF a
<1> QED  BY <1>1, <1>2, <1>3, <1>4, <1>5, <1>6, <1>7, ReadsKnown

\* The numbers of a summary.
SummaryAddsUp(v) ==
    /\ "clients" \notin moved =>
          /\ SumFunction(v.counts) = v.clients
          /\ v.online <= v.counts["ACTIVE"]
    /\ moved \cap {"clients", "usage"} = {} => v.trends.trend <= v.usage
    /\ v.trends.recent + v.trends.previous = v.trends.trend

LEMMA SummaryBuilt ==
    ASSUME OnlineInv, ReadForm, report.pc = "reading", report.kind = "summary",
           DOMAIN report.got = Reads["summary"]
    PROVE  SummaryAddsUp(BuildSummary(report.got))
<1> DEFINE got == report.got
           v == BuildSummary(got)
           days == BucketDays(today, TrendDays)
           recent == BucketDays(today, ComparisonDays)
           trend == got["trend"]
           active == {u \in Users : got["latest"][u].conn > 0 /\ got["latest"][u].status = "ACTIVE"}
<1>1. \A q \in Reads["summary"] : Told(q, got[q])
  BY DEF ReadForm
<1>2. /\ status \in [Users -> Statuses \cup {"gone"}] /\ "gone" \notin Statuses
      /\ today \in Nat /\ "ACTIVE" \in Statuses /\ \A u \in Users : usage[u] \in Rows
  BY DaysType, UsageTyped, AnalyticsAssumption DEF OnlineInv, AnalyticsTypeOK
<1>3. /\ v.counts = [s \in Statuses |-> got[s]] /\ v.clients = got["count"] /\ v.usage = got["usage"]
      /\ v.online = Cardinality(active)
      /\ v.trends.trend = BytesIn(trend, days) /\ v.trends.recent = BytesIn(trend, recent)
      /\ v.trends.previous = BytesIn(trend, days \ recent)
  BY DEF BuildSummary, BuildTrends
<1>4. trend \in [Users -> Rows]
  BY <1>1, ReadsKnown DEF Told
<1>5. ASSUME "clients" \notin moved
      PROVE  SumFunction(v.counts) = v.clients /\ v.online <= v.counts["ACTIVE"]
  <2>1. /\ got["count"] = Cardinality(Present)
        /\ \A s \in Statuses : got[s] = Cardinality({u \in Users : status[u] = s})
        /\ \A u \in Users : got["latest"][u].status = status[u]
    BY <1>1, <1>5, ReadsKnown DEF Told
  <2>2. v.counts = [s \in Statuses |-> Cardinality({u \in Users : status[u] = s})]
    BY <1>3, <2>1
  <2>3. SumFunction(v.counts) = Cardinality({u \in Users : status[u] \in Statuses})
    <3>1. SumFunction(v.counts) = SumFunctionOnSet([s \in Statuses |-> Cardinality({u \in Users : status[u] = s})], Statuses)
      BY <2>2 DEF SumFunction
    <3> QED  BY <3>1, FiniteDays, SumCounts
  <2>4. {u \in Users : status[u] \in Statuses} = Present
    BY <1>2 DEF Present
  <2>5. active \subseteq {u \in Users : status[u] = "ACTIVE"}
    BY <2>1
  <2>6. Cardinality(active) <= Cardinality({u \in Users : status[u] = "ACTIVE"})
    <3>1. IsFiniteSet({u \in Users : status[u] = "ACTIVE"})
      BY FiniteDays, FS_Subset
    <3> HIDE DEF active
    <3> QED  BY <2>5, <3>1, FS_Subset
  <2> QED  BY <1>2, <1>3, <2>1, <2>2, <2>3, <2>4, <2>6
<1>6. days \in SUBSET Days /\ recent \in SUBSET days
  <2>1. ASSUME NEW d \in Nat, today < d + ComparisonDays PROVE today < d + TrendDays
    BY <1>2, <2>1, AnalyticsAssumption
  <2> QED  BY <2>1, DaysType DEF BucketDays
<1>7. /\ BytesIn(trend, days) \in Nat /\ BytesIn(trend, recent) \in Nat /\ BytesIn(trend, days \ recent) \in Nat
      /\ BytesIn(trend, days) = BytesIn(trend, recent) + BytesIn(trend, days \ recent)
  BY <1>4, <1>6, BucketsSplit
<1>8. ASSUME "usage" \notin moved PROVE v.trends.trend <= v.usage
  <2> DEFINE f == [u \in Users |-> TotalBytes(trend[u])]
             g == [u \in Users |-> TotalBytes(usage[u])]
  <2>1. got["usage"] = SumFunctionOnSet(g, Users)
    BY <1>1, <1>8, ReadsKnown DEF Told, SumFunction
  <2>2. \A u \in Users : f[u] \in Nat /\ g[u] \in Nat /\ f[u] <= g[u]
    <3>1. \A u \in Users : \A d \in Recorded(trend[u]) : trend[u][d] = usage[u][d]
      BY <1>1, <1>8, ReadsKnown DEF Told
    <3> QED  BY <1>2, <1>4, <3>1, FewerBytes, BytesType
  <2>3. SumFunctionOnSet(f, Users) <= SumFunctionOnSet(g, Users)
        /\ SumFunctionOnSet(f, Users) \in Nat /\ SumFunctionOnSet(g, Users) \in Nat
    <3> HIDE DEF f, g
    <3> QED  BY <2>2, FiniteDays, SumMonotone, SumTakes
  <2>4. BytesIn(trend, Days) = SumFunctionOnSet(f, Users)
    BY <1>4, AllBuckets
  <2>5. BytesIn(trend, Days) = BytesIn(trend, days) + BytesIn(trend, Days \ days)
        /\ BytesIn(trend, Days \ days) \in Nat
    <3>1. Days \in SUBSET Days
      OBVIOUS
    <3> QED  BY <1>4, <1>6, <3>1, BucketsSplit
  <2> HIDE DEF f, g, v, trend, days
  <2> QED  BY <1>3, <1>7, <2>1, <2>3, <2>4, <2>5
<1> QED  BY <1>3, <1>5, <1>7, <1>8 DEF SummaryAddsUp

\* The numbers of the analytics.
AnalyticsAddUp(v) ==
    /\ moved \cap {"clients", "midnight"} = {} =>
          /\ SumFunction([u \in DOMAIN v.clients |-> v.clients[u].window]) = v.window
          /\ SumFunction([u \in DOMAIN v.clients |-> v.clients[u].today]) = v.today
    /\ moved \cap {"clients", "usage"} = {} =>
          \A u \in DOMAIN v.clients : v.clients[u].window <= v.clients[u].total

LEMMA AnalyticsBuilt ==
    ASSUME OnlineInv, ReadForm, report.pc = "reading", report.kind = "analytics", report.window \in Nat,
           DOMAIN report.got = Reads["analytics"]
    PROVE  AnalyticsAddUp(BuildAnalytics(report.got, report.window))
<1> DEFINE got == report.got
           v == BuildAnalytics(got, report.window)
           days == BucketDays(today, report.window)
           trend == got["trend"]
           C == DOMAIN got["clients"]
<1>1. \A q \in Reads["analytics"] : Told(q, got[q])
  BY DEF ReadForm
<1>2. /\ today \in Nat /\ today \in Days /\ \A u \in Users : usage[u] \in Rows
  BY DaysType, UsageTyped DEF OnlineInv, AnalyticsTypeOK
<1>3. /\ v.clients = [u \in C |-> ClientRow(got, u)]
      /\ v.window = BytesIn(trend, days) /\ v.today = BucketBytes(trend, today)
  BY DEF BuildAnalytics
<1>4. trend \in [Users -> Rows] /\ C \subseteq Users
  BY <1>1, ReadsKnown DEF Told
<1>5. DOMAIN v.clients = C /\ \A u \in C : /\ v.clients[u].window = TotalBytes(trend[u])
                                           /\ v.clients[u].today = BytesOf(trend[u], today)
                                           /\ v.clients[u].total = got["allTime"][u]
  BY <1>3 DEF ClientRow
<1>6. ASSUME "clients" \notin moved, "midnight" \notin moved
      PROVE  /\ SumFunction([u \in DOMAIN v.clients |-> v.clients[u].window]) = v.window
             /\ SumFunction([u \in DOMAIN v.clients |-> v.clients[u].today]) = v.today
  <2> DEFINE f == [u \in Users |-> TotalBytes(trend[u])]
             g == [u \in Users |-> BytesOf(trend[u], today)]
             fc == [u \in C |-> TotalBytes(trend[u])]
             gc == [u \in C |-> BytesOf(trend[u], today)]
  <2>1. C = Present /\ report.day = today
    BY <1>1, <1>6, ReadsKnown DEF Told, ReadForm
  <2>2. /\ \A u \in Users : f[u] \in Nat /\ g[u] \in Nat
        /\ \A u \in Users \ C : f[u] = 0 /\ g[u] = 0
    <3>1. \A u \in Users \ C : trend[u] = NoRows
      BY <1>1, <1>6, <2>1, ReadsKnown DEF Told
    <3> QED  BY <1>2, <1>4, <3>1, BytesType, NoBytes
  <2>3. \A u \in C : fc[u] = f[u] /\ gc[u] = g[u] /\ fc[u] \in Nat /\ gc[u] \in Nat
    BY <1>4, <2>2
  <2>4. SumFunctionOnSet(fc, C) = SumFunctionOnSet(f, Users) /\ SumFunctionOnSet(gc, C) = SumFunctionOnSet(g, Users)
    <3>1. IsFiniteSet(C)
      BY <1>4, FiniteDays, FS_Subset
    <3> HIDE DEF f, g, fc, gc, C
    <3>2. SumFunctionOnSet(fc, C) = SumFunctionOnSet(f, C) /\ SumFunctionOnSet(gc, C) = SumFunctionOnSet(g, C)
      BY <2>3, <3>1, SumEqual
    <3>3. SumFunctionOnSet(f, C) = SumFunctionOnSet(f, Users) /\ SumFunctionOnSet(g, C) = SumFunctionOnSet(g, Users)
      BY <1>4, <2>2, SumOfSome
    <3> QED  BY <3>2, <3>3
  <2>5. BytesIn(trend, days) = SumFunctionOnSet(f, Users)
    <3>1. days \in SUBSET Days
      BY DEF BucketDays
    <3>2. \A u \in Users : Recorded(trend[u]) \subseteq days
      <4>1. \A u \in Users : \A d \in Recorded(trend[u]) : d <= today /\ report.day < d + report.window
        BY <1>1, ReadsKnown DEF Told
      <4> QED  BY <2>1, <4>1 DEF BucketDays, Recorded
    <3> HIDE DEF days, trend
    <3> QED  BY <1>4, <3>1, <3>2, AllBuckets, TheBuckets
  <2>6. BucketBytes(trend, today) = SumFunctionOnSet(g, Users)
    BY DEF BucketBytes, SumFunction
  <2>7. /\ SumFunction([u \in DOMAIN v.clients |-> v.clients[u].window]) = SumFunctionOnSet(fc, C)
        /\ SumFunction([u \in DOMAIN v.clients |-> v.clients[u].today]) = SumFunctionOnSet(gc, C)
    <3>1. [u \in DOMAIN v.clients |-> v.clients[u].window] = fc /\ [u \in DOMAIN v.clients |-> v.clients[u].today] = gc
      <4> HIDE DEF v
      <4> QED  BY <1>5
    <3>2. DOMAIN fc = C /\ DOMAIN gc = C
      OBVIOUS
    <3> HIDE DEF v, fc, gc, C
    <3> QED  BY <3>1, <3>2 DEF SumFunction
  <2> HIDE DEF f, g, fc, gc, v, C, trend, days
  <2> QED  BY <1>3, <2>4, <2>5, <2>6, <2>7
<1>7. ASSUME "usage" \notin moved PROVE \A u \in C : v.clients[u].window <= v.clients[u].total
  <2>1. \A u \in Users : \A d \in Recorded(trend[u]) : trend[u][d] = usage[u][d]
    BY <1>1, <1>7, ReadsKnown DEF Told
  <2>2. \A u \in Users : got["allTime"][u] = TotalBytes(usage[u])
    BY <1>1, <1>7, ReadsKnown DEF Told
  <2>3. \A u \in Users : TotalBytes(trend[u]) <= TotalBytes(usage[u])
    BY <1>2, <1>4, <2>1, FewerBytes
  <2> HIDE DEF v, C
  <2> QED  BY <1>4, <1>5, <2>2, <2>3
<1> QED  BY <1>5, <1>6, <1>7 DEF AnalyticsAddUp

\* The steps of a report.  Another step changes nothing of it.
LEMMA ReportSame ==
    ASSUME ReportInv, Watch, report' = report, today \in Nat, today' \in Nat, today <= today'
    PROVE  ReportInv'
<1>1. AskedFor' /\ DOMAIN report' = ReportFields /\ (report'.pc = "primed" => report'.got = <<>>)
  BY DEF ReportInv, AskedFor
<1>2. ReadForm'
  <2> SUFFICES ASSUME report.pc = "reading" PROVE ReadForm'
    BY DEF ReadForm
  <2>1. moved' = moved \cup Moved
    BY DEF Watch
  <2>2. /\ report.day \in Nat /\ report.day <= today /\ ("midnight" \notin moved => report.day = today)
        /\ DOMAIN report.got \subseteq Reads[report.kind]
        /\ \A q \in DOMAIN report.got : Told(q, report.got[q])
    BY DEF ReportInv, ReadForm
  <2>3. \A q \in DOMAIN report.got : Told(q, report.got[q])'
    BY <2>1, <2>2, ToldStays
  <2>4. "midnight" \notin moved' => today' = today /\ "midnight" \notin moved
    BY <2>1 DEF Moved
  <2> QED  BY <2>2, <2>3, <2>4 DEF ReadForm
<1>3. ReportAddsUp'
  <2>1. report.pc = "shown" => moved' = moved
    BY DEF Watch
  <2> QED  BY <2>1 DEF ReportInv, ReportAddsUp
<1> QED  BY <1>1, <1>2, <1>3 DEF ReportInv

LEMMA ReportPrimed == PrimeDashboardData => ReportInv'
<1> SUFFICES ASSUME PrimeDashboardData PROVE ReportInv'
  OBVIOUS
<1>1. TrendDays \in Nat /\ \A w \in Windows : w \in Nat
  BY AnalyticsAssumption
<1>2. /\ DOMAIN report' = ReportFields /\ report'.pc = "primed" /\ report'.got = <<>>
      /\ report'.kind \in {"summary", "analytics"} /\ report'.window \in Nat
  BY <1>1 DEF PrimeDashboardData, Blank, ReportFields
<1> QED  BY <1>2 DEF ReportInv, AskedFor, ReadForm, ReportAddsUp

LEMMA ReportStarts ==
    ASSUME OnlineInv, ReportInv, StartReport
    PROVE  ReportInv'
<1>1. /\ today \in Nat /\ today' = today /\ report.pc = "primed"
      /\ report' = [report EXCEPT !.pc = "reading", !.day = today]
  BY DaysType DEF OnlineInv, AnalyticsTypeOK, StartReport
<1>2. /\ DOMAIN report = ReportFields /\ report.got = <<>>
      /\ report.kind \in {"summary", "analytics"} /\ report.window \in Nat
  BY <1>1 DEF ReportInv, AskedFor
<1>3. /\ DOMAIN report' = ReportFields /\ report'.pc = "reading" /\ report'.got = <<>>
      /\ report'.day = today /\ report'.kind = report.kind /\ report'.window = report.window
  BY <1>1, <1>2 DEF ReportFields
<1>4. DOMAIN report'.got = {}
  BY <1>3
<1> QED  BY <1>1, <1>2, <1>3, <1>4 DEF ReportInv, AskedFor, ReadForm, ReportAddsUp

LEMMA ReportReads ==
    ASSUME OnlineInv, ReportInv, Watch, NEW q, ReadQuery(q)
    PROVE  ReportInv'
<1>1. /\ today \in Nat /\ today' = today /\ report.pc = "reading"
      /\ q \in Reads[report.kind] /\ UNCHANGED <<status, usage>>
      /\ report' = [report EXCEPT !.got = [p \in DOMAIN @ \cup {q} |-> IF p = q THEN ReadNow(q) ELSE @[p]]]
  BY DaysType DEF OnlineInv, AnalyticsTypeOK, ReadQuery
<1>2. /\ DOMAIN report = ReportFields
      /\ report.kind \in {"summary", "analytics"} /\ report.window \in Nat
      /\ report.day \in Nat /\ report.day <= today /\ ("midnight" \notin moved => report.day = today)
      /\ DOMAIN report.got \subseteq Reads[report.kind]
      /\ \A p \in DOMAIN report.got : Told(p, report.got[p])
  BY <1>1 DEF ReportInv, AskedFor, ReadForm
<1>3. /\ DOMAIN report' = ReportFields /\ report'.pc = "reading"
      /\ report'.day = report.day /\ report'.kind = report.kind /\ report'.window = report.window
      /\ report'.got = [p \in DOMAIN report.got \cup {q} |-> IF p = q THEN ReadNow(q) ELSE report.got[p]]
  BY <1>1, <1>2 DEF ReportFields
<1>4. moved' = moved \cup Moved /\ Moved = {}
  BY <1>1 DEF Watch, Moved
<1>5. Told(q, ReadNow(q))
  <2>1. q \in Reads["analytics"] \cup Reads["summary"]
    BY <1>1, <1>2
  <2> QED  BY <1>2, <2>1, ReadTold
<1>6. PICK got : got = [p \in DOMAIN report.got \cup {q} |-> IF p = q THEN ReadNow(q) ELSE report.got[p]]
  OBVIOUS
<1>7. ASSUME NEW p \in DOMAIN got PROVE Told(p, got[p])'
  <2>1. Told(p, got[p])
    BY <1>2, <1>5, <1>6, <1>7
  <2>2. today' \in Nat /\ today <= today'
    BY <1>1
  <2> QED  BY <1>1, <1>3, <1>4, <2>1, <2>2, ToldStays
<1>8. report'.got = got /\ DOMAIN got \subseteq Reads[report'.kind]
  BY <1>1, <1>2, <1>3, <1>6
<1>9. ReadForm'
  BY <1>1, <1>2, <1>3, <1>4, <1>7, <1>8 DEF ReadForm
<1> QED  BY <1>2, <1>3, <1>9 DEF ReportInv, AskedFor, ReportAddsUp

LEMMA ReportBuilt ==
    ASSUME OnlineInv, ReportInv, Watch, BuildReport
    PROVE  ReportInv'
<1> DEFINE view == IF report.kind = "summary" THEN BuildSummary(report.got)
                   ELSE BuildAnalytics(report.got, report.window)
<1>1. /\ report.pc = "reading" /\ DOMAIN report.got = Reads[report.kind]
      /\ UNCHANGED <<today, status, usage>>
      /\ report' = [report EXCEPT !.pc = "shown", !.got = <<>>, !.view = view]
  BY DEF BuildReport
<1>2. /\ DOMAIN report = ReportFields /\ ReadForm
      /\ report.kind \in {"summary", "analytics"} /\ report.window \in Nat
  BY <1>1 DEF ReportInv, AskedFor
<1>3. /\ DOMAIN report' = ReportFields /\ report'.pc = "shown"
      /\ report'.kind = report.kind /\ report'.view = view
  <2> HIDE DEF view
  <2> QED  BY <1>1, <1>2 DEF ReportFields
<1>4. moved' = moved
  BY <1>1 DEF Watch, Moved
<1>5. CASE report.kind = "summary"
  <2>1. view = BuildSummary(report.got) /\ SummaryAddsUp(view)
    BY <1>1, <1>2, <1>5, SummaryBuilt
  <2> HIDE DEF view
  <2>2. ReportAddsUp'
    BY <1>3, <1>4, <1>5, <2>1 DEF ReportAddsUp, SummaryAddsUp
  <2> QED  BY <1>3, <2>2 DEF ReportInv, AskedFor, ReadForm
<1>6. CASE report.kind = "analytics"
  <2>1. view = BuildAnalytics(report.got, report.window) /\ AnalyticsAddUp(view)
    BY <1>1, <1>2, <1>6, AnalyticsBuilt
  <2> HIDE DEF view
  <2>2. ReportAddsUp'
    BY <1>3, <1>4, <1>6, <2>1 DEF ReportAddsUp, AnalyticsAddUp
  <2> QED  BY <1>3, <2>2 DEF ReportInv, AskedFor, ReadForm
<1> QED  BY <1>2, <1>5, <1>6

LEMMA ReportInvStep == OnlineInv /\ ReportInv /\ [AnalyticsHistoryNext]_analyticsHistoryVars => ReportInv'
<1> SUFFICES ASSUME OnlineInv, ReportInv, [AnalyticsHistoryNext]_analyticsHistoryVars PROVE ReportInv'
  OBVIOUS
<1>0. today \in Nat
  BY DaysType DEF OnlineInv, AnalyticsTypeOK
<1>1. CASE UNCHANGED analyticsHistoryVars
  <2>1. UNCHANGED <<today, status, usage, report, moved>>
    BY <1>1 DEF analyticsHistoryVars, analyticsVars
  <2>2. Present' = Present
    BY <2>1 DEF Present
  <2>3. \A q, a : Told(q, a)' <=> Told(q, a)
    BY <2>1, <2>2 DEF Told
  <2> QED  BY <2>1, <2>3 DEF ReportInv, AskedFor, ReadForm, ReportAddsUp
<1>2. ASSUME Watch, NEW seen \in [Users -> Observations], SnapshotStep(seen) PROVE ReportInv'
  <2>1. today' = today /\ (report' = report \/ PrimeDashboardData)
    BY <1>2 DEF SnapshotStep, Snapshot, Prime, PrimeDashboardData
  <2> QED  BY <1>0, <1>2, <2>1, ReportPrimed, ReportSame
<1>3. ASSUME Watch, EditStep PROVE ReportInv'
  <2>1. report' = report /\ (today' = today \/ today' = today + 1)
    BY <1>3 DEF EditStep, ResetUsage, RemoveUser, AddUser, MarkUser, Midnight, Edit
  <2>2. today' \in Nat /\ today <= today'
    BY <1>0, <2>1
  <2> QED  BY <1>0, <1>3, <2>1, <2>2, ReportSame
<1>4. ASSUME Watch, ReportStep PROVE ReportInv'
  BY <1>4, ReportPrimed, ReportStarts, ReportReads, ReportBuilt DEF ReportStep, PrimeWithoutSnapshot
<1>5. ASSUME Watch, NEW u \in Users, NEW item \in Items, ImportStep(u, item) PROVE ReportInv'
  <2>1. report' = report /\ today' = today
    BY <1>5 DEF ImportStep, ImportUser, Edit
  <2> QED  BY <1>0, <1>5, <2>1, ReportSame
<1> QED  BY <1>1, <1>2, <1>3, <1>4, <1>5 DEF AnalyticsHistoryNext

-------------------------------------------------------------------------------
(* The pages together.                                                     *)

LEMMA PanelTypeInit == HistoryInit => TypeOK /\ TaskForm
<1> SUFFICES ASSUME Init PROVE TypeOK /\ TaskForm
  BY DEF HistoryInit
<1>1. task \in [Slots -> Task] /\ TaskForm
  BY IdleForm DEF Init, TaskForm, Form
<1>2. Clients \in Filters /\ MaxClicks \in Nat /\ None \in Maybe
  BY Apart, PanelAssumption
<1>3. /\ exists \subseteq Clients /\ items \subseteq Clients
      /\ search \in Queries /\ deferred \in Queries \cup {None} /\ url \in Queries
      /\ filter \in Filters /\ clicks \in 0..MaxClicks
  BY <1>2 DEF Init
<1>4. /\ {selected, bundle, form, qrImage, drawing, selectedClientId} \subseteq Maybe
      /\ {isClientCardOpen, isClientCardOpenRef, isQrOpen, isLoading} \subseteq BOOLEAN
      /\ {listRequest, detailRequest} \subseteq Slots \cup {None}
  BY <1>2 DEF Init
<1> QED  BY <1>1, <1>3, <1>4 DEF Init, TypeOK

\* Every variable of the two pages keeps its type, for any observation of Xray
\* and any order of answers, edits, snapshots and queries.
THEOREM PagesTypeCorrect == PagesSpec => []PagesTypeOK
<1> DEFINE I == page \in {"clients", "dashboard"} /\ TypeOK /\ TaskForm /\ OnlineInv
<1>1. PagesInit => I
  BY PanelTypeInit, OnlineInit DEF PagesInit
<1>2. I /\ [PagesNext]_pagesVars => I'
  <2> SUFFICES ASSUME I, [PagesNext]_pagesVars PROVE I'
    OBVIOUS
  <2>1. page' = page
    BY DEF PagesNext, pagesVars
  <2>2. [Next]_vars /\ [AnalyticsHistoryNext]_analyticsHistoryVars
    BY DEF PagesNext, pagesVars, historyVars
  <2> QED  BY <2>1, <2>2, PanelTypeStep, OnlineStep
<1>3. I => PagesTypeOK
  BY DEF PagesTypeOK, OnlineInv
<1> QED  BY <1>1, <1>2, <1>3, PTL DEF PagesSpec

\* A client is shown connected if the last snapshot saw it so, or an import
\* since says so of it, and otherwise only on a later day and with counters at
\* rest: no order of snapshots, days, imports, resets, removals and reports
\* leaves anybody else online (performCaptureUsageSnapshot, importSingleClient,
\* buildDashboardSummary).
THEOREM OnlineAsSeen == PagesSpec => []OnlineExplained
<1>1. PagesInit => OnlineInv
  BY OnlineInit DEF PagesInit
<1>2. OnlineInv /\ [PagesNext]_pagesVars => OnlineInv'
  <2>1. [PagesNext]_pagesVars => [AnalyticsHistoryNext]_analyticsHistoryVars
    BY DEF PagesNext, pagesVars
  <2> QED  BY <2>1, OnlineStep
<1>3. OnlineInv => OnlineExplained
  BY DEF OnlineInv
<1> QED  BY <1>1, <1>2, <1>3, PTL DEF PagesSpec

\* The numbers of a report agree, whatever is added, removed, marked, recorded
\* or reset between its queries, unless what they are made of changed or the
\* day ended: then it is recorded that it did (summary, analyticsWithWindow,
\* buildDashboardTrends, buildDashboardAnalytics).
THEOREM ReportsAddUp == PagesSpec => []ReportAddsUp
<1> DEFINE I == OnlineInv /\ ReportInv
<1>1. PagesInit => I
  <2> SUFFICES ASSUME AnalyticsHistoryInit PROVE I
    BY DEF PagesInit
  <2>1. report = Blank /\ Blank.pc = "idle" /\ DOMAIN Blank = ReportFields
    BY DEF AnalyticsHistoryInit, AnalyticsInit, Blank, ReportFields
  <2> QED  BY <2>1, OnlineInit DEF ReportInv, AskedFor, ReadForm, ReportAddsUp
<1>2. I /\ [PagesNext]_pagesVars => I'
  <2>1. [PagesNext]_pagesVars => [AnalyticsHistoryNext]_analyticsHistoryVars
    BY DEF PagesNext, pagesVars
  <2> QED  BY <2>1, OnlineStep, ReportInvStep
<1>3. I => ReportAddsUp
  BY DEF ReportInv
<1> QED  BY <1>1, <1>2, <1>3, PTL DEF PagesSpec

\* What the Clients page does in a step of the pages.
LEMMA PageStep == [PagesNext]_pagesVars => [Next /\ TrackHistory]_historyVars
  BY DEF PagesNext, pagesVars

\* Card, edit form, config and QR code never come from two clients, whichever
\* answers overtake each other and whatever is clicked meanwhile
\* (loadClientDetails, clearSelectedClient, the QR effect).
THEOREM CardStaysOfOneClient == PagesSpec => []CardOfOneClient
<1> DEFINE I == TypeOK /\ TaskForm /\ CardOfOneClient /\ CodeForm
<1>1. PagesInit => I
  <2>1. Init => CardOfOneClient /\ CodeForm
    BY Apart, PanelAssumption DEF Init, CardOfOneClient, CodeForm
  <2> QED  BY <2>1, PanelTypeInit DEF PagesInit, HistoryInit
<1>2. I /\ [PagesNext]_pagesVars => I'
  <2> SUFFICES ASSUME I, [Next /\ TrackHistory]_historyVars PROVE I'
    BY PageStep
  <2>1. CASE UNCHANGED historyVars
    <3>1. TypeOK' /\ TaskForm'
      BY <2>1, PanelTypeStep DEF historyVars
    <3> QED  BY <2>1, <3>1 DEF historyVars, vars, cardVars, qrVars, CardOfOneClient, CodeForm
  <2>2. CASE Next
    BY <2>2, PanelTypeStep, CardOfOneStep
  <2> QED  BY <2>1, <2>2
<1>3. I => CardOfOneClient
  OBVIOUS
<1> QED  BY <1>1, <1>2, <1>3, PTL DEF PagesSpec

\* The open card is of the client asked for last, and a closed one stays
\* closed, unless a list read again has turned it (handleOpenClientCard,
\* loadClients, loadClientDetails).
THEOREM CardStaysExplained == PagesSpec => []CardExplained
<1> DEFINE I == TypeOK /\ TaskForm /\ DetailAsked /\ CardExplained
<1>1. PagesInit => I
  <2>1. Init => DetailAsked /\ CardExplained
    BY DEF Init, DetailAsked, CardExplained
  <2> QED  BY <2>1, PanelTypeInit DEF PagesInit, HistoryInit
<1>2. I /\ [PagesNext]_pagesVars => I'
  <2> SUFFICES ASSUME I, [Next /\ TrackHistory]_historyVars PROVE I'
    BY PageStep
  <2>1. CASE UNCHANGED historyVars
    <3>1. TypeOK' /\ TaskForm'
      BY <2>1, PanelTypeStep DEF historyVars
    <3> QED  BY <2>1, <3>1 DEF historyVars, vars, cardVars, refVars, DetailAsked, CardExplained
  <2>2. CASE Next /\ TrackHistory
    BY <2>2, PanelTypeStep, CardExplainedStep
  <2> QED  BY <2>1, <2>2
<1>3. I => CardExplained
  OBVIOUS
<1> QED  BY <1>1, <1>2, <1>3, PTL DEF PagesSpec

\* Loading is told truly, and when nothing is under way the table is what the
\* server has for the query, unless a cause was recorded, whatever the order
\* of changes, answers, searches and renderings (loadClients, the effects on
\* the query and on the selection).
THEOREM ListStaysExplained == PagesSpec => []ListExplained
<1> DEFINE I == TypeOK /\ TaskForm /\ LoadingTold /\ SelectionListed /\ ReplyFresh /\ ListComes
<1>1. PagesInit => I
  <2>1. Init => LoadingTold /\ SelectionListed
    BY DEF Init, LoadingTold, SelectionListed
  <2>2. Init => ReplyFresh /\ ListComes
    BY Apart DEF Init, ReplyFresh, ListComes, Reading
  <2> QED  BY <2>1, <2>2, PanelTypeInit DEF PagesInit, HistoryInit
<1>2. I /\ [PagesNext]_pagesVars => I'
  <2> SUFFICES ASSUME I, [Next /\ TrackHistory]_historyVars PROVE I'
    BY PageStep
  <2>1. CASE UNCHANGED historyVars
    <3>1. TypeOK' /\ TaskForm'
      BY <2>1, PanelTypeStep DEF historyVars
    <3>2. LoadingTold' /\ SelectionListed'
      BY <2>1 DEF historyVars, vars, queryVars, listVars, cardVars, LoadingTold, SelectionListed, filteredClients
    <3>3. ReplyFresh' /\ ListComes'
      BY <2>1 DEF historyVars, vars, queryVars, listVars, ReplyFresh, ListComes, Reading, Changing, Current
    <3> QED  BY <3>1, <3>2, <3>3
  <2>2. CASE Next /\ TrackHistory
    BY <2>2, PanelTypeStep, ListSteps, LoadingAfter, SelectionStep, ListComesStep
  <2> QED  BY <2>1, <2>2
<1>3. I => ListExplained
  <2> SUFFICES ASSUME I PROVE ListExplained
    OBVIOUS
  <2>1. deferred # None => (isLoading <=> listRequest # None)
    BY DEF LoadingTold
  <2>2. ASSUME Settled, cause = {}
        PROVE  items = Matching[search] \cap exists /\ selected \in items \cup {None}
    <3>1. ~Changing /\ deferred = search /\ deferred # None /\ due = {} /\ \A r \in Slots : ~Reading(r)
      BY <2>2, Apart DEF Settled, Changing, Reading, TypeOK
    <3> QED  BY <2>2, <3>1 DEF ListComes, Current, SelectionListed, filteredClients
  <2> QED  BY <2>1, <2>2 DEF ListExplained
<1> QED  BY <1>1, <1>2, <1>3, PTL DEF PagesSpec
===============================================================================
