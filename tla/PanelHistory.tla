---------------------------- MODULE PanelHistory ----------------------------
(***************************************************************************)
(* Panel with history variables, which never influence a step: the client  *)
(* the user asked for last, and why list or card may show something else.  *)
(***************************************************************************)
EXTENDS Panel

VARIABLES
    wanted,   \* the client asked for last, None once the card is closed
    pulled,   \* a list that was read again has turned to another client
    cause     \* why the list may not be that of the query

historyVars == <<vars, wanted, pulled, cause>>

Asked(c) == \E s \in Slots : /\ task[s].pc = "idle" /\ task'[s].pc = "detail"
                             /\ task'[s].detail = c
CardCloses == isClientCardOpen /\ ~isClientCardOpen'
AskFails == /\ detailRequest \in Slots /\ detailRequest' = None
            /\ task[detailRequest].reply = Failed
Pulls == \E s \in Slots : /\ task[s].pc = "list" /\ task'[s].pc = "detail"
                          /\ task'[s].detail # wanted

\* A list is shown that a handler asked for with another query than the page
\* last did; a change or a list failed, the change perhaps after it was made.
OtherQuery == \E s \in Slots : /\ Listed(s)
                               /\ task[s].query # deferred
LostAnswer == \E s \in Slots : /\ task[s].pc \in {"send", "list"} /\ task[s].reply = Failed
                               /\ task'[s].pc = "idle"

TrackHistory ==
    /\ wanted' = CASE CardCloses -> None
                   [] AskFails /\ ~CardCloses -> selected
                   [] \E c \in Clients : Asked(c) -> CHOOSE c \in Clients : Asked(c)
                   [] OTHER -> wanted
    /\ pulled' = /\ ~CardCloses /\ ~\E c \in Clients : Asked(c)
                 /\ pulled \/ Pulls
    /\ cause' = IF /\ \E s \in Slots : Listed(s)
                   /\ deferred' = search' /\ items' = Matching[search'] \cap exists'
                THEN {}
                ELSE cause \cup {x \in {"other query", "lost"} :
                                   \/ x = "other query" /\ OtherQuery
                                   \/ x = "lost" /\ LostAnswer}

HistoryInit == Init /\ wanted = None /\ pulled = FALSE /\ cause = {}
HistorySpec == HistoryInit /\ [][Next /\ TrackHistory]_historyVars

-------------------------------------------------------------------------------
\* Nothing is under way.
Settled == /\ due = {} /\ deferred = search
           /\ \A s \in Slots : task[s].pc = "idle"

\* Once the first list is asked for, the page says that it is loading exactly
\* while the latest list request is under way, with the details read after it.
\* When nothing is under way the table is what the server has for the query
\* in the search box, and shows no client that was deleted here, unless a
\* handler read the list with the query of another rendering, or an answer
\* was lost.  No order of answers, edits and searches does it otherwise.
ListExplained ==
    /\ deferred # None => (isLoading <=> listRequest # None)
    /\ Settled /\ cause = {} =>
          /\ items = Matching[search] \cap exists
          /\ selected \in items \cup {None}

\* The open card is of the client asked for last, and a card that was closed
\* stays closed whatever answers are still to come; only a list read again
\* after an action on another row, or after a failure, may turn it.
CardExplained ==
    isClientCardOpen /\ detailRequest = None => selected = wanted \/ pulled
=============================================================================
