---------------------------- MODULE WireguardHistory ---------------------------
(***************************************************************************)
(* Wireguard with history variables, which never influence a step and only *)
(* record why the file may differ from the client table, and the interface *)
(* from the file, so that the guarantees the code does give can be stated. *)
(***************************************************************************)
EXTENDS Wireguard

VARIABLES
    stale,  \* clients with a known cause for a wrong entry in the file
    raced   \* the file changed between a hash of the loop and its use

historyVars == <<vars, stale, raced>>

Concerns(j) == IF j = Boot THEN Clients ELSE {job[j].c}

\* A call ends this step without having rendered, or joins a rendering that
\* has read the clients already.
Unrendered(j) ==
    \/ /\ job[j].pc \in {"read", "create"} /\ job[j].op # "bundle"
       /\ job'[j].pc = "idle"
    \/ job[j].pc = "await" /\ job'[j].pc = "idle" /\ job[Render].pc # "write"
    \/ /\ job[j].pc = "join" /\ job'[j].pc = "await"
       /\ job[Render].pc \in {"truncate", "write"}

\* The clients for whose entry this step is a cause of being wrong.
Missed == IF ApiRestart THEN Clients
          ELSE {c \in Clients : Lapse(c)}
               \cup UNION {Concerns(j) : j \in {i \in Jobs \ {Render} : Unrendered(i)}}

Missing(c) == Wanted(c) /\ peer[c] = NoPeer

\* The rendering's read makes up for all of them but a missing peer.
TrackStale ==
    stale' = IF RenderReread THEN {c \in stale : Missing(c)} ELSE stale \cup Missed

TrackRaced ==
    raced' = CASE loop'.pc \in {"wait", "up"} -> FALSE
               [] loop.pc = "check" /\ loop'.pc = "apply" -> FALSE
               [] loop.pc \in {"hash", "apply"} /\ file' # file -> TRUE
               [] OTHER -> raced

HistoryInit == Init /\ stale = {} /\ raced = FALSE
HistoryNext == Next /\ TrackStale /\ TrackRaced
HistorySpec == HistoryInit /\ [][HistoryNext]_historyVars

FairHistorySpec == HistorySpec /\ Fairness

-------------------------------------------------------------------------------
\* Unless the file is about to be rewritten, the entry of a client that no call is about
\* is wrong only for a known cause: its access lapsed, its call failed or came
\* too late for the rendering it joined, or the API restarted.
InHand(c) == job[Boot].pc # "idle" \/ \E r \in Requests : job[r].pc # "idle" /\ job[r].c = c
FileExplained ==
    job[Render].pc \notin {"truncate", "write"} =>
        \A c \in Clients : InHand(c) \/ c \in stale \/ InFile(c)

\* When the loop finds the file's hash unchanged, the interface serves the
\* file, unless the file changed between an earlier hash and its use.
InterfaceFollows ==
    loop.pc = "check" /\ file = loop.seen /\ ~raced => iface = file
===============================================================================
