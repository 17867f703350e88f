------------------------------ MODULE SessionLife ------------------------------
(***************************************************************************)
(* What the API promises of its sessions, without calls, cookies, tokens   *)
(* or a clock: a session is opened once, by the login its id was drawn     *)
(* for, and is renewed only by who found it live.  It may end at any time; *)
(* then nothing but a renewal that had begun before brings it back, and    *)
(* once none is left the session is over for good.                         *)
(***************************************************************************)
CONSTANT Ids

VARIABLES
    issued,    \* ids drawn so far
    opening,   \* those whose login has still to open the session
    live,      \* sessions that may be renewed
    renewing   \* sessions somebody has found live and is about to renew

life == <<issued, opening, live, renewing>>

LifeInit ==
    /\ issued \in SUBSET Ids
    /\ opening = {} /\ renewing = {}
    /\ live \in SUBSET issued

Draw(s) ==
    /\ s \notin issued
    /\ issued' = issued \cup {s}
    /\ opening' = opening \cup {s}
    /\ UNCHANGED <<live, renewing>>

Open(s) ==
    /\ s \in opening
    /\ opening' = opening \ {s}
    /\ live' = live \cup {s}
    /\ UNCHANGED <<issued, renewing>>

Find(s) ==
    /\ s \in live
    /\ renewing' = renewing \cup {s}
    /\ UNCHANGED <<issued, opening, live>>

\* Others may be about to renew the session as well.
Renew(s) ==
    /\ s \in renewing
    /\ live' = live \cup {s}
    /\ renewing' \in {renewing, renewing \ {s}}
    /\ UNCHANGED <<issued, opening>>

\* Any sessions end, any logins and renewals fail.
End ==
    /\ live' \subseteq live
    /\ opening' \subseteq opening
    /\ renewing' \subseteq renewing
    /\ UNCHANGED issued

LifeNext == End \/ \E s \in Ids : Draw(s) \/ Open(s) \/ Find(s) \/ Renew(s)

LifeSpec == LifeInit /\ [][LifeNext]_life

-------------------------------------------------------------------------------
\* Over: drawn, and neither live nor about to be.
Over == issued \ (opening \cup live \cup renewing)

\* A session that is over stays over.
OverForGood == [][Over \subseteq Over']_life
===============================================================================
