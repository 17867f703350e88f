---------------------------- MODULE MCControlPlane ----------------------------
(* Finite instances of ControlPlane for TLC. *)
EXTENDS ControlPlane, TLC

CONSTANTS c1, c2, r1, r2

ActiveRow  == [status |-> "ACTIVE", expiresAt |-> NoDate, limit |-> NoLimit,
               unlimited |-> FALSE, vless |-> TRUE]
QuotaRow   == [ActiveRow EXCEPT !.limit = 1]
ExpiringRow == [ActiveRow EXCEPT !.expiresAt = 1]
LimitedRow == [QuotaRow EXCEPT !.expiresAt = 1]

\* An empty body; VLESS arrives switched on (see Payload).
Empty == [status |-> Keep, expiresAt |-> Keep, limit |-> Keep,
          unlimited |-> Keep, vless |-> TRUE]

Table(row1, row2) == [c \in Clients |-> IF c = c1 THEN row1 ELSE row2]
OnePlainClient    == {Table(ActiveRow, ActiveRow)}
OneExpiringClient == {Table(ExpiringRow, ExpiringRow)}
NewOrQuotaClient  == {Table(QuotaRow, QuotaRow), Table(NoRow("UNBORN"), QuotaRow)}
OneLimitedClient  == {Table(LimitedRow, LimitedRow)}
\* One client from its creation on, or two with quotas.
OneOrTwoClients   == {Table(QuotaRow, NoRow("UNBORN")), Table(NoRow("UNBORN"), NoRow("UNBORN")),
                      Table(LimitedRow, QuotaRow)}
TwoPayloads       == {Empty, [Empty EXCEPT !.status = "DISABLED"]}
SmallPayloads     == {Empty, [Empty EXCEPT !.status = "DISABLED"],
                      [Empty EXCEPT !.vless = FALSE]}

Importing(r) == req[r].op \in {"import", "overwrite"}
Imports == (\E r \in Requests : Importing(r)) \/ \E c \in Clients : db[c].limit = NoLimit

\* Keeps the instances of OneOrTwoClients small: on the one client, which never
\* expires later, every request but an import, and a fault; on the two, which
\* may, a list or an extension of the first, or an import (whose items have no
\* limit) without traffic and snapshots.
OneOfTwoInstances ==
    IF db[c2].status = "UNBORN"
    THEN now = 0 /\ req[r1].c # c2 /\ ~Importing(r1)
    ELSE /\ faults = 0
         /\ req[r1].op \notin {"create", "update", "remove", "dashboard"}
         /\ Importing(r1) \/ req[r1].c # c2
         /\ Imports => now = 0 /\ snap = IdleSnap /\ \A c \in Clients : sent[c] = 0

\* Request slots are alike, for safety.
AnyRequest == Permutations(Requests)
===============================================================================
