----------------------------- MODULE ClientPolicy -----------------------------
(***************************************************************************)
(* The data of a VPN client and the pure rules the API applies to it: what *)
(* status a stored row resolves to, and what an update or an extension     *)
(* writes.  Nothing here has state; the control-plane modules share it.    *)
(*                                                                         *)
(* Dates are points of an integer clock, traffic is counted in units.      *)
(* NoDate and NoLimit are the nulls of expiresAt and trafficLimitBytes,    *)
(* Keep is a field an update payload leaves out (undefined).               *)
(***************************************************************************)
EXTENDS Integers

CONSTANTS NoDate, NoLimit, Keep

ASSUME NullAssumption == NoDate \notin Int /\ NoLimit \notin Int

ClientStatus == {"ACTIVE", "DISABLED", "EXPIRED", "BLOCKED"}

Date == Int \cup {NoDate}

\* create-client.dto.ts requires a limit of at least 1.
Limit == (Nat \ {0}) \cup {NoLimit}

\* A stored client.  "UNBORN" (never created) and "DELETED" mark the ids that
\* have no row; a row always has WireGuard enabled here, so vless may be off.
Row == [status    : ClientStatus \cup {"UNBORN", "DELETED"},
        expiresAt : Date,
        limit     : Limit,
        unlimited : BOOLEAN,
        vless     : BOOLEAN]

NoRow(mark) == [status |-> mark, expiresAt |-> NoDate, limit |-> NoLimit,
                unlimited |-> FALSE, vless |-> FALSE]

Stored(row) == row.status \in ClientStatus

IsExpired(row, now) == row.expiresAt # NoDate /\ row.expiresAt <= now

OverQuota(row, used) ==
    ~row.unlimited /\ row.limit # NoLimit /\ used >= row.limit

\* resolveEffectiveClientStatus: the operator's decisions win, then the expiry
\* date, then the quota; a stored EXPIRED whose date moved is ACTIVE again.
EffectiveStatus(row, used, now) ==
    IF row.status \in {"DISABLED", "BLOCKED"} THEN row.status
    ELSE IF IsExpired(row, now)               THEN "EXPIRED"
    ELSE IF OverQuota(row, used)              THEN "BLOCKED"
    ELSE "ACTIVE"

\* Whether Xray should accept the client.  The callers pass no used traffic.
Servable(row, now) ==
    /\ Stored(row)
    /\ row.vless
    /\ EffectiveStatus(row, 0, now) = "ACTIVE"

-------------------------------------------------------------------------------
\* The fields of an update or create payload as the service receives them.
\* vless is Keep only when the body says null: the validation pipe starts from
\* the initialisers of CreateClientDto, which UpdateClientDto inherits, so in a
\* body that leaves vlessEnabled out it arrives TRUE.
Payload == [status    : ClientStatus \cup {Keep},
            expiresAt : Date \cup {Keep},
            limit     : Limit \cup {Keep},
            unlimited : BOOLEAN \cup {Keep},
            vless     : BOOLEAN \cup {Keep}]

Given(new, old) == IF new = Keep THEN old ELSE new

\* resolveTrafficLimit: an unlimited or missing limit is stored as null.
ResolveLimit(unlimited, limit) ==
    IF unlimited \/ limit = Keep THEN NoLimit ELSE limit

\* The row an update stores.  Everything but the limit is written, from the
\* payload or from `existing`, the row read before the transaction; the limit
\* is written only when the payload touches it, else `current` keeps its own.
Updated(existing, current, p, now) ==
    LET unlimited  == Given(p.unlimited, existing.unlimited)
        limitGiven == p.limit # Keep \/ p.unlimited # Keep
        judged == [status    |-> Given(p.status, existing.status),
                   expiresAt |-> Given(p.expiresAt, existing.expiresAt),
                   limit     |-> IF limitGiven THEN ResolveLimit(unlimited, p.limit)
                                 ELSE existing.limit,
                   unlimited |-> unlimited,
                   vless     |-> Given(p.vless, existing.vless)]
    IN  [judged EXCEPT !.status = EffectiveStatus(judged, 0, now),
                       !.limit  = IF limitGiven THEN judged.limit ELSE current.limit]

\* The row a creation stores: absent fields take the defaults of create().
Created(p, now) ==
    LET blank == [status |-> "ACTIVE", expiresAt |-> NoDate, limit |-> NoLimit,
                  unlimited |-> FALSE, vless |-> TRUE]
    IN  Updated(blank, blank, p, now)

\* The status a traffic reset stores, judged on the row read before it.
StatusAfterReset(existing, now) ==
    IF existing.status = "BLOCKED"
    THEN EffectiveStatus([existing EXCEPT !.status = "ACTIVE"], 0, now)
    ELSE existing.status
===============================================================================
