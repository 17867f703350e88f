----------------------------- MODULE ClientImport -----------------------------
(***************************************************************************)
(* importClients: the items of an export are stored one after the other,   *)
(* each in a transaction of its own, and only after the last one are the   *)
(* clients written brought to Xray, all at once.  An item that throws ends *)
(* the request in between.                                                 *)
(*                                                                         *)
(* An item keeps the tag and the id of its client, and a file has one item *)
(* per client at most.  The traffic an item brings is any, as in a file    *)
(* exported before a reset, or from another panel.                         *)
(***************************************************************************)
EXTENDS ClientsService

\* The row of an item: a limit is kept beside isTrafficUnlimited, and the status
\* is judged with the traffic the item brings.
Imported(p, used, t) ==
    LET row == [Created(p, t) EXCEPT !.limit = Given(p.limit, NoLimit)]
    IN  [row EXCEPT !.status = EffectiveStatus(row, used, t)]

\* "overwrite" is an import with overwriteExisting.
Import(r, op) ==
    /\ op \in {"import", "overwrite"}
    /\ Submit(r, op)
    /\ \E items \in SUBSET Clients :
         /\ items # {}
         /\ Go(r, [IdleReq EXCEPT !.op = op, !.pc = "find", !.todo = items])
    /\ UNCHANGED <<dbVars, xrayVars, memVars, now, sent, imported, taskVars, faults>>

\* Rows written and not yet synchronised.
Unapplied(rec) == {c \in Clients : Stored(rec.rows[c])}

\* After the last item the rows written are synchronised.
NextItem(r, rec) ==
    Go(r, IF rec.todo # {} THEN [rec EXCEPT !.pc = "find"]
          ELSE IF Unapplied(rec) # {} THEN [rec EXCEPT !.pc = "importSync"]
          ELSE IdleReq)

\* The next item is looked up, and left out if its client may not be replaced.
\* A deleted client, which would come back under a new id, is left out too.
ImportFind(r, c) ==
    LET old == req[r] IN
    /\ old.pc = "find"
    /\ c \in old.todo
    /\ IF db[c].status = "DELETED" \/ (Stored(db[c]) /\ old.op = "import")
       THEN NextItem(r, [old EXCEPT !.todo = @ \ {c}])
       ELSE Go(r, [old EXCEPT !.pc = "importWrite", !.c = c, !.row = db[c]])
    /\ UNCHANGED <<dbVars, xrayVars, memVars, envVars, taskVars, faults>>

\* The client is still there, or still not there, as it was found.
AsFound(r) == IF Stored(req[r].row) THEN Stored(db[req[r].c])
              ELSE db[req[r].c].status = "UNBORN"

WriteItem(r, c, row) ==
    /\ db' = [db EXCEPT ![c] = row]
    /\ NextItem(r, [req[r] EXCEPT !.c = Nobody, !.todo = @ \ {c}, !.rows[c] = row])

\* What an item that brings `used` puts on record beyond what was there.
Surplus(c, used) == IF used > usage[c] THEN used - usage[c] ELSE 0

\* The row and the usage of the client are replaced by those of the item.
ImportWrite(r) ==
    LET c == req[r].c IN
    /\ req[r].pc = "importWrite"
    /\ AsFound(r)
    /\ \E p \in Payloads, used \in 0..MaxTraffic :
         /\ WriteItem(r, c, Imported(p, used, now))
         /\ usage' = [usage EXCEPT ![c] = used]
         /\ imported' = [imported EXCEPT ![c] = @ + Surplus(c, used)]
    /\ UNCHANGED <<xrayVars, memVars, now, issued, sent, taskVars, faults>>

\* An item without a transport passes the schema and throws here, as does a
\* transaction whose client has gone or come meanwhile.  What was stored
\* before stays, and is not synchronised.
ImportThrows(r) ==
    /\ req[r].pc = "importWrite"
    /\ Finish(r)
    /\ UNCHANGED <<dbVars, xrayVars, memVars, envVars, taskVars, faults>>

-------------------------------------------------------------------------------
(***************************************************************************)
(* The synchronisations run side by side, each on the row its item stored; *)
(* todo holds the clients between removal and re-adding.                   *)
(***************************************************************************)
Applied(r, c) ==
    LET rec == [req[r] EXCEPT !.todo = @ \ {c}, !.rows[c] = NoRow("UNBORN")]
    IN  Go(r, IF Unapplied(rec) # {} THEN rec ELSE IdleReq)

Waits(r, c) == /\ req[r].pc = "importSync"
               /\ c \in Unapplied(req[r]) \ req[r].todo

ImportAdd(r, c) ==
    /\ Waits(r, c)
    /\ Servable(req[r].rows[c], now)
    /\ \/ AddUser(c) /\ provisioned' = TRUE /\ Applied(r, c)
       \/ /\ ReplaceUser(c)
          /\ Go(r, [req[r] EXCEPT !.todo = @ \cup {c}])
          /\ UNCHANGED provisioned
    /\ UNCHANGED <<dbVars, xrayRest, lastUptime, envVars, taskVars>>

ImportReAdd(r, c) ==
    /\ req[r].pc = "importSync" /\ c \in req[r].todo
    /\ AddUser(c)
    /\ provisioned' = TRUE
    /\ Applied(r, c)
    /\ UNCHANGED <<dbVars, xrayRest, lastUptime, envVars, taskVars>>

ImportDrop(r, c) ==
    /\ Waits(r, c)
    /\ ~Servable(req[r].rows[c], now)
    /\ DropUser(c)
    /\ Applied(r, c)
    /\ UNCHANGED <<dbVars, xrayRest, memVars, envVars, taskVars>>

ImportSyncFails(r, c) ==
    /\ \/ Waits(r, c) /\ UserCallFails
       \/ req[r].pc = "importSync" /\ c \in req[r].todo /\ ReAddFails(c)
    /\ Applied(r, c)
    /\ UNCHANGED <<dbVars, xrayRest, memVars, envVars, taskVars>>

ImportStep(r) ==
    \/ ImportWrite(r) \/ ImportThrows(r)
    \/ \E c \in Clients :
          \/ ImportFind(r, c)
          \/ ImportAdd(r, c) \/ ImportReAdd(r, c) \/ ImportDrop(r, c) \/ ImportSyncFails(r, c)
===============================================================================
