-------------------------------- MODULE Backups --------------------------------
(***************************************************************************)
(* Backups: the table BackupSnapshot, the archives and work directories in *)
(* the backup directory, the automatic maintenance, the calls of the       *)
(* panel, and restore.sh, which replaces the table under a running API.    *)
(***************************************************************************)
EXTENDS Naturals

CONSTANTS
    Timer,        \* the automatic maintenance
    Calls,        \* slots for requests of the panel
    Loose,        \* removals whose caller has already failed
    NoRow, NoFile, NoDir, None,
    Placeholder,  \* fileName and checksum of a row until its archive exists
    Interval,     \* BACKUP_AUTO_CREATE_INTERVAL_DAYS
    Retention,    \* BACKUP_RETENTION_DAYS
    Pending,      \* BACKUP_AUTO_MAINTENANCE_INTERVAL_MS
    MaxRows,      \* bound on the rows ever made
    MaxTime,      \* bound on the clock
    MaxEvents     \* bound on requests, faults and runs of restore.sh

Ids      == 1 .. MaxRows
Jobs     == {Timer} \cup Calls
Owners   == Jobs \cup {Loose}
Parts    == {"postgres.sql", "manifest.json"}
\* Archives are named after the second they are begun in.
Names    == [by : {"api", "restore.sh"}, at : 0 .. MaxTime]
Checksum == [of : Ids, parts : SUBSET Parts]

Row == [status : {"CREATING", "READY", "FAILED", "PRUNED", "RESTORED"},
        at     : 0 .. MaxTime,
        name   : Names \cup {Placeholder},
        sum    : Checksum \cup {Placeholder}]

Table == [Ids -> Row \cup {NoRow}]

Staged  == [parts : SUBSET Parts, table : Table]
Content == [of : Ids, parts : SUBSET Parts, table : Table]

ASSUME BackupsAssumption ==
    /\ {Interval, Retention, Pending, MaxRows} \subseteq Nat \ {0}
    /\ {MaxTime, MaxEvents} \subseteq Nat
    /\ Timer \notin Calls /\ Loose \notin Jobs
    /\ None \notin Ids \cup Names \cup Checksum
    /\ NoRow \notin Row /\ NoFile \notin Content /\ NoDir \notin Staged
    /\ Placeholder \notin Names \cup Checksum

VARIABLES
    now,      \* the clock
    row,      \* BackupSnapshot
    archive,  \* the archives in BACKUP_DIR
    dir,      \* the work directories in it, by the row they are for
    job,      \* maintenance and requests in progress
    work,     \* what each of them still has to remove
    script,   \* restore.sh
    made,     \* rows made so far
    events    \* requests, faults and restores so far

vars == <<now, row, archive, dir, job, work, script, made, events>>

NoTable == [i \in Ids |-> NoRow]
Emptied == [parts |-> {}, table |-> NoTable]
Partial(i) == [of |-> i, parts |-> {}, table |-> NoTable]

Job == [kind : {"none", "automatic", "manual", "list", "remove", "plan"},
        pc   : {"idle", "stale", "prune", "sweep",
                "insert", "dump", "tar", "ready", "failed",
                "erase", "delete", "entries", "manifest", "hash"},
        id   : Ids \cup {None},
        name : Names \cup {Placeholder, None},
        sum  : Checksum \cup {Placeholder, None},
        seen : SUBSET Parts]

IdleJob == [kind |-> "none", pc |-> "idle", id |-> None, name |-> None, sum |-> None,
            seen |-> {}]

Item == [id : Ids, name : Names \cup {Placeholder, None},
         do : {"file", "row", "contents", "directory"}]

Script == [pc : {"idle", "table", "mark", "restart"},
           from : Content \cup {None}, name : Names \cup {None},
           id : Ids \cup {None}]

IdleScript == [pc |-> "idle", from |-> None, name |-> None, id |-> None]

TypeOK ==
    /\ now \in 0 .. MaxTime
    /\ row \in Table
    /\ archive \in [Names -> Content \cup {NoFile}]
    /\ dir \in [Ids -> Staged \cup {NoDir}]
    /\ job \in [Jobs -> Job]
    /\ work \in [Owners -> SUBSET Item]
    /\ script \in Script
    /\ made \in 0 .. MaxRows
    /\ events \in 0 .. MaxEvents

Init ==
    /\ now = 0
    /\ row = NoTable
    /\ archive = [n \in Names |-> NoFile]
    /\ dir = [i \in Ids |-> NoDir]
    /\ job = [j \in Jobs |-> IdleJob]
    /\ work = [o \in Owners |-> {}]
    /\ script = IdleScript
    /\ made = 0
    /\ events = 0

Stored(i) == row[i] # NoRow
At(j, pc) == job[j].pc = pc
Go(j, pc) == job' = [job EXCEPT ![j].pc = pc]
End(j)    == job' = [job EXCEPT ![j] = IdleJob]
NewRow(status, name, sum) == [status |-> status, at |-> now, name |-> name, sum |-> sum]

Event == events < MaxEvents /\ events' = events + 1

\* Bound: no time passes while restore.sh runs.
Tick ==
    /\ now < MaxTime /\ script.pc = "idle"
    /\ now' = now + 1
    /\ UNCHANGED <<row, archive, dir, job, work, script, made, events>>

-------------------------------------------------------------------------------
(* What maintenance decides. *)

Successful == {i \in Ids : Stored(i) /\ row[i].status \in {"PRUNED", "READY", "RESTORED"}}

\* isAutomaticBackupDue
Due == \A i \in Successful : now - row[i].at >= Interval

RecentlyBegun == \E i \in Ids :
    Stored(i) /\ row[i].status = "CREATING" /\ now - row[i].at < Pending

\* While the last maintenance is still running the timer joins it.  Without a
\* backup to make maintenance prunes all the same, as a list does.
Maintain ==
    /\ At(Timer, "idle")
    /\ job' = [job EXCEPT
          ![Timer].kind = IF RecentlyBegun \/ ~Due THEN "list" ELSE "automatic",
          ![Timer].pc = "stale"]
    /\ UNCHANGED <<now, row, archive, dir, work, script, made, events>>

Request(j, kind) ==
    /\ j \in Calls /\ At(j, "idle")
    /\ Event
    /\ job' = [job EXCEPT ![j].kind = kind, ![j].pc = "stale"]
    /\ UNCHANGED <<now, row, archive, dir, work, script, made>>

Remove(j) ==
    /\ j \in Calls /\ At(j, "idle")
    /\ Event
    /\ \E i \in {k \in Ids : Stored(k) /\ row[k].status # "CREATING"} :
          job' = [job EXCEPT ![j] = [IdleJob EXCEPT
                     !.kind = "remove", !.pc = "erase", !.id = i, !.name = row[i].name]]
    /\ UNCHANGED <<now, row, archive, dir, work, script, made>>

-------------------------------------------------------------------------------
(* Pruning: files and rows of the expired, then every work directory.      *)
(* Promise.all settles with the first failure, the others still run.       *)

\* The slip takes the rows of exactly that age too.
ExpiredEarly(i) ==
    Stored(i) /\ row[i].status \in {"READY", "FAILED"} /\ row[i].at + Retention <= now
Expired(i) ==
    Stored(i) /\ row[i].status \in {"READY", "FAILED"} /\ row[i].at + Retention < now

AfterPrune(j) ==
    IF job[j].kind = "list" THEN End(j) ELSE Go(j, "insert")

PruneRead(j) ==
    /\ At(j, "stale")
    /\ LET stale == {i \in Ids : Expired(i)} IN
       /\ IF stale = {} THEN AfterPrune(j) ELSE Go(j, "prune")
       /\ work' = [work EXCEPT ![j] =
             {[id |-> i, name |-> row[i].name, do |-> "file"] : i \in stale}]
    /\ UNCHANGED <<now, row, archive, dir, script, made, events>>

\* The slip forgets the directory in front of the name and finds no file.
ErasedElsewhere(name) == archive
Erased(name) == [n \in Names |-> IF n = name THEN NoFile ELSE archive[n]]

Then(o, t, next) == work' = [work EXCEPT ![o] = (@ \ {t}) \cup next]

\* The caller gives up; what else it had begun to remove goes on.
GiveUp(o, t) ==
    IF o = Loose
    THEN Then(o, t, {}) /\ UNCHANGED job
    ELSE /\ work' = [work EXCEPT ![o] = {}, ![Loose] = @ \cup (work[o] \ {t})]
         /\ End(o)

RemoveFile(o) == \E t \in work[o] :
    /\ t.do = "file"
    /\ archive' = Erased(t.name)
    /\ Then(o, t, {[t EXCEPT !.do = "row"]})
    /\ UNCHANGED <<now, row, dir, job, script, made, events>>

MarkPruned(o) == \E t \in work[o] :
    /\ t.do = "row"
    /\ IF Stored(t.id)
       THEN /\ row' = [row EXCEPT ![t.id].status = "PRUNED"]
            /\ Then(o, t, {}) /\ UNCHANGED job
       ELSE GiveUp(o, t) /\ UNCHANGED row
    /\ UNCHANGED <<now, archive, dir, script, made, events>>

\* The rows are done; readdir finds any directory, also that of an archive being built.
SweepRead(j) ==
    /\ At(j, "prune") /\ work[j] = {}
    /\ Go(j, "sweep")
    /\ work' = [work EXCEPT ![j] =
          {[id |-> i, name |-> None, do |-> "contents"] : i \in {k \in Ids : dir[k] # NoDir}}]
    /\ UNCHANGED <<now, row, archive, dir, script, made, events>>

RemoveContents(o) == \E t \in work[o] :
    /\ t.do = "contents"
    /\ dir' = [dir EXCEPT ![t.id] =
          IF @ = NoDir THEN NoDir ELSE Emptied]
    /\ Then(o, t, {[t EXCEPT !.do = "directory"]})
    /\ UNCHANGED <<now, row, archive, job, script, made, events>>

\* rmdir refuses a directory that has been written to again.
RemoveDirectory(o) == \E t \in work[o] :
    /\ t.do = "directory"
    /\ IF dir[t.id] # NoDir /\ dir[t.id].parts # {}
       THEN GiveUp(o, t) /\ UNCHANGED dir
       ELSE /\ dir' = [dir EXCEPT ![t.id] = NoDir]
            /\ Then(o, t, {}) /\ UNCHANGED job
    /\ UNCHANGED <<now, row, archive, script, made, events>>

Swept(j) ==
    /\ At(j, "sweep") /\ work[j] = {}
    /\ AfterPrune(j)
    /\ UNCHANGED <<now, row, archive, dir, work, script, made, events>>

-------------------------------------------------------------------------------
(* createSnapshot and buildArchive *)

Insert(j) ==
    /\ At(j, "insert") /\ made < MaxRows
    /\ made' = made + 1
    /\ row' = [row EXCEPT ![made'] = NewRow("CREATING", Placeholder, Placeholder)]
    /\ dir' = [dir EXCEPT ![made'] = Emptied]
    /\ job' = [job EXCEPT ![j].pc = "dump", ![j].id = made',
                          ![j].name = [by |-> "api", at |-> now]]
    /\ UNCHANGED <<now, archive, work, script, events>>

\* The build throws: its directory goes, its archive stays as it is.
Broken(j) ==
    /\ Go(j, "failed")
    /\ dir' = [dir EXCEPT ![job[j].id] = NoDir]

\* pg_dump
Dump(j) ==
    /\ At(j, "dump")
    /\ LET i == job[j].id IN
       IF dir[i] = NoDir THEN Broken(j)
       ELSE /\ dir' = [dir EXCEPT ![i] = [parts |-> {"postgres.sql"}, table |-> row]]
            /\ Go(j, "tar")
    /\ UNCHANGED <<now, row, archive, work, script, made, events>>

\* The slip records the archive in place of its hash.
ChecksumSkipped(file) == file
ChecksumOf(file) == [of |-> file.of, parts |-> file.parts]

\* The manifest is written, tar packs what is there and the file is hashed.
Tar(j) ==
    /\ At(j, "tar")
    /\ LET i == job[j].id
           file == [of |-> i, parts |-> dir[i].parts \cup {"manifest.json"},
                    table |-> dir[i].table] IN
       IF dir[i] = NoDir THEN Broken(j) /\ UNCHANGED archive
       ELSE /\ archive' = [archive EXCEPT ![job[j].name] = file]
            /\ dir' = [dir EXCEPT ![i] = NoDir]
            /\ job' = [job EXCEPT ![j].pc = "ready", ![j].sum = ChecksumOf(file)]
    /\ UNCHANGED <<now, row, work, script, made, events>>

\* buildBackupRestorePreflight: the recorded checksum, the manifest and the dump.
CanRestore(i) ==
    /\ row[i].name # Placeholder
    /\ LET file == archive[row[i].name] IN
       file # NoFile /\ ChecksumOf(file) = row[i].sum /\ Parts \subseteq file.parts

\* The slip leaves the checksum of the placeholder.
MadeReadyUnhashed(j) == row' = [row EXCEPT
    ![job[j].id] = [@ EXCEPT !.status = "READY", !.name = job[j].name]]
MadeReady(j) == row' = [row EXCEPT
    ![job[j].id] = [@ EXCEPT !.status = "READY", !.name = job[j].name, !.sum = job[j].sum]]

\* A restore may have taken the row away.
Ready(j) ==
    /\ At(j, "ready")
    /\ IF Stored(job[j].id)
       THEN MadeReady(j) /\ End(j)
       ELSE Go(j, "failed") /\ UNCHANGED row
    /\ UNCHANGED <<now, archive, dir, work, script, made, events>>

\* The slip lets the caller of a failed build wait for good.
FailedUnanswered(j) ==
    /\ At(j, "failed")
    /\ row' = [row EXCEPT ![job[j].id] =
          IF @ = NoRow THEN NoRow ELSE [@ EXCEPT !.status = "FAILED"]]
    /\ UNCHANGED <<now, archive, dir, job, work, script, made, events>>

Failed(j) ==
    /\ At(j, "failed")
    /\ row' = [row EXCEPT ![job[j].id] =
          IF @ = NoRow THEN NoRow ELSE [@ EXCEPT !.status = "FAILED"]]
    /\ End(j)
    /\ UNCHANGED <<now, archive, dir, work, script, made, events>>

-------------------------------------------------------------------------------
(* remove *)

Erase(j) ==
    /\ At(j, "erase")
    /\ archive' = Erased(job[j].name)
    /\ Go(j, "delete")
    /\ UNCHANGED <<now, row, dir, work, script, made, events>>

Delete(j) ==
    /\ At(j, "delete")
    /\ row' = [row EXCEPT ![job[j].id] = NoRow]
    /\ End(j)
    /\ UNCHANGED <<now, archive, dir, work, script, made, events>>

-------------------------------------------------------------------------------
(* getRestorePlan reads the row, the list of the archive, its manifest and *)
(* its hash one after the other; whoever may write the archive goes on.    *)

\* Without an archive the answer is that there is none.
Plan(j) ==
    /\ j \in Calls /\ At(j, "idle")
    /\ Event
    /\ \E i \in {k \in Ids : Stored(k) /\ row[k].name # Placeholder} :
          /\ archive[row[i].name] # NoFile
          /\ job' = [job EXCEPT ![j] = [IdleJob EXCEPT !.kind = "plan", !.pc = "entries",
                         !.id = i, !.name = row[i].name, !.sum = row[i].sum]]
    /\ UNCHANGED <<now, row, archive, dir, work, script, made>>

\* What tar can read.
Readable(name) == archive[name] # NoFile /\ archive[name].parts # {}

ListEntries(j) ==
    /\ At(j, "entries")
    /\ IF Readable(job[j].name)
       THEN job' = [job EXCEPT ![j].pc = "manifest", ![j].seen = archive[job[j].name].parts]
       ELSE End(j)
    /\ UNCHANGED <<now, row, archive, dir, work, script, made, events>>

\* Every manifest that is written parses; one that cannot be read is a warning.
ReadManifest(j) ==
    /\ At(j, "manifest")
    /\ job' = [job EXCEPT ![j].pc = "hash",
          ![j].seen = IF Readable(job[j].name) THEN @ ELSE @ \ {"manifest.json"}]
    /\ UNCHANGED <<now, row, archive, dir, work, script, made, events>>

\* buildBackupRestorePreflight.  The slip trusts the list without the checksum.
PreflightUnhashed(j) == Parts \subseteq job[j].seen
Preflight(j) ==
    /\ Parts \subseteq job[j].seen
    /\ ChecksumOf(archive[job[j].name]) = job[j].sum

\* An archive that is gone by now is an error.
Hash(j) ==
    /\ At(j, "hash")
    /\ End(j)
    /\ UNCHANGED <<now, row, archive, dir, work, script, made, events>>

Answers(j, canRestore) ==
    /\ Hash(j)
    /\ archive[job[j].name] # NoFile
    /\ Preflight(j) = canRestore

\* prepareDownload
Downloadable(i) ==
    row[i].status = "READY" /\ row[i].name # Placeholder /\ archive[row[i].name] # NoFile

-------------------------------------------------------------------------------
(* restore.sh: the operator names an archive; the API keeps running until  *)
(* the last line.                                                          *)

Options == SUBSET {"--yes-restore", "--dry-run", "--skip-safeguard-backup"}

\* A run that is not confirmed, a dry run and one without the manifest or the dump
\* end here.  Nothing is compared with the recorded checksum.
Accepted(n, options) ==
    /\ "--yes-restore" \in options /\ "--dry-run" \notin options
    /\ archive[n] # NoFile /\ Parts \subseteq archive[n].parts

RestoreBegin(n, options) ==
    /\ script.pc = "idle" /\ made < MaxRows
    /\ Accepted(n, options)
    /\ Event
    /\ LET safeguard == [by |-> "restore.sh", at |-> now] IN
       \/ /\ "--skip-safeguard-backup" \notin options
          /\ archive[safeguard] = NoFile         \* one run takes more than a second
          /\ made' = made + 1
          /\ script' = [pc |-> "table", from |-> archive[n], name |-> safeguard, id |-> made']
          /\ archive' = [archive EXCEPT ![safeguard] =
                [of |-> made', parts |-> Parts, table |-> row]]
       \/ /\ "--skip-safeguard-backup" \in options
          /\ script' = [IdleScript EXCEPT !.pc = "table", !.from = archive[n]]
          /\ UNCHANGED <<made, archive>>
    /\ UNCHANGED <<now, row, dir, job, work>>

RestoreTable ==
    /\ script.pc = "table"
    /\ row' = script.from.table
    /\ script' = [script EXCEPT !.pc = "mark"]
    /\ UNCHANGED <<now, archive, dir, job, work, made, events>>

\* The restored row, then the safeguard's.  The audit record that follows the
\* latter has no id, for which AuditLog has no default: psql fails and the script
\* stops there.
RestoreMark ==
    /\ script.pc = "mark"
    /\ row' = [i \in Ids |->
          IF i = script.id
          THEN NewRow("READY", script.name, [of |-> i, parts |-> Parts])
          ELSE IF i = script.from.of /\ Stored(i)
          THEN [row[i] EXCEPT !.status = "RESTORED"]
          ELSE row[i]]
    /\ script' = IF script.id = None THEN [script EXCEPT !.pc = "restart"] ELSE IdleScript
    /\ UNCHANGED <<now, archive, dir, job, work, made, events>>

Restarted ==
    /\ job' = [j \in Jobs |-> IdleJob]
    /\ work' = [o \in Owners |-> {}]

RestoreRestart ==
    /\ script.pc = "restart"
    /\ script' = IdleScript
    /\ Restarted
    /\ UNCHANGED <<now, row, archive, dir, made, events>>

-------------------------------------------------------------------------------
(* Faults *)

ApiRestart ==
    /\ Event /\ Restarted
    /\ UNCHANGED <<now, row, archive, dir, script, made>>

Building == {"dump", "tar", "ready"}

\* A query, a file operation, pg_dump or tar fails.
StepFails(j) ==
    /\ Event
    /\ ~At(j, "idle") /\ work[j] = {}
    /\ IF job[j].pc \in Building THEN Broken(j) ELSE End(j) /\ UNCHANGED dir
    /\ \/ UNCHANGED archive
       \/ At(j, "tar") /\ archive' = [archive EXCEPT ![job[j].name] = Partial(job[j].id)]
    /\ UNCHANGED <<now, row, work, script, made>>

\* The audit record of a backup that is READY cannot be written.
AuditFails(j) ==
    /\ Event
    /\ At(j, "ready") /\ Stored(job[j].id)
    /\ MadeReady(j) /\ Go(j, "failed")
    /\ UNCHANGED <<now, archive, dir, work, script, made>>

RemovalFails(o) ==
    /\ Event
    /\ \E t \in work[o] : GiveUp(o, t)
    /\ UNCHANGED <<now, row, archive, dir, script, made>>

ScriptFails ==
    /\ Event
    /\ script.pc # "idle"
    /\ script' = IdleScript
    /\ UNCHANGED <<now, row, archive, dir, job, work, made>>

-------------------------------------------------------------------------------
Pruning(o) == RemoveFile(o) \/ MarkPruned(o) \/ RemoveContents(o) \/ RemoveDirectory(o)

Prune(j) == PruneRead(j) \/ SweepRead(j) \/ Swept(j)

Build(j) ==
    \/ Insert(j) \/ Dump(j) \/ Tar(j) \/ Ready(j) \/ Failed(j)

PlanStep(j) == ListEntries(j) \/ ReadManifest(j) \/ Hash(j)

JobStep(j) == Prune(j) \/ Build(j) \/ Erase(j) \/ Delete(j) \/ PlanStep(j)

Restore == RestoreTable \/ RestoreMark \/ RestoreRestart

Next ==
    \/ Tick
    \/ Maintain
    \/ \E j \in Calls : Request(j, "manual") \/ Request(j, "list") \/ Remove(j) \/ Plan(j)
    \/ \E j \in Jobs : JobStep(j)
    \/ \E o \in Owners : Pruning(o)
    \/ (\E n \in Names, options \in Options : RestoreBegin(n, options)) \/ Restore
    \/ ApiRestart \/ ScriptFails
    \/ (\E j \in Jobs : StepFails(j) \/ AuditFails(j)) \/ (\E o \in Owners : RemovalFails(o))

Spec == Init /\ [][Next]_vars

\* The interval fires again and again, a handler goes on when its call returns,
\* and time passes.
Fairness ==
    /\ WF_vars(Tick) /\ WF_vars(Maintain)
    /\ WF_vars(Restore)
    /\ \A j \in Jobs : WF_vars(JobStep(j))
    /\ \A o \in Owners : WF_vars(Pruning(o))

FairSpec == Spec /\ Fairness

-------------------------------------------------------------------------------
\* A restore ends with the restart of the services, unless one of its commands
\* fails by a fault: what the API had in progress does not outlive the table.
RestartsServices ==
    [][script.pc # "idle" /\ script'.pc = "idle" => RestoreRestart \/ ScriptFails]_vars
===============================================================================
