----------------------------- MODULE BackupsProofs -----------------------------
(***************************************************************************)
(* Theorems about BackupsHistory, for any numbers of requests, backups,    *)
(* faults and runs of restore.sh, and any retention and intervals.         *)
(***************************************************************************)
EXTENDS BackupsHistory, TLAPS

-------------------------------------------------------------------------------
(* The inductive invariant.                                                *)

\* The task has a row that its archive is still to be recorded in.
Builder(t, i) == t.pc \in Building /\ t.id = i

\* What a task holds is about a row that was made; a plan is about a recorded
\* archive, by the checksum of the row it read.
JobForm(t, last) ==
    /\ t.pc \in Building => t.id \in 1 .. last /\ t.name \in Names
    /\ t.pc = "ready" => t.sum \in Checksum /\ t.sum.of = t.id
    /\ t.pc \in {"failed", "erase", "delete"} => t.id \in Ids
    /\ t.pc \in {"entries", "manifest", "hash"} =>
          /\ t.id \in 1 .. last /\ t.name \in Names
          /\ t.sum \in Checksum /\ t.sum.of = t.id

\* A row names its archive once it is recorded, not while it is being built,
\* and has that archive's second and a checksum of its own.
RowForm(i, r, last, jobs) == r # NoRow =>
    /\ i <= last
    /\ r.name # Placeholder => r.name.at = r.at /\ r.sum \in Checksum /\ r.sum.of = i
    /\ r.status = "READY" => r.name # Placeholder
    /\ \A j \in Jobs : Builder(jobs[j], i) => r.name = Placeholder /\ jobs[j].name.at = r.at

TableForm(table, last, jobs) == \A i \in Ids : RowForm(i, table[i], last, jobs)

JobsForm == \A j \in Jobs : JobForm(job[j], made)
OneBuilder == \A j, k \in Jobs : \A i \in Ids : Builder(job[j], i) /\ Builder(job[k], i) => j = k

\* The database, and every copy of its table: dumped, archived, being restored.
TablesForm ==
    /\ TableForm(row, made, job)
    /\ \A n \in Names : archive[n] # NoFile => TableForm(archive[n].table, made, job)
    /\ \A i \in Ids : dir[i] # NoDir => TableForm(dir[i].table, made, job)
    /\ script.pc = "table" => TableForm(script.from.table, made, job)

\* The safeguard of restore.sh is of this second, and nobody else builds it.
ScriptForm ==
    /\ script.pc # "idle" => script.from \in Content
    /\ script.id # None =>
          /\ script.pc # "idle" /\ script.name \in Names /\ script.name.at = now
          /\ script.id \in 1 .. made /\ \A j \in Jobs : ~Builder(job[j], script.id)

\* What a plan has seen of the archive it may come to trust is still there.
PlanSeen(t, files) ==
    /\ t.pc \in {"manifest", "hash"} /\ files[t.name] # NoFile /\ ChecksumOf(files[t.name]) = t.sum
    => t.seen \subseteq files[t.name].parts
PlansForm ==
    /\ \A j, k \in Jobs : job[j].pc \in {"entries", "manifest", "hash"} => ~Builder(job[k], job[j].id)
    /\ \A j \in Jobs : PlanSeen(job[j], archive)

\* Only expired archives are to be pruned.
WorkForm == \A o \in Owners : \A t \in work[o] :
    t.do = "file" /\ t.name # Placeholder => t.name \in Names /\ t.name.at + Retention < now

BackupsInv == /\ TypeOK /\ JobsForm /\ OneBuilder /\ TablesForm
              /\ ScriptForm /\ PlansForm /\ WorkForm

-------------------------------------------------------------------------------
(* Tasks.                                                                  *)

LEMMA Numbers == /\ Interval \in Nat /\ Retention \in Nat /\ MaxRows \in Nat /\ MaxTime \in Nat /\ MaxEvents \in Nat
                 /\ Ids \subseteq Nat /\ None \notin Ids /\ Timer \in Jobs /\ Calls \subseteq Jobs
                 /\ Jobs \subseteq Owners /\ Loose \in Owners /\ Loose \notin Jobs
                 /\ IdleJob \in Job /\ IdleJob.pc = "idle"
  BY BackupsAssumption DEF Ids, Jobs, Owners, IdleJob, Job

\* No row is built that was not, but for one of the rows made by this step.
JobsLater ==
    /\ made' \in made .. MaxRows
    /\ \A j \in Jobs : \A i \in Ids : Builder(job'[j], i) =>
          \/ Builder(job[j], i) /\ job'[j].name = job[j].name
          \/ i > made

JobsStepped == job' \in [Jobs -> Job] /\ JobsForm' /\ OneBuilder' /\ JobsLater

LEMMA JobReplaced ==
    ASSUME TypeOK, JobsForm, OneBuilder, NEW j \in Jobs, NEW rec \in Job,
           job' = [job EXCEPT ![j] = rec], made' \in made .. MaxRows, JobForm(rec, made'),
           \A i \in Ids : Builder(rec, i) => \/ Builder(job[j], i) /\ rec.name = job[j].name
                                             \/ i > made
    PROVE  JobsStepped /\ job'[j] = rec /\ \A k \in Jobs \ {j} : job'[k] = job[k]
<1>1. job \in [Jobs -> Job] /\ made \in Nat /\ MaxRows \in Nat
  BY Numbers DEF TypeOK
<1>2. job' \in [Jobs -> Job] /\ job'[j] = rec /\ \A k \in Jobs \ {j} : job'[k] = job[k]
  BY <1>1
<1>3. ASSUME NEW k \in Jobs PROVE JobForm(job'[k], made')
  <2>1. CASE k = j
    BY <1>2, <2>1
  <2>2. CASE k # j
    <3>1. job'[k] = job[k] /\ JobForm(job[k], made)
      BY <1>2, <2>2 DEF JobsForm
    <3> QED  BY <1>1, <3>1 DEF JobForm
  <2> QED  BY <2>1, <2>2
<1>4. JobsLater
  BY <1>1, <1>2 DEF JobsLater
<1>5. ASSUME NEW k \in Jobs, NEW l \in Jobs, NEW i \in Ids, Builder(job'[k], i), Builder(job'[l], i)
      PROVE  k = l
  <2>1. ASSUME NEW m \in Jobs \ {j}, Builder(job'[m], i) PROVE Builder(job[m], i) /\ ~(i > made)
    <3>1. job'[m] = job[m] /\ JobForm(job[m], made)
      BY <1>2 DEF JobsForm
    <3> QED  BY <1>1, <2>1, <3>1 DEF JobForm, Builder
  <2>2. CASE k # j /\ l # j
    BY <1>5, <2>1, <2>2 DEF OneBuilder
  <2>3. CASE (k = j /\ l # j) \/ (k # j /\ l = j)
    BY <1>2, <1>5, <2>1, <2>3 DEF OneBuilder
  <2> QED  BY <2>2, <2>3
<1> QED  BY <1>2, <1>3, <1>4, <1>5 DEF JobsStepped, JobsForm, OneBuilder

LEMMA JobsKept ==
    ASSUME TypeOK, JobsForm, OneBuilder, job' = job, made' \in made .. MaxRows
    PROVE  JobsStepped
<1>1. made \in Nat /\ MaxRows \in Nat
  BY Numbers DEF TypeOK
<1> QED  BY <1>1 DEF TypeOK, JobsStepped, JobsForm, OneBuilder, JobsLater, JobForm

LEMMA JobsRestarted ==
    ASSUME TypeOK, Restarted, made' = made
    PROVE  JobsStepped
<1>1. job' = [j \in Jobs |-> IdleJob] /\ made \in Nat /\ MaxRows \in Nat /\ made <= MaxRows
  BY Numbers DEF TypeOK, Restarted
<1>2. \A j \in Jobs : job'[j] = IdleJob
  BY <1>1
<1> QED
  BY <1>1, <1>2, Numbers DEF JobsStepped, JobsForm, OneBuilder, JobsLater, JobForm, Builder, Building

\* A task ends, or moves to a step that needs no more than the last.
LEMMA JobEnds ==
    ASSUME TypeOK, JobsForm, OneBuilder, NEW j \in Jobs, End(j), made' = made
    PROVE  JobsStepped
<1>1. JobForm(IdleJob, made') /\ \A i \in Ids : ~Builder(IdleJob, i)
  BY Numbers DEF JobForm, Builder, Building
<1>2. made' \in made .. MaxRows
  BY Numbers DEF TypeOK
<1> QED  BY <1>1, <1>2, JobReplaced, Numbers DEF End

LEMMA JobGoes ==
    ASSUME TypeOK, JobsForm, OneBuilder, NEW j \in Jobs, NEW pc, Go(j, pc), made' = made,
           \/ pc \in {"stale", "prune", "sweep", "insert"}
           \/ pc = "failed" /\ job[j].pc \in Building
           \/ pc = "delete" /\ job[j].pc = "erase"
           \/ pc = "tar" /\ job[j].pc = "dump"
    PROVE  JobsStepped
<1> DEFINE rec == [job[j] EXCEPT !.pc = pc]
<1>1. job[j] \in Job /\ JobForm(job[j], made) /\ made \in 0 .. MaxRows
  BY DEF TypeOK, JobsForm
<1>2. rec \in Job /\ rec.pc = pc /\ rec.id = job[j].id /\ rec.name = job[j].name
  BY <1>1 DEF Job, Building
<1>3. job' = [job EXCEPT ![j] = rec]
  BY DEF Go
<1>4. made' \in made .. MaxRows
  BY <1>1, Numbers
<1> HIDE DEF rec
<1>5. JobForm(rec, made')
  BY <1>1, <1>2, Numbers DEF JobForm, Building, Ids
<1>6. \A i \in Ids : Builder(rec, i) => Builder(job[j], i) /\ rec.name = job[j].name
  BY <1>2 DEF Builder, Building
<1> QED  BY <1>2, <1>3, <1>4, <1>5, <1>6, JobReplaced

\* Who begins a task, from idle.
LEMMA JobBegins ==
    ASSUME BackupsInv, made' = made,
           \/ Maintain
           \/ \E j \in Calls : Request(j, "manual") \/ Request(j, "list") \/ Remove(j) \/ Plan(j)
    PROVE  JobsStepped
<1>0. /\ TypeOK /\ JobsForm /\ OneBuilder /\ row \in Table /\ job \in [Jobs -> Job]
      /\ made' \in made .. MaxRows /\ made \in 0 .. MaxRows /\ TableForm(row, made, job)
  BY Numbers DEF BackupsInv, TablesForm, TypeOK
<1>1. ASSUME NEW j \in Jobs, NEW kind \in {"automatic", "list", "manual"},
             job' = [job EXCEPT ![j].kind = kind, ![j].pc = "stale"]
      PROVE  JobsStepped
  <2> DEFINE rec == [job[j] EXCEPT !.kind = kind, !.pc = "stale"]
  <2>1. rec \in Job /\ rec.pc = "stale" /\ job' = [job EXCEPT ![j] = rec]
    BY <1>0, <1>1 DEF Job
  <2> HIDE DEF rec
  <2>2. JobForm(rec, made') /\ \A i \in Ids : ~Builder(rec, i)
    BY <2>1 DEF JobForm, Builder, Building
  <2> QED  BY <1>0, <2>1, <2>2, JobReplaced
<1>2. CASE Maintain
  BY <1>1, <1>2, Numbers DEF Maintain
<1>3. ASSUME NEW j \in Calls, Request(j, "manual") \/ Request(j, "list") PROVE JobsStepped
  BY <1>1, <1>3, Numbers DEF Request
<1>4. ASSUME NEW j \in Calls, Remove(j) PROVE JobsStepped
  <2>1. PICK i \in Ids : /\ row[i] # NoRow
                         /\ job' = [job EXCEPT ![j] = [IdleJob EXCEPT
                              !.kind = "remove", !.pc = "erase", !.id = i, !.name = row[i].name]]
    BY <1>4 DEF Remove, Stored
  <2> DEFINE rec == [IdleJob EXCEPT !.kind = "remove", !.pc = "erase", !.id = i, !.name = row[i].name]
  <2>2. row[i].name \in Names \cup {Placeholder}
    BY <1>0, <2>1 DEF Table, Row
  <2>3. rec \in Job /\ rec.pc = "erase" /\ rec.id = i
    BY <2>2, Numbers DEF Job
  <2> HIDE DEF rec
  <2>4. JobForm(rec, made') /\ \A k \in Ids : ~Builder(rec, k)
    BY <2>3 DEF JobForm, Builder, Building
  <2>5. job' = [job EXCEPT ![j] = rec]
    BY <2>1 DEF rec
  <2> QED  BY <1>0, <2>3, <2>4, <2>5, JobReplaced, Numbers
<1>5. ASSUME NEW j \in Calls, Plan(j) PROVE JobsStepped
  <2>1. PICK i \in Ids : /\ row[i] # NoRow /\ row[i].name # Placeholder
                         /\ job' = [job EXCEPT ![j] = [IdleJob EXCEPT !.kind = "plan", !.pc = "entries",
                              !.id = i, !.name = row[i].name, !.sum = row[i].sum]]
    BY <1>5 DEF Plan, Stored
  <2> DEFINE rec == [IdleJob EXCEPT !.kind = "plan", !.pc = "entries",
                              !.id = i, !.name = row[i].name, !.sum = row[i].sum]
  <2>2. row[i].name \in Names
    BY <1>0, <2>1 DEF Table, Row
  <2>3. row[i].sum \in Checksum /\ row[i].sum.of = i /\ i <= made
    BY <1>0, <2>1 DEF TableForm, RowForm
  <2>4. rec \in Job /\ rec.pc = "entries" /\ rec.id = i /\ rec.name = row[i].name /\ rec.sum = row[i].sum
    BY <2>2, <2>3, Numbers DEF Job
  <2> HIDE DEF rec
  <2>5. JobForm(rec, made') /\ \A k \in Ids : ~Builder(rec, k)
    BY <1>0, <2>2, <2>3, <2>4 DEF JobForm, Builder, Building, Ids
  <2>6. job' = [job EXCEPT ![j] = rec]
    BY <2>1 DEF rec
  <2> QED  BY <1>0, <2>4, <2>5, <2>6, JobReplaced, Numbers
<1> QED  BY <1>2, <1>3, <1>4, <1>5

LEMMA JobSteps ==
    ASSUME BackupsInv, NEW j \in Jobs, JobStep(j)
    PROVE  JobsStepped
<1>0. /\ TypeOK /\ JobsForm /\ OneBuilder /\ job \in [Jobs -> Job] /\ now \in 0 .. MaxTime
      /\ made \in 0 .. MaxRows /\ job[j] \in Job /\ JobForm(job[j], made)
  BY DEF BackupsInv, TypeOK, JobsForm
<1>1. CASE Prune(j)
  BY <1>0, <1>1, JobEnds, JobGoes DEF Prune, PruneRead, SweepRead, Swept, AfterPrune
<1>2. CASE Insert(j)
  <2> DEFINE name == [by |-> "api", at |-> now]
             rec == [job[j] EXCEPT !.pc = "dump", !.id = made', !.name = name]
  <2>1. made' = made + 1 /\ made' \in Ids /\ made' \in made .. MaxRows /\ name \in Names
    BY <1>0, <1>2, Numbers DEF Insert, Ids, Names
  <2>2. rec \in Job /\ rec.pc = "dump" /\ rec.id = made' /\ rec.name \in Names
    BY <1>0, <2>1 DEF Job
  <2>3. job' = [job EXCEPT ![j] = rec]
    BY <1>2 DEF Insert
  <2> HIDE DEF rec, name
  <2>4. JobForm(rec, made') /\ \A i \in Ids : Builder(rec, i) => i > made
    BY <1>0, <2>1, <2>2 DEF JobForm, Builder, Building, Ids
  <2> QED  BY <1>0, <2>1, <2>2, <2>3, <2>4, JobReplaced
<1>3. CASE Dump(j) \/ Ready(j) \/ Failed(j) \/ Erase(j) \/ Delete(j) \/ Hash(j)
  <2>1. Broken(j) => Go(j, "failed")
    BY DEF Broken
  <2> QED  BY <1>0, <1>3, <2>1, JobEnds, JobGoes DEF Dump, Ready, Failed, Erase, Delete, Hash, At, Building
<1>4. CASE Tar(j)
  <2>1. CASE Broken(j)
    BY <1>0, <1>4, <2>1, JobGoes DEF Broken, Tar, At, Building
  <2>2. CASE ~Broken(j)
    <3> DEFINE i == job[j].id
               file == [of |-> i, parts |-> dir[i].parts \cup {"manifest.json"}, table |-> dir[i].table]
               rec == [job[j] EXCEPT !.pc = "ready", !.sum = ChecksumOf(file)]
    <3>1. dir[i] # NoDir /\ job' = [job EXCEPT ![j] = rec] /\ job[j].pc = "tar" /\ made' = made
      BY <1>4, <2>2 DEF Tar, At
    <3>2. i \in Ids /\ i \in 1 .. made /\ dir[i] \in Staged /\ job[j].name \in Names
      BY <1>0, <3>1, Numbers DEF TypeOK, JobForm, Building, Ids
    <3>3. ChecksumOf(file) \in Checksum /\ ChecksumOf(file).of = i
      BY <3>2 DEF ChecksumOf, Checksum, Staged, Parts
    <3> HIDE DEF file
    <3>4. /\ rec \in Job /\ rec.pc = "ready" /\ rec.id = i /\ rec.name = job[j].name
          /\ rec.sum = ChecksumOf(file)
      BY <1>0, <3>3 DEF Job
    <3> HIDE DEF rec
    <3>5. JobForm(rec, made') /\ made' \in made .. MaxRows
      BY <1>0, <3>1, <3>2, <3>3, <3>4, Numbers DEF JobForm, Building
    <3>6. \A k \in Ids : Builder(rec, k) => Builder(job[j], k) /\ rec.name = job[j].name
      BY <3>1, <3>4 DEF Builder, Building
    <3> QED  BY <1>0, <3>1, <3>4, <3>5, <3>6, JobReplaced
  <2> QED  BY <2>1, <2>2
<1>5. ASSUME NEW seen \in SUBSET Parts, NEW pc \in {"manifest", "hash"}, made' = made,
             job[j].pc \in {"entries", "manifest"}, job' = [job EXCEPT ![j].pc = pc, ![j].seen = seen]
      PROVE  JobsStepped
  <2> DEFINE rec == [job[j] EXCEPT !.pc = pc, !.seen = seen]
  <2>1. rec \in Job /\ rec.pc = pc /\ rec.id = job[j].id /\ rec.name = job[j].name /\ rec.sum = job[j].sum
        /\ job' = [job EXCEPT ![j] = rec]
    BY <1>0, <1>5 DEF Job
  <2> HIDE DEF rec
  <2>2. JobForm(rec, made') /\ (\A i \in Ids : ~Builder(rec, i)) /\ made' \in made .. MaxRows
    BY <1>0, <1>5, <2>1, Numbers DEF JobForm, Builder, Building
  <2> QED  BY <1>0, <2>1, <2>2, JobReplaced
<1>6. CASE ListEntries(j)
  <2>1. CASE End(j)
    BY <1>0, <1>6, <2>1, JobEnds DEF ListEntries
  <2>2. CASE ~End(j)
    <3>1. job[j].name \in Names
      BY <1>0, <1>6 DEF ListEntries, At, JobForm
    <3>2. archive[job[j].name].parts \in SUBSET Parts
      BY <1>0, <1>6, <2>2, <3>1 DEF ListEntries, Readable, TypeOK, Content
    <3> QED  BY <1>5, <1>6, <2>2, <3>2 DEF ListEntries, At
  <2> QED  BY <2>1, <2>2
<1>7. CASE ReadManifest(j)
  <2>1. job[j].seen \in SUBSET Parts
    BY <1>0 DEF Job
  <2> DEFINE seen == IF Readable(job[j].name) THEN job[j].seen ELSE job[j].seen \ {"manifest.json"}
  <2>2. seen \in SUBSET Parts /\ job' = [job EXCEPT ![j].pc = "hash", ![j].seen = seen]
    BY <1>0, <1>7, <2>1 DEF ReadManifest
  <2> QED  BY <1>5, <1>7, <2>2 DEF ReadManifest, At
<1> QED  BY <1>1, <1>2, <1>3, <1>4, <1>6, <1>7 DEF JobStep, Build, PlanStep

LEMMA JobsAfter ==
    ASSUME BackupsInv, Next
    PROVE  JobsStepped
<1>0. /\ TypeOK /\ JobsForm /\ OneBuilder /\ job \in [Jobs -> Job]
      /\ made \in 0 .. MaxRows /\ made \in made .. MaxRows
  BY Numbers DEF BackupsInv, TypeOK
<1>1. CASE UNCHANGED <<job, made>>
  BY <1>0, <1>1, JobsKept
<1>2. CASE Maintain \/ \E j \in Calls : Request(j, "manual") \/ Request(j, "list") \/ Remove(j) \/ Plan(j)
  BY <1>2, JobBegins DEF Maintain, Request, Remove, Plan
<1>3. ASSUME NEW j \in Jobs, JobStep(j) PROVE JobsStepped
  BY <1>3, JobSteps
<1>4. ASSUME NEW o \in Owners, NEW t \in work[o], GiveUp(o, t), made' = made PROVE JobsStepped
  <2>1. CASE o = Loose
    BY <1>0, <1>4, <2>1, JobsKept DEF GiveUp
  <2>2. CASE o # Loose
    BY <1>0, <1>4, <2>2, JobEnds DEF GiveUp, Owners
  <2> QED  BY <2>1, <2>2
<1>5. ASSUME NEW o \in Owners, Pruning(o) \/ RemovalFails(o) PROVE JobsStepped
  BY <1>1, <1>4, <1>5 DEF Pruning, RemovalFails, RemoveFile, MarkPruned, RemoveContents, RemoveDirectory
<1>6. ASSUME NEW n \in Names, NEW options \in Options, RestoreBegin(n, options) PROVE JobsStepped
  <2>1. job' = job /\ made' \in {made, made + 1} /\ made < MaxRows
    BY <1>6 DEF RestoreBegin
  <2> QED  BY <1>0, <2>1, JobsKept, Numbers
<1>7. CASE Restore \/ ApiRestart
  BY <1>0, <1>1, <1>7, JobsRestarted DEF Restore, RestoreTable, RestoreMark, RestoreRestart, ApiRestart
<1>8. ASSUME NEW j \in Jobs, StepFails(j) PROVE JobsStepped
  <2>1. CASE job[j].pc \in Building
    BY <1>0, <1>8, <2>1, JobGoes DEF StepFails, Broken
  <2>2. CASE job[j].pc \notin Building
    BY <1>0, <1>8, <2>2, JobEnds DEF StepFails
  <2> QED  BY <2>1, <2>2
<1>9. ASSUME NEW j \in Jobs, AuditFails(j) PROVE JobsStepped
  BY <1>0, <1>9, JobGoes DEF AuditFails, At, Building
<1> QED
  BY <1>1, <1>2, <1>3, <1>5, <1>6, <1>7, <1>8, <1>9 DEF Next, Tick, ScriptFails

-------------------------------------------------------------------------------
(* The table and its copies.                                               *)

LEMMA TableLater ==
    ASSUME JobsLater, made \in Nat, MaxRows \in Nat
    PROVE  \A table \in Table : TableForm(table, made, job) => TableForm(table, made', job')
<1> SUFFICES ASSUME NEW table \in Table, TableForm(table, made, job), NEW i \in Ids,
                    RowForm(i, table[i], made, job), table[i] # NoRow
             PROVE  RowForm(i, table[i], made', job')
  BY DEF TableForm, RowForm
<1>1. i <= made /\ i \in Nat /\ made' \in Nat /\ made <= made'
  BY Numbers DEF RowForm, JobsLater
<1>2. \A j \in Jobs : Builder(job'[j], i) => Builder(job[j], i) /\ job'[j].name = job[j].name
  BY <1>1 DEF JobsLater
<1> QED  BY <1>1, <1>2 DEF RowForm

\* One row of a table changes.
LEMMA RowChanged ==
    ASSUME NEW table \in Table, NEW last, NEW jobs, TableForm(table, last, jobs),
           NEW i \in Ids, NEW r \in Row \cup {NoRow}, RowForm(i, r, last, jobs)
    PROVE  /\ [table EXCEPT ![i] = r] \in Table
           /\ TableForm([table EXCEPT ![i] = r], last, jobs)
  BY DEF Table, TableForm

LEMMA EmptyTables ==
    /\ NoTable \in Table /\ Emptied \in Staged
    /\ \A last, jobs : TableForm(NoTable, last, jobs)
  BY DEF NoTable, Emptied, Table, Staged, TableForm, RowForm

\* The typed records of the archives and work directories.
LEMMA Files ==
    /\ NoFile \notin Content /\ NoDir \notin Staged /\ NoRow \notin Row
    /\ \A i \in Ids : Partial(i) \in Content /\ Partial(i).table = NoTable /\ Partial(i).of = i
    /\ \A file \in Content : file.table \in Table /\ file.of \in Ids /\ file.parts \subseteq Parts
    /\ \A staged \in Staged : staged.table \in Table /\ staged.parts \subseteq Parts
  BY BackupsAssumption, EmptyTables DEF Content, Staged, Partial

LEMMA StatusChanged ==
    ASSUME NEW i, NEW last, NEW jobs, NEW r \in Row, RowForm(i, r, last, jobs),
           NEW status \in {"PRUNED", "FAILED", "RESTORED"}
    PROVE  [r EXCEPT !.status = status] \in Row /\ RowForm(i, [r EXCEPT !.status = status], last, jobs)
<1> DEFINE s == [r EXCEPT !.status = status]
<1>1. s \in Row /\ s.status = status /\ s.name = r.name /\ s.at = r.at /\ s.sum = r.sum
  BY DEF Row
<1> HIDE DEF s
<1>2. RowForm(i, s, last, jobs)
  BY <1>1, Files DEF RowForm
<1> QED  BY <1>1, <1>2 DEF s

\* The archive of a build is recorded, once nobody builds for its row any more.
LEMMA RecordedForm ==
    ASSUME BackupsInv, NEW j \in Jobs, MadeReady(j), job[j].pc = "ready", Stored(job[j].id),
           JobsLater, ~(job'[j].pc \in Building), row \in Table, TableForm(row, made', job')
    PROVE  row' \in Table /\ TableForm(row', made', job')
<1> DEFINE i == job[j].id
           r == [row[i] EXCEPT !.status = "READY", !.name = job[j].name, !.sum = job[j].sum]
<1>0. /\ made \in Nat /\ JobForm(job[j], made) /\ Builder(job[j], i) /\ OneBuilder
      /\ TableForm(row, made, job)
  BY Numbers DEF BackupsInv, TypeOK, JobsForm, TablesForm, Builder, Building
<1>1. i \in Ids /\ i <= made /\ job[j].name \in Names /\ job[j].sum \in Checksum /\ job[j].sum.of = i
  BY <1>0, Numbers DEF JobForm, Building, BackupsInv, TypeOK, Ids
<1>2. row[i] \in Row /\ RowForm(i, row[i], made, job) /\ RowForm(i, row[i], made', job')
  BY <1>0, <1>1 DEF Table, Stored, TableForm
<1>3. job[j].name.at = row[i].at
  BY <1>0, <1>2, Files DEF RowForm
<1>4. /\ r \in Row /\ r.name = job[j].name /\ r.sum = job[j].sum /\ r.at = row[i].at
  BY <1>1, <1>2 DEF Row
<1> HIDE DEF r
<1>5. ASSUME NEW k \in Jobs, Builder(job'[k], i) PROVE FALSE
  <2> HIDE DEF i
  <2>0. i \in Nat /\ ~(i > made)
    BY <1>0, <1>1, Numbers
  <2>1. Builder(job[k], i)
    BY <1>1, <1>5, <2>0 DEF JobsLater
  <2>2. k = j
    BY <1>0, <1>1, <2>1 DEF OneBuilder
  <2> QED  BY <1>5, <2>2 DEF Builder
<1>6. i <= made'
  BY <1>2, Files DEF RowForm
<1>7. RowForm(i, r, made', job')
  BY <1>1, <1>3, <1>4, <1>5, <1>6, BackupsAssumption DEF RowForm
<1>8. row' = [row EXCEPT ![i] = r]
  BY DEF MadeReady, r
<1> QED  BY <1>1, <1>4, <1>7, <1>8, RowChanged

LEMMA InsertedForm ==
    ASSUME BackupsInv, NEW j \in Jobs, Insert(j), JobsLater, row \in Table, TableForm(row, made', job')
    PROVE  row' \in Table /\ TableForm(row', made', job')
<1> DEFINE name == [by |-> "api", at |-> now]
           r == NewRow("CREATING", Placeholder, Placeholder)
<1>0. /\ made \in 0 .. MaxRows /\ now \in 0 .. MaxTime /\ job \in [Jobs -> Job] /\ JobsForm
      /\ made' = made + 1 /\ made' \in Ids /\ row' = [row EXCEPT ![made'] = r]
  BY Numbers DEF BackupsInv, TypeOK, Insert, Ids
<1>0a. job' = [job EXCEPT ![j] = [job[j] EXCEPT !.pc = "dump", !.id = made', !.name = name]]
  BY DEF Insert
<1>1. r \in Row /\ r.name = Placeholder /\ r.status = "CREATING" /\ r.at = now
  BY <1>0 DEF NewRow, Row
<1>2. job'[j].name = name /\ \A k \in Jobs \ {j} : job'[k] = job[k]
  BY <1>0, <1>0a DEF Job
<1> HIDE DEF r
<1>3. \A k \in Jobs : Builder(job'[k], made') => job'[k].name.at = r.at
  <2>1. \A k \in Jobs \ {j} : ~Builder(job'[k], made')
    BY <1>0, <1>2 DEF JobsForm, JobForm, Builder
  <2> QED  BY <1>1, <1>2, <2>1
<1>4. RowForm(made', r, made', job')
  BY <1>0, <1>1, <1>3 DEF RowForm, Ids
<1> QED  BY <1>0, <1>1, <1>4, RowChanged

LEMMA MarkedForm ==
    ASSUME BackupsInv, RestoreMark, JobsLater, row \in Table, TableForm(row, made', job')
    PROVE  row' \in Table /\ TableForm(row', made', job')
<1>0. /\ made \in 0 .. MaxRows /\ now \in 0 .. MaxTime /\ made' = made /\ job' = job
      /\ script.id # None => /\ script.name \in Names /\ script.name.at = now
                             /\ script.id \in 1 .. made /\ \A j \in Jobs : ~Builder(job[j], script.id)
  BY DEF BackupsInv, TypeOK, RestoreMark, ScriptForm
<1>1. ASSUME NEW i \in Ids PROVE row'[i] \in Row \cup {NoRow} /\ RowForm(i, row'[i], made', job')
  <2>1. CASE i = script.id
    <3> DEFINE sum == [of |-> i, parts |-> Parts]
               r == NewRow("READY", script.name, sum)
    <3>1. row'[i] = r
      BY <2>1 DEF RestoreMark
    <3>2. sum \in Checksum /\ sum.of = i
      BY DEF Checksum
    <3> HIDE DEF sum
    <3>3. r \in Row /\ r.name = script.name /\ r.at = now /\ r.sum = sum
      BY <1>0, <2>1, <3>2, Numbers DEF NewRow, Row
    <3> HIDE DEF r
    <3> QED
      BY <1>0, <2>1, <3>1, <3>2, <3>3, Numbers, BackupsAssumption DEF RowForm, Ids
  <2>2. CASE i # script.id /\ i = script.from.of /\ Stored(i)
    <3>1. row'[i] = [row[i] EXCEPT !.status = "RESTORED"]
      BY <2>2 DEF RestoreMark
    <3>2. row[i] \in Row /\ RowForm(i, row[i], made', job')
      BY <2>2 DEF Stored, Table, TableForm
    <3>3. /\ [row[i] EXCEPT !.status = "RESTORED"] \in Row
          /\ RowForm(i, [row[i] EXCEPT !.status = "RESTORED"], made', job')
      BY <3>2, StatusChanged
    <3> QED  BY <3>1, <3>3
  <2>3. CASE i # script.id /\ ~(i = script.from.of /\ Stored(i))
    <3>1. row'[i] = row[i]
      BY <2>3 DEF RestoreMark
    <3> QED  BY <3>1 DEF Table, TableForm
  <2> QED  BY <2>1, <2>2, <2>3
<1>2. row' \in Table
  <2>1. \E f \in [Ids -> Row \cup {NoRow}] : row' = f
    <3>1. row' = [i \in Ids |-> row'[i]]
      BY DEF RestoreMark
    <3> QED  BY <1>1, <3>1
  <2> QED  BY <2>1 DEF Table
<1> QED  BY <1>1, <1>2 DEF TableForm

LEMMA RowAfter ==
    ASSUME BackupsInv, Next
    PROVE  row' \in Table /\ TableForm(row', made', job')
<1>0. /\ row \in Table /\ TableForm(row, made', job') /\ JobsLater /\ job \in [Jobs -> Job]
      /\ \A table \in Table : TableForm(table, made, job) => TableForm(table, made', job')
  BY JobsAfter, TableLater, Numbers DEF JobsStepped, BackupsInv, TypeOK, TablesForm
<1>1. CASE UNCHANGED row
  BY <1>0, <1>1
<1>2. ASSUME NEW i \in Ids, row[i] # NoRow, NEW status \in {"PRUNED", "FAILED"},
             row' = [row EXCEPT ![i] = [row[i] EXCEPT !.status = status]]
      PROVE  row' \in Table /\ TableForm(row', made', job')
  <2>1. row[i] \in Row /\ RowForm(i, row[i], made', job')
    BY <1>0, <1>2 DEF Table, TableForm
  <2> QED  BY <1>0, <1>2, <2>1, StatusChanged, RowChanged
<1>3. ASSUME NEW j \in Jobs, JobStep(j) PROVE row' \in Table /\ TableForm(row', made', job')
  <2>1. CASE Insert(j)
    BY <1>0, <2>1, InsertedForm
  <2>2. CASE Ready(j)
    <3>1. CASE Stored(job[j].id)
      <4>1. job'[j] = IdleJob /\ MadeReady(j) /\ job[j].pc = "ready"
        BY <1>0, <2>2, <3>1 DEF Ready, End, At
      <4> QED  BY <1>0, <3>1, <4>1, RecordedForm, Numbers DEF Building
    <3>2. CASE ~Stored(job[j].id)
      BY <1>1, <2>2, <3>2 DEF Ready
    <3> QED  BY <3>1, <3>2
  <2>3. CASE Failed(j)
    <3>1. job[j].id \in Ids
      BY <2>3 DEF Failed, At, BackupsInv, JobsForm, JobForm
    <3>2. CASE row[job[j].id] = NoRow
      <4>1. row' = [row EXCEPT ![job[j].id] = NoRow]
        BY <1>0, <2>3, <3>1, <3>2 DEF Failed, Table
      <4> QED  BY <1>0, <3>1, <4>1, RowChanged DEF RowForm
    <3>3. CASE row[job[j].id] # NoRow
      <4>1. row' = [row EXCEPT ![job[j].id] = [row[job[j].id] EXCEPT !.status = "FAILED"]]
        BY <1>0, <2>3, <3>1, <3>3 DEF Failed, Table
      <4> QED  BY <1>2, <3>1, <3>3, <4>1
    <3> QED  BY <3>2, <3>3
  <2>4. CASE Delete(j)
    <3>1. job[j].id \in Ids /\ row' = [row EXCEPT ![job[j].id] = NoRow]
      BY <2>4 DEF Delete, At, BackupsInv, JobsForm, JobForm
    <3> QED  BY <1>0, <3>1, RowChanged DEF RowForm
  <2>5. CASE Prune(j) \/ Dump(j) \/ Tar(j) \/ Erase(j) \/ PlanStep(j)
    BY <1>1, <2>5 DEF Prune, PruneRead, SweepRead, Swept, Dump, Tar, Erase, PlanStep,
       ListEntries, ReadManifest, Hash
  <2> QED  BY <1>3, <2>1, <2>2, <2>3, <2>4, <2>5 DEF JobStep, Build
<1>4. ASSUME NEW o \in Owners, Pruning(o) PROVE row' \in Table /\ TableForm(row', made', job')
  <2>1. CASE MarkPruned(o)
    <3>1. PICK t \in work[o] : IF Stored(t.id) THEN row' = [row EXCEPT ![t.id].status = "PRUNED"]
                               ELSE UNCHANGED row
      BY <2>1 DEF MarkPruned
    <3>2. t.id \in Ids
      BY DEF BackupsInv, TypeOK, Item
    <3> QED  BY <1>1, <1>2, <3>1, <3>2 DEF Stored
  <2> QED  BY <1>1, <1>4, <2>1 DEF Pruning, RemoveFile, RemoveContents, RemoveDirectory
<1>5. CASE RestoreTable
  <2>1. row' = script.from.table /\ script.from \in Content /\ TableForm(script.from.table, made, job)
    BY <1>5 DEF RestoreTable, BackupsInv, ScriptForm, TablesForm
  <2> QED  BY <1>0, <2>1, Files
<1>6. CASE RestoreMark
  BY <1>0, <1>6, MarkedForm
<1>7. ASSUME NEW j \in Jobs, AuditFails(j) PROVE row' \in Table /\ TableForm(row', made', job')
  <2>1. job'[j].pc = "failed" /\ MadeReady(j) /\ job[j].pc = "ready" /\ Stored(job[j].id)
    BY <1>0, <1>7 DEF AuditFails, Go, At, Job
  <2> QED  BY <1>0, <2>1, RecordedForm DEF Building
<1> QED
  BY <1>1, <1>3, <1>4, <1>5, <1>6, <1>7 DEF Next, Tick, Maintain, Request, Remove, Plan, RestoreBegin, Restore,
     RestoreRestart, ApiRestart, ScriptFails, StepFails, RemovalFails

-------------------------------------------------------------------------------
(* Archives, work directories and restore.sh.                              *)

\* An archive that is written is of a row being built, or of a new one.
ArchiveLater == \A n \in Names :
    \/ archive'[n] = archive[n] \/ archive'[n] = NoFile
    \/ /\ archive'[n] \in Content
       /\ archive'[n].of > made \/ \E k \in Jobs : Builder(job[k], archive'[n].of)

ArchiveStepped == /\ archive' \in [Names -> Content \cup {NoFile}]
                  /\ \A n \in Names : archive'[n] # NoFile => TableForm(archive'[n].table, made', job')
                  /\ ArchiveLater

LEMMA Written ==
    ASSUME BackupsInv, JobsLater, NEW n \in Names, NEW file \in Content, TableForm(file.table, made, job),
           file.of > made \/ \E k \in Jobs : Builder(job[k], file.of),
           archive' = [archive EXCEPT ![n] = file]
    PROVE  ArchiveStepped
<1>1. /\ archive \in [Names -> Content \cup {NoFile}] /\ made \in Nat /\ MaxRows \in Nat
      /\ \A m \in Names : archive[m] # NoFile => TableForm(archive[m].table, made, job)
  BY Numbers DEF BackupsInv, TypeOK, TablesForm
<1>2. \A m \in Names : archive'[m] = IF m = n THEN file ELSE archive[m]
  BY <1>1
<1>3. \A f \in Content : TableForm(f.table, made, job) => TableForm(f.table, made', job')
  BY <1>1, Files, TableLater
<1>4. ArchiveLater
  BY <1>2 DEF ArchiveLater
<1> QED  BY <1>1, <1>2, <1>3, <1>4 DEF ArchiveStepped

LEMMA LeftOrErased ==
    ASSUME BackupsInv, JobsLater, archive' = archive \/ \E name : archive' = Erased(name)
    PROVE  ArchiveStepped
<1>1. /\ archive \in [Names -> Content \cup {NoFile}] /\ made \in Nat /\ MaxRows \in Nat
      /\ \A m \in Names : archive[m] # NoFile => TableForm(archive[m].table, made, job)
  BY Numbers DEF BackupsInv, TypeOK, TablesForm
<1>2. /\ archive' \in [Names -> Content \cup {NoFile}]
      /\ \A m \in Names : archive'[m] = archive[m] \/ archive'[m] = NoFile
  BY <1>1 DEF Erased
<1>3. \A f \in Content : TableForm(f.table, made, job) => TableForm(f.table, made', job')
  BY <1>1, Files, TableLater
<1>4. ArchiveLater
  BY <1>2 DEF ArchiveLater
<1> QED  BY <1>1, <1>2, <1>3, <1>4 DEF ArchiveStepped

LEMMA ArchiveAfter ==
    ASSUME BackupsInv, Next
    PROVE  ArchiveStepped
<1>0. /\ JobsLater /\ TypeOK /\ TableForm(row, made, job) /\ row \in Table /\ made \in 0 .. MaxRows
      /\ now \in 0 .. MaxTime /\ \A j \in Jobs : JobForm(job[j], made)
      /\ \A i \in Ids : dir[i] \in Staged \cup {NoDir}
      /\ \A i \in Ids : dir[i] # NoDir => TableForm(dir[i].table, made, job)
  BY JobsAfter DEF JobsStepped, BackupsInv, TypeOK, JobsForm, TablesForm
<1>1. CASE archive' = archive \/ \E name : archive' = Erased(name)
  BY <1>0, <1>1, LeftOrErased
<1>2. ASSUME NEW j \in Jobs, Tar(j) PROVE ArchiveStepped
  <2> DEFINE i == job[j].id
             file == [of |-> i, parts |-> dir[i].parts \cup {"manifest.json"}, table |-> dir[i].table]
  <2>1. job[j].pc = "tar" /\ i \in Ids /\ job[j].name \in Names
    BY <1>0, <1>2, Numbers DEF Tar, At, JobForm, Building, Ids
  <2>2. CASE archive' = archive
    BY <1>1, <2>2
  <2>3. CASE archive' # archive
    <3>1. dir[i] # NoDir /\ archive' = [archive EXCEPT ![job[j].name] = file]
      BY <1>2, <2>3 DEF Tar
    <3>2. dir[i] \in Staged
      BY <1>0, <2>1, <3>1
    <3>3. file \in Content /\ file.of = i /\ file.table = dir[i].table
      BY <2>1, <3>2, Files DEF Content, Parts
    <3> HIDE DEF file
    <3>4. Builder(job[j], i)
      BY <2>1 DEF Builder, Building
    <3> QED  BY <1>0, <2>1, <3>1, <3>3, <3>4, Written
  <2> QED  BY <2>2, <2>3
<1>3. ASSUME NEW j \in Jobs, StepFails(j) PROVE ArchiveStepped
  <2>1. CASE archive' = archive
    BY <1>1, <2>1
  <2>2. CASE archive' # archive
    <3>1. job[j].pc = "tar" /\ archive' = [archive EXCEPT ![job[j].name] = Partial(job[j].id)]
      BY <1>3, <2>2 DEF StepFails, At
    <3>2. job[j].id \in Ids /\ job[j].name \in Names /\ Builder(job[j], job[j].id)
      BY <1>0, <3>1, Numbers DEF JobForm, Building, Builder, Ids
    <3>3. Partial(job[j].id) \in Content /\ Partial(job[j].id).table = NoTable
          /\ Partial(job[j].id).of = job[j].id
      BY <3>2, Files
    <3> QED  BY <1>0, <3>1, <3>2, <3>3, EmptyTables, Written
  <2> QED  BY <2>1, <2>2
<1>4. ASSUME NEW n \in Names, NEW options \in Options, RestoreBegin(n, options) PROVE ArchiveStepped
  <2>1. CASE archive' = archive
    BY <1>1, <2>1
  <2>2. CASE archive' # archive
    <3> DEFINE name == [by |-> "restore.sh", at |-> now]
               file == [of |-> made', parts |-> Parts, table |-> row]
    <3>1. made' = made + 1 /\ made < MaxRows /\ archive' = [archive EXCEPT ![name] = file]
      BY <1>4, <2>2 DEF RestoreBegin
    <3>2. made' \in Ids /\ made' > made /\ name \in Names
      BY <1>0, <3>1, Numbers DEF Ids, Names
    <3>3. file \in Content /\ file.of = made' /\ file.table = row
      BY <1>0, <3>2 DEF Content
    <3> HIDE DEF file
    <3> QED  BY <1>0, <3>1, <3>2, <3>3, Written
  <2> QED  BY <2>1, <2>2
<1>5. ASSUME NEW j \in Jobs, JobStep(j) PROVE ArchiveStepped
  BY <1>1, <1>2, <1>5 DEF JobStep, Build, Prune, PlanStep, PruneRead, SweepRead, Swept, Insert, Dump,
     Ready, Failed, Erase, Delete, ListEntries, ReadManifest, Hash
<1>6. ASSUME NEW o \in Owners, Pruning(o) PROVE ArchiveStepped
  BY <1>1, <1>6 DEF Pruning, RemoveFile, MarkPruned, RemoveContents, RemoveDirectory
<1> QED
  BY <1>1, <1>3, <1>4, <1>5, <1>6 DEF Next, Tick, Maintain, Request, Remove, Plan, Restore, RestoreTable,
     RestoreMark, RestoreRestart, ApiRestart, ScriptFails, AuditFails, RemovalFails

DirsStepped == /\ dir' \in [Ids -> Staged \cup {NoDir}]
               /\ \A i \in Ids : dir'[i] # NoDir => TableForm(dir'[i].table, made', job')

LEMMA DirAfter ==
    ASSUME BackupsInv, Next
    PROVE  DirsStepped
<1>0. /\ JobsLater /\ TableForm(row, made, job) /\ row \in Table
      /\ made \in 0 .. MaxRows /\ made \in Nat /\ MaxRows \in Nat
      /\ \A j \in Jobs : JobForm(job[j], made)
      /\ dir \in [Ids -> Staged \cup {NoDir}]
      /\ \A i \in Ids : dir[i] # NoDir => TableForm(dir[i].table, made, job)
  BY JobsAfter, Numbers DEF JobsStepped, BackupsInv, TypeOK, JobsForm, TablesForm
<1>1. \A s \in Staged : TableForm(s.table, made, job) => TableForm(s.table, made', job')
  BY <1>0, Files, TableLater
<1>2. CASE dir' = dir
  BY <1>0, <1>1, <1>2 DEF DirsStepped
<1>3. ASSUME NEW i, NEW s \in Staged \cup {NoDir}, s # NoDir => TableForm(s.table, made, job),
             dir' = [dir EXCEPT ![i] = s]
      PROVE  DirsStepped
  <2>1. dir' \in [Ids -> Staged \cup {NoDir}] /\ \A k \in Ids : dir'[k] = s \/ dir'[k] = dir[k]
    BY <1>0, <1>3
  <2> QED  BY <1>0, <1>1, <1>3, <2>1 DEF DirsStepped
<1>4. CASE \E i : dir' = [dir EXCEPT ![i] = NoDir]
  BY <1>3, <1>4
<1>5. Emptied \in Staged /\ Emptied.table = NoTable /\ TableForm(Emptied.table, made, job)
  BY EmptyTables DEF Emptied
<1>6. ASSUME NEW j \in Jobs, JobStep(j) PROVE DirsStepped
  <2>1. CASE Insert(j)
    BY <1>3, <1>5, <2>1 DEF Insert
  <2>2. CASE Dump(j)
    <3> DEFINE s == [parts |-> {"postgres.sql"}, table |-> row]
    <3>1. s \in Staged /\ s.table = row
      BY <1>0 DEF Staged, Parts
    <3> HIDE DEF s
    <3>2. dir' = [dir EXCEPT ![job[j].id] = s] \/ dir' = [dir EXCEPT ![job[j].id] = NoDir]
      BY <2>2 DEF Dump, Broken, s
    <3> QED  BY <1>0, <1>3, <1>4, <3>1, <3>2
  <2>3. CASE Tar(j)
    BY <1>4, <2>3 DEF Tar, Broken
  <2> QED  BY <1>2, <1>6, <2>1, <2>2, <2>3 DEF JobStep, Build, Prune, PlanStep, PruneRead, SweepRead, Swept,
              Ready, Failed, Erase, Delete, ListEntries, ReadManifest, Hash
<1>7. ASSUME NEW o \in Owners, Pruning(o) PROVE DirsStepped
  <2>1. CASE RemoveContents(o)
    <3>1. PICK t \in work[o] : dir' = [dir EXCEPT ![t.id] = IF @ = NoDir THEN NoDir ELSE Emptied]
      BY <2>1 DEF RemoveContents
    <3>2. \E s \in {NoDir, Emptied} : dir' = [dir EXCEPT ![t.id] = s]
      BY <3>1
    <3> QED  BY <1>3, <1>5, <3>2
  <2> QED  BY <1>2, <1>4, <1>7, <2>1 DEF Pruning, RemoveFile, MarkPruned, RemoveDirectory
<1>8. ASSUME NEW j \in Jobs, StepFails(j) PROVE DirsStepped
  BY <1>2, <1>4, <1>8 DEF StepFails, Broken
<1> QED
  BY <1>2, <1>6, <1>7, <1>8 DEF Next, Tick, Maintain, Request, Remove, Plan, RestoreBegin, Restore, RestoreTable,
     RestoreMark, RestoreRestart, ApiRestart, ScriptFails, AuditFails, RemovalFails

ScriptStepped == /\ script' \in Script /\ ScriptForm'
                 /\ script'.pc = "table" => TableForm(script'.from.table, made', job')

LEMMA ScriptAfter ==
    ASSUME BackupsInv, Next
    PROVE  ScriptStepped
<1>0. /\ JobsLater /\ script \in Script /\ ScriptForm /\ made \in Nat /\ MaxRows \in Nat /\ made' \in Nat
      /\ made <= made' /\ made' <= MaxRows /\ made \in 0 .. MaxRows /\ now \in 0 .. MaxTime
      /\ \A n \in Names : archive[n] # NoFile => archive[n] \in Content /\ TableForm(archive[n].table, made, job)
      /\ \A j \in Jobs : JobForm(job[j], made)
  <2>1. JobsLater /\ made \in 0 .. MaxRows
    BY JobsAfter DEF JobsStepped, BackupsInv, TypeOK
  <2>2. made' \in Nat /\ made <= made' /\ made' <= MaxRows
    BY <2>1, Numbers DEF JobsLater
  <2> QED  BY <2>1, <2>2, Numbers DEF BackupsInv, TypeOK, JobsForm, TablesForm
<1>1. \A f \in Content : TableForm(f.table, made, job) => TableForm(f.table, made', job')
  BY <1>0, Files, TableLater
<1>2. \A i \in 1 .. made : (\A j \in Jobs : ~Builder(job[j], i)) => \A j \in Jobs : ~Builder(job'[j], i)
  <2>1. \A i \in 1 .. made : i \in Ids /\ ~(i > made)
    BY <1>0 DEF Ids
  <2> QED  BY <1>0, <2>1 DEF JobsLater
<1>3. CASE script' = script /\ (now' = now \/ script.pc = "idle")
  <2>1. script.id # None => /\ script.pc # "idle" /\ script.name \in Names /\ script.name.at = now'
                            /\ script.id \in 1 .. made' /\ \A j \in Jobs : ~Builder(job'[j], script.id)
    BY <1>0, <1>2, <1>3 DEF ScriptForm
  <2>2. script.pc = "table" => TableForm(script.from.table, made', job')
    BY <1>0, <1>1, <1>3 DEF BackupsInv, TablesForm, ScriptForm
  <2> QED  BY <1>0, <1>3, <2>1, <2>2 DEF ScriptStepped, ScriptForm
<1>4. CASE script' = IdleScript
  <2>1. IdleScript \in Script /\ IdleScript.pc = "idle" /\ IdleScript.id = None
    BY DEF IdleScript, Script
  <2> QED  BY <1>4, <2>1 DEF ScriptStepped, ScriptForm
<1>5. ASSUME NEW pc \in {"mark", "restart"}, script' = [script EXCEPT !.pc = pc], script.pc # "idle", now' = now
      PROVE  ScriptStepped
  <2>1. /\ script' \in Script /\ script'.pc = pc /\ script'.id = script.id /\ script'.name = script.name
        /\ script'.from = script.from
    BY <1>0, <1>5 DEF Script
  <2>2. script.id # None => /\ script.name \in Names /\ script.name.at = now'
                            /\ script.id \in 1 .. made' /\ \A j \in Jobs : ~Builder(job'[j], script.id)
    BY <1>0, <1>2, <1>5 DEF ScriptForm
  <2>3. script.from \in Content
    BY <1>0, <1>5 DEF ScriptForm
  <2> QED  BY <2>1, <2>2, <2>3 DEF ScriptStepped, ScriptForm
<1>6. ASSUME NEW n \in Names, NEW options \in Options, RestoreBegin(n, options) PROVE ScriptStepped
  <2>1. archive[n] \in Content /\ TableForm(archive[n].table, made', job')
    BY <1>0, <1>1, <1>6 DEF RestoreBegin, Accepted
  <2> DEFINE name == [by |-> "restore.sh", at |-> now]
             guarded == [pc |-> "table", from |-> archive[n], name |-> name, id |-> made']
             bare == [IdleScript EXCEPT !.pc = "table", !.from = archive[n]]
  <2>2. CASE script' = guarded /\ made' = made + 1
    <3>1. name \in Names /\ name.at = now /\ made' \in Ids /\ now' = now /\ job' = job
      BY <1>0, <1>6, <2>2 DEF Names, Ids, RestoreBegin
    <3>2. guarded \in Script
      BY <2>1, <3>1 DEF Script
    <3>3. \A j \in Jobs : ~Builder(job[j], made')
      BY <1>0, <2>2 DEF JobForm, Builder
    <3> QED  BY <1>0, <2>1, <2>2, <3>1, <3>2, <3>3 DEF ScriptStepped, ScriptForm, Ids
  <2>3. CASE script' = bare
    <3>1. bare \in Script /\ bare.pc = "table" /\ bare.from = archive[n] /\ bare.id = None
      BY <2>1 DEF IdleScript, Script
    <3> HIDE DEF bare
    <3> QED  BY <2>1, <2>3, <3>1 DEF ScriptStepped, ScriptForm
  <2> QED  BY <1>6, <2>2, <2>3 DEF RestoreBegin
<1>7. CASE Restore
  BY <1>4, <1>5, <1>7 DEF Restore, RestoreTable, RestoreMark, RestoreRestart
<1>8. ASSUME NEW j \in Jobs, JobStep(j) PROVE script' = script /\ now' = now
  BY <1>8 DEF JobStep, Build, Prune, PlanStep, PruneRead, SweepRead, Swept, Insert, Dump, Tar,
     Ready, Failed, Erase, Delete, ListEntries, ReadManifest, Hash
<1>9. ASSUME NEW o \in Owners, Pruning(o) PROVE script' = script /\ now' = now
  BY <1>9 DEF Pruning, RemoveFile, MarkPruned, RemoveContents, RemoveDirectory
<1> QED
  BY <1>3, <1>4, <1>6, <1>7, <1>8, <1>9 DEF Next, Tick, Maintain, Request, Remove, Plan,
     ApiRestart, ScriptFails, StepFails, AuditFails, RemovalFails

-------------------------------------------------------------------------------
(* What is still to be removed.                                            *)

\* A removal that is under way, or of an archive whose time has come.
Known(t) == \/ \E o \in Owners : t \in work[o]
            \/ t.do = "file" /\ t.name # Placeholder => t.name \in Names /\ t.name.at + Retention < now

LEMMA KnownStays ==
    ASSUME BackupsInv, now' \in {now, now + 1}, work' \in [Owners -> SUBSET Item],
           \A o \in Owners : \A t \in work'[o] : Known(t)
    PROVE  WorkForm'
<1>1. /\ now \in Nat /\ Retention \in Nat
      /\ \A n \in Names : n.at \in Nat
  BY Numbers DEF BackupsInv, TypeOK, Names
<1> SUFFICES ASSUME NEW o \in Owners, NEW t \in work'[o], t.do = "file", t.name # Placeholder
             PROVE  t.name \in Names /\ t.name.at + Retention < now'
  BY DEF WorkForm
<1>2. t.name \in Names /\ t.name.at + Retention < now
  BY <1>1 DEF Known, BackupsInv, WorkForm
<1>3. now' = now \/ now' = now + 1
  OBVIOUS
<1> QED  BY <1>1, <1>2, <1>3

LEMMA WorkAfter ==
    ASSUME BackupsInv, Next
    PROVE  work' \in [Owners -> SUBSET Item] /\ WorkForm'
<1>0. /\ work \in [Owners -> SUBSET Item] /\ row \in Table /\ TableForm(row, made, job)
      /\ Jobs \subseteq Owners /\ Loose \in Owners
  BY Numbers DEF BackupsInv, TypeOK, TablesForm
<1> DEFINE Goal == work' \in [Owners -> SUBSET Item] /\ \A o \in Owners : \A t \in work'[o] : Known(t)
<1>1. ASSUME work' = work \/ Restarted PROVE Goal
  BY <1>0, <1>1 DEF Restarted, Known
<1>2. ASSUME NEW o \in Owners, NEW t \in work[o], NEW next \in SUBSET Item, Then(o, t, next),
             \A u \in next : u.do # "file"
      PROVE  Goal
  <2>1. work' = [work EXCEPT ![o] = (work[o] \ {t}) \cup next]
    BY <1>2 DEF Then
  <2> QED  BY <1>0, <1>2, <2>1 DEF Known
<1>3. ASSUME NEW o \in Owners, NEW t \in work[o], GiveUp(o, t) PROVE Goal
  <2>1. CASE o = Loose
    BY <1>2, <1>3, <2>1 DEF GiveUp
  <2>2. CASE o # Loose
    <3>1. work' = [work EXCEPT ![o] = {}, ![Loose] = @ \cup (work[o] \ {t})]
      BY <1>3, <2>2 DEF GiveUp
    <3> QED  BY <1>0, <2>2, <3>1 DEF Known
  <2> QED  BY <2>1, <2>2
<1>4. ASSUME NEW o \in Owners, Pruning(o) PROVE Goal
  <2>1. ASSUME NEW t \in work[o], NEW do \in {"row", "directory"}
        PROVE  {[t EXCEPT !.do = do]} \in SUBSET Item /\ \A u \in {[t EXCEPT !.do = do]} : u.do # "file"
    <3>1. t \in Item
      BY <1>0
    <3> QED  BY <3>1 DEF Item
  <2>2. CASE RemoveFile(o)
    BY <1>2, <2>1, <2>2 DEF RemoveFile
  <2>3. CASE MarkPruned(o)
    BY <1>2, <1>3, <2>3 DEF MarkPruned
  <2>4. CASE RemoveContents(o)
    BY <1>2, <2>1, <2>4 DEF RemoveContents
  <2>5. CASE RemoveDirectory(o)
    BY <1>2, <1>3, <2>5 DEF RemoveDirectory
  <2> QED  BY <1>4, <2>2, <2>3, <2>4, <2>5 DEF Pruning
<1>5. ASSUME NEW j \in Jobs, NEW items, items \in SUBSET Item, work' = [work EXCEPT ![j] = items],
             \A t \in items : Known(t)
      PROVE  Goal
  BY <1>0, <1>5 DEF Known
<1>6. ASSUME NEW j \in Jobs, PruneRead(j) PROVE Goal
  <2> DEFINE items == {[id |-> i, name |-> row[i].name, do |-> "file"] : i \in {k \in Ids : Expired(k)}}
  <2>1. ASSUME NEW i \in Ids, Expired(i)
        PROVE  LET t == [id |-> i, name |-> row[i].name, do |-> "file"] IN t \in Item /\ Known(t)
    <3>1. row[i] \in Row /\ RowForm(i, row[i], made, job) /\ row[i] # NoRow /\ row[i].at + Retention < now
      BY <1>0, <2>1 DEF Expired, Stored, Table, TableForm
    <3>2. row[i].name \in Names \cup {Placeholder}
      BY <3>1 DEF Row
    <3> QED  BY <3>1, <3>2 DEF Item, Known, RowForm
  <2>2. items \in SUBSET Item /\ \A t \in items : Known(t)
    BY <2>1
  <2>3. work' = [work EXCEPT ![j] = items]
    BY <1>6 DEF PruneRead
  <2> HIDE DEF items
  <2> QED  BY <1>5, <2>2, <2>3
<1>7. ASSUME NEW j \in Jobs, SweepRead(j) PROVE Goal
  <2> DEFINE items == {[id |-> i, name |-> None, do |-> "contents"] : i \in {k \in Ids : dir[k] # NoDir}}
  <2>1. items \in SUBSET Item /\ \A t \in items : Known(t)
    BY DEF Item, Known
  <2>2. work' = [work EXCEPT ![j] = items]
    BY <1>7 DEF SweepRead
  <2> HIDE DEF items
  <2> QED  BY <1>5, <2>1, <2>2
<1> HIDE DEF Goal
<1>8. ASSUME NEW j \in Jobs, JobStep(j) PROVE Goal
  BY <1>1, <1>6, <1>7, <1>8 DEF JobStep, Build, Prune, PlanStep, Swept, Insert, Dump, Tar,
     Ready, Failed, Erase, Delete, ListEntries, ReadManifest, Hash
<1>9. Goal
  BY <1>1, <1>3, <1>4, <1>8 DEF Next, Tick, Maintain, Request, Remove, Plan, RestoreBegin, Restore, RestoreTable,
     RestoreMark, RestoreRestart, ApiRestart, ScriptFails, StepFails, AuditFails, RemovalFails
<1>10. now' \in {now, now + 1}
  <2>1. ASSUME NEW j \in Jobs, JobStep(j) PROVE now' = now
    BY <2>1 DEF JobStep, Build, Prune, PlanStep, PruneRead, SweepRead, Swept, Insert, Dump, Tar,
       Ready, Failed, Erase, Delete, ListEntries, ReadManifest, Hash
  <2>2. ASSUME NEW o \in Owners, Pruning(o) PROVE now' = now
    BY <2>2 DEF Pruning, RemoveFile, MarkPruned, RemoveContents, RemoveDirectory
  <2> QED
    BY <2>1, <2>2 DEF Next, Tick, Maintain, Request, Remove, Plan, RestoreBegin, Restore, RestoreTable,
       RestoreMark, RestoreRestart, ApiRestart, ScriptFails, StepFails, AuditFails, RemovalFails
<1> QED  BY <1>9, <1>10, KnownStays DEF Goal

-------------------------------------------------------------------------------
(* Plans.                                                                  *)

Planning == {"entries", "manifest", "hash"}

Planless == \A j \in Jobs : job'[j] = job[j] \/ job'[j].pc \notin Planning

LEMMA EndsPlanless ==
    ASSUME TypeOK, NEW j \in Jobs,
           \/ End(j) \/ \E pc : Go(j, pc) /\ pc \notin Planning
           \/ Restarted \/ UNCHANGED job
    PROVE  Planless
<1>1. job \in [Jobs -> Job] /\ \A k \in Jobs : job[k] \in Job
  BY DEF TypeOK
<1>2. ASSUME NEW pc, pc \notin Planning, Go(j, pc) PROVE Planless
  <2>1. job' = [job EXCEPT ![j] = [job[j] EXCEPT !.pc = pc]]
    BY <1>2 DEF Go
  <2>2. job'[j].pc = pc /\ \A k \in Jobs \ {j} : job'[k] = job[k]
    BY <1>1, <2>1 DEF Job
  <2> QED  BY <1>2, <2>2 DEF Planless
<1>3. End(j) \/ Restarted => Planless
  BY <1>1, Numbers DEF End, Restarted, Planless, Planning
<1> QED  BY <1>2, <1>3 DEF Planless

\* Who reads an archive for a plan read it before, or has begun with its row.
PlanGoes(j) ==
    /\ job[j].pc \in Planning
    /\ job'[j].id = job[j].id /\ job'[j].name = job[j].name /\ job'[j].sum = job[j].sum
    /\ \/ job'[j] = job[j]
       \/ /\ archive' = archive
          /\ \/ job'[j].seen = archive[job[j].name].parts
             \/ job[j].pc = "manifest" /\ job'[j].seen \subseteq job[j].seen
PlanBegins(j) ==
    /\ job'[j].pc = "entries"
    /\ \E i \in Ids : job'[j].id = i /\ row[i] # NoRow /\ row[i].name # Placeholder

LEMMA PlanSteps ==
    ASSUME BackupsInv, Next
    PROVE  \A j \in Jobs : job'[j].pc \in Planning => PlanGoes(j) \/ PlanBegins(j)
<1>0. TypeOK /\ job \in [Jobs -> Job] /\ Jobs # {} /\ Timer \in Jobs /\ Calls \subseteq Jobs
  BY Numbers DEF BackupsInv, TypeOK
<1> DEFINE Goal == \A j \in Jobs : job'[j].pc \in Planning => PlanGoes(j) \/ PlanBegins(j)
<1>1. Planless => Goal
  BY DEF Planless, PlanGoes
<1>2. ASSUME NEW j \in Jobs, NEW rec, job' = [job EXCEPT ![j] = rec],
             rec.pc \in Planning => PlanGoes(j) \/ PlanBegins(j)
      PROVE  Goal
  <2>1. job'[j] = rec /\ \A k \in Jobs \ {j} : job'[k] = job[k]
    BY <1>0, <1>2
  <2> QED  BY <1>2, <2>1 DEF PlanGoes
<1>3. ASSUME NEW j \in Jobs, JobStep(j) PROVE Goal
  <2>1. CASE Prune(j) \/ Dump(j) \/ Ready(j) \/ Failed(j) \/ Erase(j) \/ Delete(j) \/ Hash(j)
    BY <1>0, <1>1, <2>1, EndsPlanless DEF Prune, PruneRead, SweepRead, Swept, AfterPrune, Dump, Broken,
       Ready, Failed, Erase, Delete, Hash, Planning
  <2>2. CASE Insert(j)
    <3>1. job' = [job EXCEPT ![j] = [job[j] EXCEPT !.pc = "dump", !.id = made',
                                                   !.name = [by |-> "api", at |-> now]]]
      BY <2>2 DEF Insert
    <3> QED  BY <1>0, <1>2, <3>1 DEF Job, Planning
  <2>3. CASE Tar(j)
    <3>1. CASE Broken(j)
      BY <1>0, <1>1, <3>1, EndsPlanless DEF Broken, Planning
    <3>2. CASE ~Broken(j)
      <4>1. PICK sum : job' = [job EXCEPT ![j] = [job[j] EXCEPT !.pc = "ready", !.sum = sum]]
        BY <2>3, <3>2 DEF Tar
      <4>2. [job[j] EXCEPT !.pc = "ready", !.sum = sum].pc \notin Planning
        BY <1>0 DEF Job, Planning
      <4> QED  BY <1>2, <4>1, <4>2
    <3> QED  BY <3>1, <3>2
  <2>4. CASE ListEntries(j)
    <3>1. CASE End(j)
      BY <1>0, <1>1, <3>1, EndsPlanless
    <3>2. CASE ~End(j)
      <4> DEFINE rec == [job[j] EXCEPT !.pc = "manifest", !.seen = archive[job[j].name].parts]
      <4>1. job' = [job EXCEPT ![j] = rec] /\ job[j].pc = "entries" /\ archive' = archive
        BY <2>4, <3>2 DEF ListEntries, At
      <4>2. /\ rec.id = job[j].id /\ rec.name = job[j].name /\ rec.sum = job[j].sum
            /\ rec.seen = archive[job[j].name].parts /\ job'[j] = rec
        BY <1>0, <4>1 DEF Job
      <4> HIDE DEF rec
      <4>3. PlanGoes(j)
        BY <4>1, <4>2 DEF PlanGoes, Planning
      <4> QED  BY <1>2, <4>1, <4>3
    <3> QED  BY <3>1, <3>2
  <2>5. CASE ReadManifest(j)
    <3> DEFINE seen == IF Readable(job[j].name) THEN job[j].seen ELSE job[j].seen \ {"manifest.json"}
               rec == [job[j] EXCEPT !.pc = "hash", !.seen = seen]
    <3>1. job' = [job EXCEPT ![j] = rec] /\ job[j].pc = "manifest" /\ archive' = archive
      BY <1>0, <2>5 DEF ReadManifest, At
    <3>2. /\ rec.id = job[j].id /\ rec.name = job[j].name /\ rec.sum = job[j].sum
          /\ rec.seen = seen /\ seen \subseteq job[j].seen /\ job'[j] = rec
      BY <1>0, <3>1 DEF Job
    <3> HIDE DEF rec, seen
    <3>3. PlanGoes(j)
      BY <3>1, <3>2 DEF PlanGoes, Planning
    <3> QED  BY <1>2, <3>1, <3>3
  <2> QED  BY <1>3, <2>1, <2>2, <2>3, <2>4, <2>5 DEF JobStep, Build, PlanStep
<1>4. ASSUME NEW j \in Jobs, NEW kind, job' = [job EXCEPT ![j].kind = kind, ![j].pc = "stale"] PROVE Goal
  <2>1. job' = [job EXCEPT ![j] = [job[j] EXCEPT !.kind = kind, !.pc = "stale"]]
    BY <1>4
  <2> QED  BY <1>0, <1>2, <2>1 DEF Job, Planning
<1>5. CASE Maintain \/ \E j \in Calls : Request(j, "manual") \/ Request(j, "list")
  BY <1>0, <1>4, <1>5 DEF Maintain, Request
<1>6. ASSUME NEW j \in Calls, Remove(j) PROVE Goal
  <2>1. PICK i \in Ids : job' = [job EXCEPT ![j] = [IdleJob EXCEPT
                              !.kind = "remove", !.pc = "erase", !.id = i, !.name = row[i].name]]
    BY <1>6 DEF Remove
  <2> QED  BY <1>0, <1>2, <2>1 DEF IdleJob, Planning
<1>7. ASSUME NEW j \in Calls, Plan(j) PROVE Goal
  <2>1. PICK i \in Ids : /\ row[i] # NoRow /\ row[i].name # Placeholder
                         /\ job' = [job EXCEPT ![j] = [IdleJob EXCEPT !.kind = "plan", !.pc = "entries",
                              !.id = i, !.name = row[i].name, !.sum = row[i].sum]]
    BY <1>7 DEF Plan, Stored
  <2>2. job'[j].pc = "entries" /\ job'[j].id = i
    BY <1>0, <2>1 DEF IdleJob
  <2> QED  BY <1>0, <1>2, <2>1, <2>2 DEF PlanBegins
<1>8. ASSUME NEW o \in Owners, NEW t \in work[o], GiveUp(o, t) PROVE Goal
  BY <1>0, <1>1, <1>8, EndsPlanless DEF GiveUp, Owners
<1>9. CASE UNCHANGED job \/ Restarted
  BY <1>0, <1>1, <1>9, EndsPlanless
<1>10. ASSUME NEW o \in Owners, Pruning(o) \/ RemovalFails(o) PROVE Goal
  BY <1>8, <1>9, <1>10 DEF Pruning, RemovalFails, RemoveFile, MarkPruned, RemoveContents, RemoveDirectory
<1>11. ASSUME NEW j \in Jobs, StepFails(j) \/ AuditFails(j) PROVE Goal
  BY <1>0, <1>1, <1>11, EndsPlanless DEF StepFails, AuditFails, Broken, Planning
<1> QED
  BY <1>3, <1>5, <1>6, <1>7, <1>9, <1>10, <1>11 DEF Next, Tick, RestoreBegin, Restore,
     RestoreTable, RestoreMark, RestoreRestart, ApiRestart, ScriptFails

LEMMA PlansAfter ==
    ASSUME BackupsInv, Next
    PROVE  PlansForm'
<1>0. /\ JobsLater /\ ArchiveLater /\ OneBuilder /\ PlansForm /\ made \in Nat
      /\ \A j \in Jobs : JobForm(job[j], made) /\ JobForm(job'[j], made')
      /\ \A i \in Ids : RowForm(i, row[i], made, job)
      /\ archive \in [Names -> Content \cup {NoFile}]
  BY JobsAfter, ArchiveAfter, Numbers
  DEF JobsStepped, ArchiveStepped, BackupsInv, TypeOK, JobsForm, TablesForm, TableForm
<1>1. ASSUME NEW j \in Jobs, job'[j].pc \in Planning
      PROVE  /\ job'[j].id \in Ids /\ job'[j].id <= made
             /\ \A k \in Jobs : ~Builder(job[k], job'[j].id)
  <2>1. CASE PlanGoes(j)
    BY <1>0, <2>1, Numbers DEF PlanGoes, Planning, PlansForm, JobForm, BackupsInv, TypeOK, Ids
  <2>2. CASE PlanBegins(j)
    BY <1>0, <2>2 DEF PlanBegins, RowForm
  <2> QED  BY <1>1, <2>1, <2>2, PlanSteps
<1>2. ASSUME NEW j \in Jobs, NEW k \in Jobs, job'[j].pc \in Planning, Builder(job'[k], job'[j].id)
      PROVE  FALSE
  <2>1. job'[j].id \in Nat /\ ~(job'[j].id > made)
    BY <1>0, <1>1, <1>2, Numbers
  <2> QED  BY <1>0, <1>1, <1>2, <2>1 DEF JobsLater
<1>3. ASSUME NEW j \in Jobs PROVE PlanSeen(job'[j], archive')
  <2> SUFFICES ASSUME job'[j].pc \in {"manifest", "hash"}, archive'[job'[j].name] # NoFile,
                      ChecksumOf(archive'[job'[j].name]) = job'[j].sum
               PROVE  job'[j].seen \subseteq archive'[job'[j].name].parts
    BY DEF PlanSeen
  <2> DEFINE n == job[j].name
  <2>1. PlanGoes(j)
    BY PlanSteps DEF PlanBegins, Planning
  <2>2. n \in Names /\ job[j].sum.of = job[j].id
    BY <1>0, <2>1 DEF PlanGoes, Planning, JobForm
  <2>3. archive'[n].of = job[j].id
    BY <2>1, <2>2 DEF PlanGoes, ChecksumOf
  <2>4. archive'[n] = archive[n]
    <3>0. job'[j].id = archive'[n].of /\ job'[j].pc \in Planning
      BY <2>1, <2>3 DEF PlanGoes, Planning
    <3>1. ~(archive'[n].of > made) /\ \A k \in Jobs : ~Builder(job[k], archive'[n].of)
      <4>1. job'[j].id \in Nat /\ job'[j].id <= made /\ \A k \in Jobs : ~Builder(job[k], job'[j].id)
        BY <1>1, <3>0, Numbers
      <4> QED  BY <1>0, <3>0, <4>1
    <3> QED  BY <1>0, <2>1, <2>2, <3>1 DEF ArchiveLater, PlanGoes
  <2>5. PlanSeen(job[j], archive)
    BY <1>0 DEF PlansForm
  <2>6. CASE job'[j] = job[j]
    BY <2>1, <2>4, <2>5, <2>6 DEF PlanSeen
  <2>7. CASE job'[j].seen = archive[n].parts
    BY <2>1, <2>4, <2>7 DEF PlanGoes
  <2>8. CASE job[j].pc = "manifest" /\ job'[j].seen \subseteq job[j].seen
    BY <2>1, <2>4, <2>5, <2>8 DEF PlanGoes, PlanSeen
  <2> QED  BY <2>1, <2>6, <2>7, <2>8 DEF PlanGoes
<1> QED  BY <1>2, <1>3 DEF PlansForm, Planning

-------------------------------------------------------------------------------
(* The theorems.                                                           *)

LEMMA BackupsInit == Init => BackupsInv
<1> SUFFICES ASSUME Init PROVE BackupsInv
  OBVIOUS
<1>1. TypeOK
  <2>1. IdleScript \in Script /\ NoTable \in Table
    BY EmptyTables DEF IdleScript, Script
  <2> QED  BY <2>1, Numbers DEF Init, TypeOK
<1>2. \A j \in Jobs : job[j].pc = "idle"
  BY Numbers DEF Init
<1>3. JobsForm /\ OneBuilder /\ PlansForm
  BY <1>2 DEF JobsForm, JobForm, OneBuilder, PlansForm, PlanSeen, Builder, Building
<1>4. TablesForm
  BY EmptyTables DEF Init, TablesForm, IdleScript
<1>5. ScriptForm /\ WorkForm
  BY DEF Init, ScriptForm, WorkForm, IdleScript
<1> QED  BY <1>1, <1>3, <1>4, <1>5 DEF BackupsInv

LEMMA BackupsStep == BackupsInv /\ [Next]_vars => BackupsInv'
<1>1. ASSUME BackupsInv, Next PROVE BackupsInv'
  <2>1. now' \in 0 .. MaxTime /\ events' \in 0 .. MaxEvents
    <3>1. now \in 0 .. MaxTime /\ events \in 0 .. MaxEvents
      BY <1>1 DEF BackupsInv, TypeOK
    <3>2. Event => events' \in 0 .. MaxEvents
      BY <3>1, Numbers DEF Event
    <3>3. ASSUME NEW j \in Jobs, JobStep(j) PROVE UNCHANGED <<now, events>>
      BY <3>3 DEF JobStep, Build, Prune, PlanStep, PruneRead, SweepRead, Swept, Insert, Dump, Tar,
         Ready, Failed, Erase, Delete, ListEntries, ReadManifest, Hash
    <3>4. ASSUME NEW o \in Owners, Pruning(o) PROVE UNCHANGED <<now, events>>
      BY <3>4 DEF Pruning, RemoveFile, MarkPruned, RemoveContents, RemoveDirectory
    <3>5. CASE Tick
      BY <3>1, <3>5, Numbers DEF Tick
    <3> QED
      BY <1>1, <3>1, <3>2, <3>3, <3>4, <3>5 DEF Next, Maintain, Request, Remove, Plan, RestoreBegin, Restore,
         RestoreTable, RestoreMark, RestoreRestart, ApiRestart, ScriptFails, StepFails, AuditFails, RemovalFails
  <2>2. made' \in 0 .. MaxRows
    <3>1. made \in 0 .. MaxRows /\ made' \in made .. MaxRows
      BY <1>1, JobsAfter DEF BackupsInv, TypeOK, JobsStepped, JobsLater
    <3> QED  BY <3>1, Numbers
  <2>3. TypeOK'
    BY <1>1, <2>1, <2>2, JobsAfter, RowAfter, ArchiveAfter, DirAfter, ScriptAfter, WorkAfter
    DEF JobsStepped, ArchiveStepped, DirsStepped, ScriptStepped, TypeOK
  <2>4. JobsForm' /\ OneBuilder'
    BY <1>1, JobsAfter DEF JobsStepped
  <2>5. TablesForm'
    BY <1>1, RowAfter, ArchiveAfter, DirAfter, ScriptAfter
    DEF ArchiveStepped, DirsStepped, ScriptStepped, TablesForm
  <2>6. ScriptForm' /\ WorkForm' /\ PlansForm'
    BY <1>1, ScriptAfter, WorkAfter, PlansAfter DEF ScriptStepped
  <2> QED  BY <2>3, <2>4, <2>5, <2>6 DEF BackupsInv
<1>2. ASSUME BackupsInv, UNCHANGED vars PROVE BackupsInv'
  BY <1>2 DEF vars, BackupsInv, TypeOK, JobsForm, OneBuilder, TablesForm, ScriptForm, PlansForm, WorkForm
<1> QED  BY <1>1, <1>2

LEMMA BackupsAlways == HistorySpec => []BackupsInv
<1>1. HistoryInit => BackupsInv
  BY BackupsInit DEF HistoryInit
<1>2. BackupsInv /\ [HistoryNext]_historyVars => BackupsInv'
  BY BackupsStep DEF HistoryNext, historyVars
<1> QED  BY <1>1, <1>2, PTL DEF HistorySpec

\* Rows, archives, work directories, tasks, what is to be removed and the
\* script keep their types, whatever fails, restarts or is restored.
THEOREM TypeCorrect == HistorySpec => []TypeOK
<1>1. BackupsInv => TypeOK
  BY DEF BackupsInv
<1> QED  BY <1>1, BackupsAlways, PTL

\* How an archive can go.
LEMMA ArchiveGoes ==
    ASSUME BackupsInv, Next, NEW n \in Names, archive[n] # NoFile, archive'[n] = NoFile
    PROVE  \/ \E j \in Jobs : At(j, "erase") /\ job[j].name = n
           \/ \E o \in Owners : \E t \in work[o] : t.do = "file" /\ t.name = n
<1>0. archive \in [Names -> Content \cup {NoFile}] /\ NoFile \notin Content
  BY Files DEF BackupsInv, TypeOK
<1>1. archive' # archive
  OBVIOUS
<1>2. made \in 0 .. MaxRows /\ \A j \in Jobs : JobForm(job[j], made)
  BY DEF BackupsInv, TypeOK, JobsForm
<1>3. \A name : archive' = Erased(name) => name = n
  BY <1>0 DEF Erased
<1>4. ASSUME NEW m, NEW file \in Content, archive' = [archive EXCEPT ![m] = file] PROVE FALSE
  BY <1>0, <1>4
<1>5. ASSUME NEW j \in Jobs, Tar(j) PROVE FALSE
  <2> DEFINE i == job[j].id
             file == [of |-> i, parts |-> dir[i].parts \cup {"manifest.json"}, table |-> dir[i].table]
  <2>1. job[j].pc = "tar" /\ i \in Ids
    BY <1>5, <1>2, Numbers DEF Tar, At, JobForm, Building, Ids
  <2>2. dir[i] # NoDir /\ archive' = [archive EXCEPT ![job[j].name] = file]
    BY <1>1, <1>5 DEF Tar
  <2>3. dir[i] \in Staged
    BY <2>1, <2>2 DEF BackupsInv, TypeOK
  <2>4. file \in Content
    BY <2>1, <2>3, Files DEF Content, Parts
  <2> HIDE DEF file
  <2> QED  BY <1>4, <2>2, <2>4
<1>6. ASSUME NEW j \in Jobs, StepFails(j) PROVE FALSE
  <2>1. job[j].pc = "tar" /\ archive' = [archive EXCEPT ![job[j].name] = Partial(job[j].id)]
    BY <1>1, <1>6 DEF StepFails, At
  <2>2. job[j].id \in Ids
    BY <1>2, <2>1, Numbers DEF JobForm, Building, Ids
  <2>3. Partial(job[j].id) \in Content
    BY <2>2, Files
  <2> QED  BY <1>4, <2>1, <2>3
<1>7. ASSUME NEW m \in Names, NEW options \in Options, RestoreBegin(m, options) PROVE FALSE
  <2> DEFINE file == [of |-> made', parts |-> Parts, table |-> row]
  <2>1. made' = made + 1 /\ made < MaxRows /\ archive' = [archive EXCEPT ![[by |-> "restore.sh", at |-> now]] = file]
    BY <1>1, <1>7 DEF RestoreBegin
  <2>2. made' \in Ids /\ row \in Table
    BY <2>1, Numbers DEF BackupsInv, TypeOK, Ids
  <2>3. file \in Content
    BY <2>2 DEF Content
  <2> HIDE DEF file
  <2> QED  BY <1>4, <2>1, <2>3
<1>8. ASSUME NEW j \in Jobs, JobStep(j) PROVE At(j, "erase") /\ job[j].name = n
  <2>1. Erase(j)
    BY <1>1, <1>5, <1>8 DEF JobStep, Build, Prune, PlanStep, PruneRead, SweepRead, Swept, Insert, Dump,
       Ready, Failed, Delete, ListEntries, ReadManifest, Hash
  <2> QED  BY <1>3, <2>1 DEF Erase
<1>9. ASSUME NEW o \in Owners, Pruning(o) PROVE \E t \in work[o] : t.do = "file" /\ t.name = n
  <2>1. RemoveFile(o)
    BY <1>1, <1>9 DEF Pruning, MarkPruned, RemoveContents, RemoveDirectory
  <2> QED  BY <1>3, <2>1 DEF RemoveFile
<1> QED
  BY <1>1, <1>6, <1>7, <1>8, <1>9 DEF Next, Tick, Maintain, Request, Remove, Plan, Restore, RestoreTable,
     RestoreMark, RestoreRestart, ApiRestart, ScriptFails, AuditFails, RemovalFails

\* Only what has expired is pruned: an archive of a row that is READY and not past
\* retention goes only by a removal a caller asked for (KeptUntilExpired).
THEOREM ArchivesKept == HistorySpec => KeptUntilExpired
<1> DEFINE Kept == \A i \in Ids \ spoilt :
      /\ Stored(i) /\ row[i].status = "READY" /\ row[i].at + Retention >= now
      /\ archive[row[i].name] # NoFile
      /\ \A j \in Jobs : At(j, "erase") => job[j].name # row[i].name
      => archive'[row[i].name] # NoFile
<1>1. ASSUME BackupsInv, HistoryNext PROVE Kept
  <2>1. SUFFICES ASSUME NEW i \in Ids, Stored(i), row[i].status = "READY", row[i].at + Retention >= now,
                        archive[row[i].name] # NoFile, archive'[row[i].name] = NoFile,
                        \A j \in Jobs : At(j, "erase") => job[j].name # row[i].name
                 PROVE  FALSE
    OBVIOUS
  <2>2. row[i] \in Row /\ row[i].name # Placeholder /\ row[i].name.at = row[i].at
    BY <1>1, <2>1 DEF BackupsInv, TypeOK, Table, TablesForm, TableForm, RowForm, Stored
  <2>3. row[i].name \in Names /\ row[i].at \in Nat /\ now \in Nat /\ Retention \in Nat
    BY <1>1, <2>2, Numbers DEF Row, BackupsInv, TypeOK
  <2>4. PICK o \in Owners : \E t \in work[o] : t.do = "file" /\ t.name = row[i].name
    BY <1>1, <2>1, <2>3, ArchiveGoes DEF HistoryNext
  <2>5. row[i].at + Retention < now
    BY <1>1, <2>2, <2>4 DEF BackupsInv, WorkForm
  <2> QED  BY <2>1, <2>3, <2>5
<1>2. ASSUME BackupsInv, UNCHANGED historyVars PROVE Kept
  BY <1>2 DEF historyVars, vars
<1>3. BackupsInv /\ [HistoryNext]_historyVars => [Kept]_historyVars
  BY <1>1, <1>2
<1> QED  BY <1>3, BackupsAlways, PTL DEF HistorySpec, KeptUntilExpired

\* A plan that says that the backup can be restored names an archive restore.sh
\* takes and that is the backup's own (PlanHonest).
THEOREM PlansHonest == HistorySpec => PlanHonest
<1> DEFINE Honest == \A j \in Calls : Answers(j, TRUE) =>
      /\ Accepted(job[j].name, {"--yes-restore"})
      /\ archive[job[j].name].of = job[j].id
<1>1. ASSUME BackupsInv PROVE Honest
  <2>1. SUFFICES ASSUME NEW j \in Calls, Answers(j, TRUE)
                 PROVE  /\ Accepted(job[j].name, {"--yes-restore"})
                        /\ archive[job[j].name].of = job[j].id
    OBVIOUS
  <2> DEFINE n == job[j].name
  <2>2. job[j].pc = "hash" /\ archive[n] # NoFile /\ Parts \subseteq job[j].seen
        /\ ChecksumOf(archive[n]) = job[j].sum
    BY <2>1 DEF Answers, Hash, At, Preflight
  <2>3. JobForm(job[j], made) /\ PlanSeen(job[j], archive)
    BY <1>1, Numbers DEF BackupsInv, JobsForm, PlansForm
  <2>4. Parts \subseteq archive[n].parts
    BY <2>2, <2>3 DEF PlanSeen
  <2>5. archive[n].of = job[j].id
    BY <2>2, <2>3 DEF JobForm, ChecksumOf
  <2> QED  BY <2>2, <2>4, <2>5 DEF Accepted
<1>2. BackupsInv /\ [HistoryNext]_historyVars => [Honest]_historyVars
  BY <1>1
<1> QED  BY <1>2, BackupsAlways, PTL DEF HistorySpec, PlanHonest

-------------------------------------------------------------------------------
(* What a step does to a task, a row, an archive, an item and the script.  *)

\* The steps at which a task makes or removes an archive.
Acting == Building \cup {"failed", "erase", "delete"}

\* A task stands, leaves off, or goes on with the row and archive it has.
TaskMoves(j) ==
    \/ job'[j] = job[j]
    \/ job'[j].pc \notin Acting
    \/ /\ Insert(j) /\ made' = made + 1
       /\ job'[j].pc = "dump" /\ job'[j].id = made' /\ job'[j].name = [by |-> "api", at |-> now]
    \/ /\ job'[j].id = job[j].id /\ job'[j].name = job[j].name
       /\ \/ job[j].pc = "dump" /\ job'[j].pc = "tar" /\ Dump(j)
          \/ job[j].pc = "tar" /\ job'[j].pc = "ready" /\ Tar(j)
          \/ job[j].pc \in Building /\ job'[j].pc = "failed"
          \/ job[j].pc = "erase" /\ job'[j].pc = "delete" /\ Erase(j)
    \/ /\ Remove(j) /\ job'[j].pc = "erase" /\ job'[j].id \in Ids
       /\ Stored(job'[j].id) /\ row[job'[j].id].status # "CREATING"
       /\ job'[j].name = row[job'[j].id].name

KindMoves(j) == job'[j].pc \notin Planning \cup {"idle"} =>
    job'[j].kind # "plan" \/ (job[j].pc \notin Planning \cup {"idle"} /\ job'[j].kind = job[j].kind)

LEMMA TasksMove ==
    ASSUME BackupsInv, Next, NEW j \in Jobs
    PROVE  TaskMoves(j) /\ KindMoves(j)
<1>0. /\ job \in [Jobs -> Job] /\ job[j] \in Job /\ JobForm(job[j], made) /\ Calls \subseteq Jobs
      /\ IdleJob.pc = "idle" /\ "idle" \notin Acting
  BY Numbers DEF BackupsInv, TypeOK, JobsForm, Acting, Building
<1> DEFINE Goal == TaskMoves(j) /\ KindMoves(j)
<1>1. ASSUME job'[j] = job[j] PROVE Goal
  BY <1>1 DEF TaskMoves, KindMoves
<1>2. ASSUME NEW k \in Jobs, End(k) PROVE Goal
  <2>1. job'[j] = job[j] \/ job'[j] = IdleJob
    BY <1>0, <1>2 DEF End
  <2> QED  BY <1>0, <1>1, <2>1 DEF TaskMoves, KindMoves
<1>3. ASSUME Restarted PROVE Goal
  BY <1>0, <1>3 DEF Restarted, TaskMoves, KindMoves
\* The task goes to a step that is not one of those.
<1>4. ASSUME NEW k \in Jobs, NEW pc \in {"prune", "sweep", "insert"}, Go(k, pc),
             job[k].pc \notin Planning \cup {"idle"}
      PROVE  Goal
  <2>1. CASE k = j
    <3>1. job'[j].pc = pc /\ job'[j].kind = job[j].kind
      BY <1>0, <1>4, <2>1 DEF Go, Job
    <3> QED  BY <1>4, <2>1, <3>1 DEF TaskMoves, KindMoves, Acting, Building
  <2>2. CASE k # j
    BY <1>0, <1>1, <1>4, <2>2 DEF Go
  <2> QED  BY <2>1, <2>2
\* ... or goes on.
<1>5. ASSUME NEW k \in Jobs, NEW pc, Go(k, pc),
             \/ job[k].pc = "dump" /\ pc = "tar" /\ Dump(k)
             \/ job[k].pc \in Building /\ pc = "failed"
             \/ job[k].pc = "erase" /\ pc = "delete" /\ Erase(k)
      PROVE  Goal
  <2>1. CASE k = j
    <3>1. job'[j].pc = pc /\ job'[j].kind = job[j].kind /\ job'[j].id = job[j].id /\ job'[j].name = job[j].name
      BY <1>0, <1>5, <2>1 DEF Go, Job
    <3> QED  BY <1>5, <2>1, <3>1 DEF TaskMoves, KindMoves, Planning, Building
  <2>2. CASE k # j
    BY <1>0, <1>1, <1>5, <2>2 DEF Go
  <2> QED  BY <2>1, <2>2
<1>6. ASSUME NEW k \in Jobs, JobStep(k) PROVE Goal
  <2>1. CASE Prune(k)
    BY <1>2, <1>4, <2>1 DEF Prune, PruneRead, SweepRead, Swept, AfterPrune, At, Planning
  <2>2. CASE Insert(k)
    <3>0. job' = [job EXCEPT ![k].pc = "dump", ![k].id = made', ![k].name = [by |-> "api", at |-> now]]
          /\ made' = made + 1 /\ job[k].pc = "insert"
      BY <2>2 DEF Insert, At
    <3>1. CASE k = j
      <4>1. /\ job'[j].pc = "dump" /\ job'[j].kind = job[j].kind /\ job'[j].id = made'
            /\ job'[j].name = [by |-> "api", at |-> now]
        BY <1>0, <3>0, <3>1 DEF Job
      <4> QED  BY <2>2, <3>0, <3>1, <4>1 DEF TaskMoves, KindMoves, Planning
    <3>2. CASE k # j
      BY <1>0, <1>1, <3>0, <3>2
    <3> QED  BY <3>1, <3>2
  <2>3. CASE Dump(k) \/ Ready(k) \/ Failed(k) \/ Erase(k) \/ Delete(k) \/ Hash(k)
    BY <1>2, <1>5, <2>3 DEF Dump, Ready, Failed, Erase, Delete, Hash, At, Building, Broken
  <2>4. CASE Tar(k)
    <3>1. CASE Broken(k)
      BY <1>5, <2>4, <3>1 DEF Broken, Tar, At, Building
    <3>2. CASE ~Broken(k)
      <4> DEFINE file == [of |-> job[k].id, parts |-> dir[job[k].id].parts \cup {"manifest.json"},
                          table |-> dir[job[k].id].table]
      <4>1. job[k].pc = "tar" /\ job' = [job EXCEPT ![k].pc = "ready", ![k].sum = ChecksumOf(file)]
        BY <2>4, <3>2 DEF Tar, At
      <4> HIDE DEF file
      <4>2. CASE k = j
        <5>1. /\ job'[j].pc = "ready" /\ job'[j].kind = job[j].kind /\ job'[j].id = job[j].id
              /\ job'[j].name = job[j].name
          BY <1>0, <4>1, <4>2 DEF Job
        <5> QED  BY <2>4, <4>1, <4>2, <5>1 DEF TaskMoves, KindMoves, Planning
      <4>3. CASE k # j
        BY <1>0, <1>1, <4>1, <4>3
      <4> QED  BY <4>2, <4>3
    <3> QED  BY <3>1, <3>2
  <2>5. CASE ListEntries(k) \/ ReadManifest(k)
    <3>1. job'[j] = job[j] \/ job'[j] = IdleJob \/ job'[j].pc \in {"manifest", "hash"}
      BY <1>0, <2>5 DEF ListEntries, ReadManifest, End, Job
    <3> QED  BY <1>0, <1>1, <3>1 DEF TaskMoves, KindMoves, Planning, Acting, Building
  <2> QED  BY <1>6, <2>1, <2>2, <2>3, <2>4, <2>5 DEF JobStep, Build, PlanStep
<1>7. ASSUME NEW k \in Jobs, NEW kind \in {"automatic", "list", "manual"},
             job' = [job EXCEPT ![k].kind = kind, ![k].pc = "stale"] PROVE Goal
  <2>1. job'[j] = job[j] \/ (job'[j].pc = "stale" /\ job'[j].kind = kind)
    BY <1>0, <1>7 DEF Job
  <2> QED  BY <1>1, <2>1 DEF TaskMoves, KindMoves, Acting, Building
<1>8. CASE Maintain \/ \E k \in Calls : Request(k, "manual") \/ Request(k, "list")
  <2>1. CASE Maintain
    <3>1. PICK kind \in {"automatic", "list"} : job' = [job EXCEPT ![Timer].kind = kind, ![Timer].pc = "stale"]
      BY <2>1 DEF Maintain
    <3> QED  BY <1>7, <3>1, Numbers
  <2>2. ASSUME NEW k \in Calls, NEW kind \in {"manual", "list"}, Request(k, kind) PROVE Goal
    BY <1>0, <1>7, <2>2 DEF Request
  <2> QED  BY <1>8, <2>1, <2>2
<1>9. ASSUME NEW k \in Calls, Remove(k) PROVE Goal
  <2>1. PICK i \in Ids : /\ Stored(i) /\ row[i].status # "CREATING"
                         /\ job' = [job EXCEPT ![k] = [IdleJob EXCEPT
                              !.kind = "remove", !.pc = "erase", !.id = i, !.name = row[i].name]]
    BY <1>9 DEF Remove
  <2>2. CASE k = j
    <3>1. job'[j].pc = "erase" /\ job'[j].kind = "remove" /\ job'[j].id = i /\ job'[j].name = row[i].name
      BY <1>0, <2>1, <2>2 DEF IdleJob
    <3> QED  BY <1>9, <2>1, <2>2, <3>1 DEF TaskMoves, KindMoves
  <2>3. CASE k # j
    BY <1>0, <1>1, <2>1, <2>3
  <2> QED  BY <2>2, <2>3
<1>10. ASSUME NEW k \in Calls, Plan(k) PROVE Goal
  <2>1. PICK i \in Ids : job' = [job EXCEPT ![k] = [IdleJob EXCEPT !.kind = "plan", !.pc = "entries",
                              !.id = i, !.name = row[i].name, !.sum = row[i].sum]]
    BY <1>10 DEF Plan
  <2>2. job'[j] = job[j] \/ job'[j].pc = "entries"
    BY <1>0, <2>1 DEF IdleJob
  <2> QED  BY <1>1, <2>2 DEF TaskMoves, KindMoves, Acting, Building, Planning
<1>11. ASSUME NEW o \in Owners, NEW t \in work[o], GiveUp(o, t) PROVE Goal
  BY <1>1, <1>2, <1>11 DEF GiveUp, Owners
<1>12. ASSUME NEW o \in Owners, Pruning(o) \/ RemovalFails(o) PROVE Goal
  BY <1>1, <1>11, <1>12 DEF Pruning, RemovalFails, RemoveFile, MarkPruned, RemoveContents, RemoveDirectory
<1>13. ASSUME NEW k \in Jobs, StepFails(k) \/ AuditFails(k) PROVE Goal
  BY <1>2, <1>5, <1>13 DEF StepFails, AuditFails, Broken, At, Building
<1> QED
  BY <1>1, <1>3, <1>6, <1>8, <1>9, <1>10, <1>12, <1>13 DEF Next, Tick, RestoreBegin, Restore,
     RestoreTable, RestoreMark, RestoreRestart, ApiRestart, ScriptFails

\* Which actions write which variable.
LEMMA RowWriters ==
    ASSUME Next
    PROVE  \/ row' = row \/ RestoreTable \/ RestoreMark
           \/ \E j \in Jobs : Insert(j) \/ Ready(j) \/ AuditFails(j) \/ Failed(j) \/ Delete(j)
           \/ \E o \in Owners : MarkPruned(o)
<1>1. ASSUME NEW j \in Jobs, JobStep(j)
      PROVE  row' = row \/ Insert(j) \/ Ready(j) \/ Failed(j) \/ Delete(j)
  BY <1>1 DEF JobStep, Build, Prune, PlanStep, PruneRead, SweepRead, Swept, Dump, Tar, Erase,
     ListEntries, ReadManifest, Hash
<1>2. ASSUME NEW o \in Owners, Pruning(o) PROVE row' = row \/ MarkPruned(o)
  BY <1>2 DEF Pruning, RemoveFile, RemoveContents, RemoveDirectory
<1> QED
  BY <1>1, <1>2 DEF Next, Tick, Maintain, Request, Remove, Plan, RestoreBegin, Restore,
     RestoreRestart, ApiRestart, ScriptFails, StepFails, RemovalFails

LEMMA ArchiveWriters ==
    ASSUME Next
    PROVE  \/ archive' = archive
           \/ \E j \in Jobs : Tar(j) \/ Erase(j) \/ StepFails(j)
           \/ \E o \in Owners : RemoveFile(o)
           \/ \E n \in Names, options \in Options : RestoreBegin(n, options)
<1>1. ASSUME NEW j \in Jobs, JobStep(j) PROVE archive' = archive \/ Tar(j) \/ Erase(j)
  BY <1>1 DEF JobStep, Build, Prune, PlanStep, PruneRead, SweepRead, Swept, Insert, Dump,
     Ready, Failed, Delete, ListEntries, ReadManifest, Hash
<1>2. ASSUME NEW o \in Owners, Pruning(o) PROVE archive' = archive \/ RemoveFile(o)
  BY <1>2 DEF Pruning, MarkPruned, RemoveContents, RemoveDirectory
<1> QED
  BY <1>1, <1>2 DEF Next, Tick, Maintain, Request, Remove, Plan, Restore, RestoreTable, RestoreMark,
     RestoreRestart, ApiRestart, ScriptFails, AuditFails, RemovalFails

LEMMA ScriptWriters ==
    ASSUME Next
    PROVE  \/ script' = script \/ Restore \/ ScriptFails
           \/ \E n \in Names, options \in Options : RestoreBegin(n, options)
<1>1. ASSUME NEW j \in Jobs, JobStep(j) PROVE script' = script
  BY <1>1 DEF JobStep, Build, Prune, PlanStep, PruneRead, SweepRead, Swept, Insert, Dump, Tar,
     Ready, Failed, Erase, Delete, ListEntries, ReadManifest, Hash
<1>2. ASSUME NEW o \in Owners, Pruning(o) PROVE script' = script
  BY <1>2 DEF Pruning, RemoveFile, MarkPruned, RemoveContents, RemoveDirectory
<1> QED
  BY <1>1, <1>2 DEF Next, Tick, Maintain, Request, Remove, Plan, ApiRestart, StepFails, AuditFails, RemovalFails

\* The archive of a row that is built is recorded.
Records(j, i) ==
    /\ Ready(j) \/ AuditFails(j)
    /\ job[j].pc = "ready" /\ job[j].id = i /\ Stored(i) /\ job'[j].pc \in {"idle", "failed"}
    /\ row'[i] # NoRow /\ row'[i].status = "READY" /\ row'[i].name = job[j].name /\ row'[i].sum = job[j].sum

Restates(i, status) ==
    /\ Stored(i)
    /\ row'[i] # NoRow /\ row'[i].status = status /\ row'[i].name = row[i].name

\* A row stands, or is inserted, recorded, given up, pruned, removed or marked.
RowMoves(i) ==
    \/ row'[i] = row[i]
    \/ /\ i = made' /\ i = made + 1 /\ \E j \in Jobs : Insert(j)
       /\ row'[i] # NoRow /\ row'[i].status = "CREATING" /\ row'[i].name = Placeholder
    \/ \E j \in Jobs : Records(j, i)
    \/ \E j \in Jobs : Failed(j) /\ job[j].pc = "failed" /\ job[j].id = i /\ Restates(i, "FAILED")
    \/ Restates(i, "PRUNED") /\ \E o \in Owners : \E t \in work[o] : t.do = "row" /\ t.id = i
    \/ \E j \in Jobs : Delete(j) /\ job[j].pc = "delete" /\ job[j].id = i /\ row'[i] = NoRow
    \/ RestoreMark /\ i = script.from.of /\ Restates(i, "RESTORED")
    \/ /\ RestoreMark /\ i = script.id /\ row'[i] # NoRow
       /\ row'[i].status = "READY" /\ row'[i].name = script.name /\ row'[i].sum = [of |-> i, parts |-> Parts]

LEMMA RowsMove ==
    ASSUME BackupsInv, Next, ~RestoreTable, NEW i \in Ids
    PROVE  RowMoves(i)
<1>0. /\ row \in [Ids -> Row \cup {NoRow}] /\ NoRow \notin Row /\ job \in [Jobs -> Job] /\ made \in Nat
      /\ now \in 0 .. MaxTime /\ \A j \in Jobs : JobForm(job[j], made)
  BY Numbers, Files DEF BackupsInv, TypeOK, Table, JobsForm
<1>1. CASE row' = row
  BY <1>1 DEF RowMoves
<1>2. ASSUME NEW j \in Jobs, Insert(j) PROVE RowMoves(i)
  <2>1. NewRow("CREATING", Placeholder, Placeholder) \in Row
    BY <1>0 DEF NewRow, Row
  <2>2. row' = [row EXCEPT ![made'] = NewRow("CREATING", Placeholder, Placeholder)] /\ made' = made + 1
    BY <1>2 DEF Insert
  <2>3. CASE i = made'
    <3>1. row'[i] = NewRow("CREATING", Placeholder, Placeholder)
      BY <1>0, <2>2, <2>3
    <3> QED  BY <1>0, <1>2, <2>1, <2>2, <2>3, <3>1 DEF RowMoves, NewRow
  <2>4. CASE i # made'
    BY <1>0, <2>2, <2>4 DEF RowMoves
  <2> QED  BY <2>3, <2>4
<1>3. ASSUME NEW j \in Jobs, Ready(j) \/ AuditFails(j) PROVE RowMoves(i)
  <2>1. CASE ~Stored(job[j].id) \/ job[j].id # i
    BY <1>0, <1>1, <1>3, <2>1 DEF Ready, AuditFails, MadeReady, RowMoves
  <2>2. CASE Stored(job[j].id) /\ job[j].id = i
    <3>1. MadeReady(j) /\ job[j].pc = "ready" /\ (End(j) \/ Go(j, "failed"))
      BY <1>3, <2>2 DEF Ready, AuditFails, At
    <3>2. job'[j].pc \in {"idle", "failed"}
      BY <1>0, <3>1 DEF End, Go, IdleJob, Job
    <3>3. /\ job[j].name \in Names /\ job[j].sum \in Checksum /\ row[i] \in Row
      BY <1>0, <2>2, <3>1 DEF JobForm, Building, Stored
    <3> DEFINE r == [row[i] EXCEPT !.status = "READY", !.name = job[j].name, !.sum = job[j].sum]
    <3>4. r \in Row /\ r.status = "READY" /\ r.name = job[j].name /\ r.sum = job[j].sum
      BY <3>3 DEF Row
    <3>5. row'[i] = r
      BY <1>0, <2>2, <3>1 DEF MadeReady
    <3> HIDE DEF r
    <3>6. Records(j, i)
      BY <1>0, <1>3, <2>2, <3>1, <3>2, <3>4, <3>5 DEF Records
    <3> QED  BY <3>6 DEF RowMoves
  <2> QED  BY <2>1, <2>2
<1>4. ASSUME NEW status \in {"PRUNED", "FAILED", "RESTORED"}, row[i] # NoRow,
             row'[i] = [row[i] EXCEPT !.status = status]
      PROVE  Restates(i, status)
  <2>1. row[i] \in Row /\ row'[i] \in Row /\ row'[i].status = status /\ row'[i].name = row[i].name
    BY <1>0, <1>4 DEF Row
  <2> QED  BY <1>0, <2>1 DEF Restates, Stored
<1>5. ASSUME NEW j \in Jobs, Failed(j) PROVE RowMoves(i)
  <2>1. /\ job[j].pc = "failed"
        /\ row' = [row EXCEPT ![job[j].id] = IF @ = NoRow THEN NoRow ELSE [@ EXCEPT !.status = "FAILED"]]
    BY <1>5 DEF Failed, At
  <2>2. CASE job[j].id # i \/ row[i] = NoRow
    BY <1>0, <2>1, <2>2 DEF RowMoves
  <2>3. CASE job[j].id = i /\ row[i] # NoRow
    <3>1. row'[i] = [row[i] EXCEPT !.status = "FAILED"]
      BY <1>0, <2>1, <2>3
    <3> QED  BY <1>4, <1>5, <2>1, <2>3, <3>1 DEF RowMoves
  <2> QED  BY <2>2, <2>3
<1>6. ASSUME NEW j \in Jobs, Delete(j) PROVE RowMoves(i)
  <2>1. job[j].pc = "delete" /\ row' = [row EXCEPT ![job[j].id] = NoRow]
    BY <1>6 DEF Delete, At
  <2> QED  BY <1>0, <1>6, <2>1 DEF RowMoves
<1>7. ASSUME NEW o \in Owners, MarkPruned(o) PROVE RowMoves(i)
  <2>1. PICK t \in work[o] : /\ t.do = "row"
                             /\ IF Stored(t.id) THEN row' = [row EXCEPT ![t.id].status = "PRUNED"]
                                ELSE UNCHANGED row
    BY <1>7 DEF MarkPruned
  <2>2. CASE ~Stored(t.id) \/ t.id # i
    BY <1>0, <1>1, <2>1, <2>2 DEF RowMoves
  <2>3. CASE Stored(t.id) /\ t.id = i
    <3>1. row'[i] = [row[i] EXCEPT !.status = "PRUNED"]
      BY <1>0, <2>1, <2>3
    <3> QED  BY <1>4, <2>1, <2>3, <3>1 DEF RowMoves, Stored
  <2> QED  BY <2>2, <2>3
<1>8. CASE RestoreMark
  <2>1. row'[i] = IF i = script.id THEN NewRow("READY", script.name, [of |-> i, parts |-> Parts])
                  ELSE IF i = script.from.of /\ Stored(i) THEN [row[i] EXCEPT !.status = "RESTORED"]
                  ELSE row[i]
    BY <1>8 DEF RestoreMark
  <2>2. CASE i = script.id
    <3> DEFINE sum == [of |-> i, parts |-> Parts]
    <3>1. script.name \in Names /\ sum \in Checksum
      BY <2>2, Numbers DEF BackupsInv, ScriptForm, Checksum
    <3> HIDE DEF sum
    <3>2. NewRow("READY", script.name, sum) \in Row
      BY <1>0, <3>1 DEF NewRow, Row
    <3>3. row'[i] = NewRow("READY", script.name, sum)
      BY <2>1, <2>2 DEF sum
    <3>4. row'[i] # NoRow /\ row'[i].status = "READY" /\ row'[i].name = script.name /\ row'[i].sum = sum
      BY <1>0, <3>2, <3>3 DEF NewRow
    <3> QED  BY <1>8, <2>2, <3>4 DEF RowMoves, sum
  <2>3. CASE i # script.id
    <3>1. CASE i = script.from.of /\ Stored(i)
      BY <1>4, <1>8, <2>1, <2>3, <3>1 DEF RowMoves, Stored
    <3>2. CASE ~(i = script.from.of /\ Stored(i))
      BY <2>1, <2>3, <3>2 DEF RowMoves
    <3> QED  BY <3>1, <3>2
  <2> QED  BY <2>2, <2>3
<1> QED  BY <1>1, <1>2, <1>3, <1>5, <1>6, <1>7, <1>8, RowWriters

\* The archive of n goes, and the row is to follow; or it is written.
Erases(n) ==
    \/ \E j \in Jobs : Erase(j) /\ job[j].pc = "erase" /\ job[j].name = n
    \/ \E o \in Owners : \E t \in work[o] :
          t.do = "file" /\ t.name = n /\ \E u \in work'[o] : u.do = "row" /\ u.id = t.id

Packs(j, n) ==
    /\ Tar(j) /\ job[j].pc = "tar" /\ job[j].name = n /\ dir[job[j].id] # NoDir
    /\ archive'[n] \in Content /\ archive'[n].of = job[j].id
    /\ archive'[n].parts = dir[job[j].id].parts \cup {"manifest.json"}
    /\ archive'[n].table = dir[job[j].id].table
    /\ job'[j].pc = "ready" /\ job'[j].sum = ChecksumOf(archive'[n])

Guards(n) ==
    /\ archive[n] = NoFile /\ script.pc = "idle" /\ made' = made + 1
    /\ script'.pc = "table" /\ script'.id = made' /\ script'.name = n
    /\ archive'[n] \in Content /\ archive'[n].of = made' /\ archive'[n].parts = Parts
    /\ archive'[n].table = row
    /\ UNCHANGED <<row, job, work, dir, now>>

ArchiveMoves(n) ==
    \/ archive'[n] = archive[n]
    \/ archive'[n] = NoFile /\ Erases(n)
    \/ \E j \in Jobs : Packs(j, n)
    \/ \E j \in Jobs : /\ StepFails(j) /\ job[j].pc = "tar" /\ job[j].name = n /\ job'[j].pc = "failed"
                       /\ archive'[n] = Partial(job[j].id)
    \/ Guards(n)

LEMMA ArchivesMove ==
    ASSUME BackupsInv, Next, NEW n \in Names
    PROVE  ArchiveMoves(n)
<1>0. /\ archive \in [Names -> Content \cup {NoFile}] /\ row \in Table /\ job \in [Jobs -> Job] /\ made \in 0 .. MaxRows
      /\ now \in 0 .. MaxTime /\ \A j \in Jobs : JobForm(job[j], made)
      /\ dir \in [Ids -> Staged \cup {NoDir}] /\ work \in [Owners -> SUBSET Item]
  BY DEF BackupsInv, TypeOK, JobsForm
<1>1. CASE archive' = archive
  BY <1>1 DEF ArchiveMoves
<1>2. ASSUME NEW j \in Jobs, Tar(j), archive'[n] # archive[n] PROVE ArchiveMoves(n)
  <2> DEFINE i == job[j].id
             file == [of |-> i, parts |-> dir[i].parts \cup {"manifest.json"}, table |-> dir[i].table]
  <2>0. job[j].pc = "tar" /\ archive' # archive
    BY <1>2 DEF Tar, At
  <2>1. i \in Ids /\ dir[i] # NoDir /\ archive' = [archive EXCEPT ![job[j].name] = file]
        /\ job' = [job EXCEPT ![j].pc = "ready", ![j].sum = ChecksumOf(file)]
    <3>1. i \in Ids
      BY <1>0, <2>0, Numbers DEF JobForm, Building, Ids
    <3>2. dir[i] # NoDir
      BY <1>2, <2>0 DEF Tar
    <3> QED  BY <1>2, <3>1, <3>2 DEF Tar
  <2>2. dir[i] \in Staged
    BY <1>0, <2>1
  <2>3. file \in Content /\ file.of = i /\ file.parts = dir[i].parts \cup {"manifest.json"} /\ file.table = dir[i].table
    BY <2>1, <2>2, Files DEF Content, Parts
  <2> HIDE DEF file
  <2>4. job[j].name = n /\ archive'[n] = file
    BY <1>0, <1>2, <2>1
  <2>5. job'[j].pc = "ready" /\ job'[j].sum = ChecksumOf(file)
    BY <1>0, <2>1 DEF Job
  <2>6. Packs(j, n)
    BY <1>2, <2>0, <2>1, <2>3, <2>4, <2>5 DEF Packs
  <2> QED  BY <2>6 DEF ArchiveMoves
<1>3. ASSUME NEW j \in Jobs, Erase(j) PROVE ArchiveMoves(n)
  <2>1. archive' = Erased(job[j].name) /\ job[j].pc = "erase"
    BY <1>3 DEF Erase, At
  <2>2. archive'[n] = archive[n] \/ (archive'[n] = NoFile /\ job[j].name = n)
    BY <2>1 DEF Erased
  <2> QED  BY <1>3, <2>1, <2>2 DEF ArchiveMoves, Erases
<1>4. ASSUME NEW j \in Jobs, StepFails(j), archive' # archive PROVE ArchiveMoves(n)
  <2>1. /\ job[j].pc = "tar" /\ archive' = [archive EXCEPT ![job[j].name] = Partial(job[j].id)]
        /\ Go(j, "failed")
    BY <1>4 DEF StepFails, At, Broken, Building
  <2>2. job'[j].pc = "failed"
    BY <1>0, <2>1 DEF Go, Job
  <2> QED  BY <1>0, <1>4, <2>1, <2>2 DEF ArchiveMoves
<1>5. ASSUME NEW o \in Owners, RemoveFile(o) PROVE ArchiveMoves(n)
  <2>1. PICK t \in work[o] : t.do = "file" /\ archive' = Erased(t.name)
                             /\ work' = [work EXCEPT ![o] = (@ \ {t}) \cup {[t EXCEPT !.do = "row"]}]
    BY <1>5 DEF RemoveFile, Then
  <2>2. archive'[n] = archive[n] \/ (archive'[n] = NoFile /\ t.name = n)
    BY <2>1 DEF Erased
  <2>3. t \in Item /\ [t EXCEPT !.do = "row"] \in work'[o]
    BY <1>0, <2>1
  <2>4. [t EXCEPT !.do = "row"].do = "row" /\ [t EXCEPT !.do = "row"].id = t.id
    BY <2>3 DEF Item
  <2> QED  BY <2>1, <2>2, <2>3, <2>4 DEF ArchiveMoves, Erases
<1>6. ASSUME NEW m \in Names, NEW options \in Options, RestoreBegin(m, options), archive'[n] # archive[n]
      PROVE  ArchiveMoves(n)
  <2> DEFINE name == [by |-> "restore.sh", at |-> now]
             file == [of |-> made', parts |-> Parts, table |-> row]
  <2>1. /\ made' = made + 1 /\ made < MaxRows /\ archive[name] = NoFile /\ archive' = [archive EXCEPT ![name] = file]
        /\ script' = [pc |-> "table", from |-> archive[m], name |-> name, id |-> made'] /\ script.pc = "idle"
        /\ UNCHANGED <<row, job, work, dir, now>>
    BY <1>6 DEF RestoreBegin
  <2>2. made' \in Ids
    BY <1>0, <2>1, Numbers DEF Ids
  <2>3. file \in Content /\ file.of = made' /\ file.parts = Parts /\ file.table = row
    BY <1>0, <2>2 DEF Content
  <2> HIDE DEF file
  <2>4. name = n /\ archive'[n] = file
    BY <1>0, <1>6, <2>1
  <2>5. Guards(n)
    BY <2>1, <2>3, <2>4 DEF Guards
  <2> QED  BY <2>5 DEF ArchiveMoves
<1> QED  BY <1>1, <1>2, <1>3, <1>4, <1>5, <1>6, ArchiveWriters DEF ArchiveMoves

\* The script goes on, fails or is begun.
ScriptMoves ==
    \/ script' = script
    \/ /\ script'.id = script.id /\ script'.name = script.name /\ script'.from = script.from
       /\ \/ RestoreTable /\ script.pc = "table" /\ script'.pc = "mark"
          \/ RestoreMark /\ script.id = None /\ script'.pc = "restart"
    \/ script' = IdleScript /\ ((RestoreMark /\ script.id # None) \/ (RestoreRestart /\ script.pc = "restart") \/ ScriptFails)
    \/ \E n \in Names :
          /\ script.pc = "idle" /\ archive[n] # NoFile
          /\ script'.pc = "table" /\ script'.from = archive[n] /\ UNCHANGED <<row, job, work>>
          /\ \/ script'.id = None /\ script'.name = None
             \/ script'.name \in Names /\ script'.id = made' /\ Guards(script'.name)

LEMMA ScriptMove ==
    ASSUME BackupsInv, Next
    PROVE  ScriptMoves
<1>0. script \in Script /\ now \in 0 .. MaxTime /\ made \in 0 .. MaxRows /\ row \in Table
      /\ archive \in [Names -> Content \cup {NoFile}]
  BY DEF BackupsInv, TypeOK
<1>1. CASE Restore
  <2>1. ASSUME NEW pc, script' = [script EXCEPT !.pc = pc]
        PROVE  script'.pc = pc /\ script'.id = script.id /\ script'.name = script.name /\ script'.from = script.from
    BY <1>0, <2>1 DEF Script
  <2> QED  BY <1>1, <2>1 DEF Restore, RestoreTable, RestoreMark, RestoreRestart, ScriptMoves
<1>2. CASE ScriptFails
  BY <1>2 DEF ScriptFails, ScriptMoves
<1>3. ASSUME NEW n \in Names, NEW options \in Options, RestoreBegin(n, options) PROVE ScriptMoves
  <2> DEFINE name == [by |-> "restore.sh", at |-> now]
             file == [of |-> made', parts |-> Parts, table |-> row]
  <2>1. script.pc = "idle" /\ archive[n] # NoFile /\ UNCHANGED <<row, job, work, dir, now>> /\ made < MaxRows
    BY <1>3 DEF RestoreBegin, Accepted
  <2>2. CASE script' = [IdleScript EXCEPT !.pc = "table", !.from = archive[n]]
    BY <2>1, <2>2 DEF IdleScript, ScriptMoves
  <2>3. CASE /\ archive[name] = NoFile /\ made' = made + 1
             /\ script' = [pc |-> "table", from |-> archive[n], name |-> name, id |-> made']
             /\ archive' = [archive EXCEPT ![name] = file]
    <3>1. made' \in Ids /\ name \in Names
      BY <1>0, <2>1, <2>3, Numbers DEF Ids, Names
    <3>2. file \in Content /\ file.of = made' /\ file.parts = Parts /\ file.table = row
      BY <1>0, <3>1 DEF Content
    <3> HIDE DEF file
    <3>3. archive'[name] = file
      BY <1>0, <2>3, <3>1
    <3>4. script'.pc = "table" /\ script'.id = made' /\ script'.name = name /\ script'.from = archive[n]
      BY <2>3
    <3>5. Guards(name)
      BY <2>1, <2>3, <3>2, <3>3, <3>4 DEF Guards
    <3> QED  BY <2>1, <3>1, <3>4, <3>5 DEF ScriptMoves
  <2> QED  BY <1>3, <2>2, <2>3 DEF RestoreBegin
<1> QED  BY <1>1, <1>2, <1>3, ScriptWriters DEF ScriptMoves

\* A work directory is made, filled, emptied or removed.
DirMoves(i) ==
    \/ dir'[i] = dir[i] \/ dir'[i] = NoDir
    \/ i > made /\ dir'[i] = Emptied
    \/ dir[i] # NoDir /\ dir'[i] = Emptied /\ \E o \in Owners : RemoveContents(o)
    \/ \E j \in Jobs : /\ Dump(j) /\ job[j].pc = "dump" /\ job[j].id = i
                       /\ dir'[i] = [parts |-> {"postgres.sql"}, table |-> row]

LEMMA DirsMove ==
    ASSUME BackupsInv, Next, NEW i \in Ids
    PROVE  DirMoves(i)
<1>0. dir \in [Ids -> Staged \cup {NoDir}] /\ made \in Nat
  BY Numbers DEF BackupsInv, TypeOK
<1>1. CASE dir' = dir
  BY <1>1 DEF DirMoves
<1>2. ASSUME NEW j \in Jobs, Broken(j) PROVE DirMoves(i)
  BY <1>0, <1>2 DEF Broken, DirMoves
<1>3. ASSUME NEW j \in Jobs, JobStep(j) PROVE DirMoves(i)
  <2>1. CASE Insert(j)
    BY <1>0, <2>1 DEF Insert, DirMoves
  <2>2. CASE Dump(j)
    <3>1. CASE ~Broken(j)
      <4>1. job[j].pc = "dump" /\ dir' = [dir EXCEPT ![job[j].id] = [parts |-> {"postgres.sql"}, table |-> row]]
        BY <2>2, <3>1 DEF Dump, At
      <4>2. dir'[i] = dir[i] \/ (job[j].id = i /\ dir'[i] = [parts |-> {"postgres.sql"}, table |-> row])
        BY <1>0, <4>1
      <4> QED  BY <2>2, <4>1, <4>2 DEF DirMoves
    <3> QED  BY <1>2, <3>1
  <2>3. CASE Tar(j)
    <3>1. dir' = [dir EXCEPT ![job[j].id] = NoDir]
      BY <2>3 DEF Tar, Broken
    <3> QED  BY <1>0, <3>1 DEF DirMoves
  <2> QED  BY <1>1, <1>3, <2>1, <2>2, <2>3 DEF JobStep, Build, Prune, PlanStep, PruneRead, SweepRead, Swept,
              Ready, Failed, Erase, Delete, ListEntries, ReadManifest, Hash
<1>4. ASSUME NEW o \in Owners, Pruning(o) PROVE DirMoves(i)
  <2>1. CASE RemoveContents(o)
    <3>1. PICK t \in work[o] : dir' = [dir EXCEPT ![t.id] = IF @ = NoDir THEN NoDir ELSE Emptied]
      BY <2>1 DEF RemoveContents
    <3>2. dir'[i] = dir[i] \/ dir'[i] = NoDir \/ (dir[i] # NoDir /\ dir'[i] = Emptied)
      BY <1>0, <3>1
    <3> QED  BY <2>1, <3>2 DEF DirMoves
  <2>2. CASE RemoveDirectory(o)
    <3>1. dir' = dir \/ \E t \in work[o] : dir' = [dir EXCEPT ![t.id] = NoDir]
      BY <2>2 DEF RemoveDirectory
    <3> QED  BY <1>0, <3>1 DEF DirMoves
  <2> QED  BY <1>1, <1>4, <2>1, <2>2 DEF Pruning, RemoveFile, MarkPruned
<1> QED
  BY <1>1, <1>2, <1>3, <1>4 DEF Next, Tick, Maintain, Request, Remove, Plan, RestoreBegin, Restore, RestoreTable,
     RestoreMark, RestoreRestart, ApiRestart, ScriptFails, StepFails, AuditFails, RemovalFails

\* What is still to be removed has been so before, or is of a row that has expired.
Underway(t) == t.do \in {"file", "row"} =>
    \/ \E o \in Owners : \E u \in work[o] : u.do \in {"file", "row"} /\ u.id = t.id
    \/ Stored(t.id) /\ row[t.id].status \in {"READY", "FAILED"} /\ UNCHANGED <<row, script>>

\* Only who prunes or sweeps has something to remove.
WorkOwned == \A j \in Jobs : work[j] # {} => job[j].pc \in {"prune", "sweep"}

WorkMoves == /\ \A o \in Owners : \A t \in work'[o] : Underway(t)
             /\ WorkOwned'

LEMMA WorksMove ==
    ASSUME BackupsInv, WorkOwned, Next
    PROVE  WorkMoves
<1>0. /\ work \in [Owners -> SUBSET Item] /\ job \in [Jobs -> Job] /\ Loose \in Owners /\ Loose \notin Jobs
      /\ Jobs \subseteq Owners /\ Calls \subseteq Jobs /\ Timer \in Jobs /\ IdleJob.pc = "idle"
  BY Numbers DEF BackupsInv, TypeOK
<1>1. ASSUME \A o \in Owners : work'[o] = work[o],
             \A j \in Jobs : job'[j] = job[j] \/ job[j].pc \notin {"prune", "sweep"} \/ work[j] = {}
      PROVE  WorkMoves
  BY <1>0, <1>1 DEF WorkMoves, Underway, WorkOwned
<1>2. ASSUME Restarted PROVE WorkMoves
  BY <1>0, <1>2 DEF Restarted, WorkMoves, WorkOwned
<1>3. ASSUME NEW o \in Owners, NEW t \in work[o], NEW next \in SUBSET Item, Then(o, t, next), job' = job,
             \A u \in next : u.id = t.id /\ (u.do = "directory" \/ (u.do = "row" /\ t.do = "file"))
      PROVE  WorkMoves
  <2>1. work' = [work EXCEPT ![o] = (work[o] \ {t}) \cup next]
    BY <1>3 DEF Then
  <2>2. \A p \in Owners : \A u \in work'[p] : Underway(u)
    BY <1>0, <1>3, <2>1 DEF Underway
  <2>3. \A j \in Jobs : work'[j] # {} => work[j] # {}
    BY <1>0, <2>1
  <2> QED  BY <1>3, <2>2, <2>3 DEF WorkMoves, WorkOwned
<1>4. ASSUME NEW o \in Owners, NEW t \in work[o], GiveUp(o, t) PROVE WorkMoves
  <2>1. CASE o = Loose
    BY <1>3, <1>4, <2>1 DEF GiveUp
  <2>2. CASE o # Loose
    <3>1. work' = [work EXCEPT ![o] = {}, ![Loose] = @ \cup (work[o] \ {t})] /\ End(o)
      BY <1>4, <2>2 DEF GiveUp
    <3>2. \A p \in Owners : \A u \in work'[p] : \E q \in Owners : u \in work[q]
      BY <1>0, <2>2, <3>1
    <3>3. \A j \in Jobs : work'[j] = {} \/ (work'[j] = work[j] /\ job'[j] = job[j])
      BY <1>0, <2>2, <3>1 DEF End, Owners
    <3>4. \A p \in Owners : \A u \in work'[p] : Underway(u)
      BY <3>2 DEF Underway
    <3>5. WorkOwned'
      BY <3>3 DEF WorkOwned
    <3> QED  BY <3>4, <3>5 DEF WorkMoves
  <2> QED  BY <2>1, <2>2
<1>5. ASSUME NEW o \in Owners, Pruning(o) PROVE WorkMoves
  <2>1. ASSUME NEW t \in work[o], NEW do \in {"row", "directory"}
        PROVE  {[t EXCEPT !.do = do]} \in SUBSET Item /\ \A u \in {[t EXCEPT !.do = do]} : u.do = do /\ u.id = t.id
    <3>1. t \in Item
      BY <1>0
    <3> QED  BY <3>1 DEF Item
  <2>2. CASE RemoveFile(o)
    <3>1. PICK t \in work[o] : t.do = "file" /\ Then(o, t, {[t EXCEPT !.do = "row"]}) /\ job' = job
      BY <2>2 DEF RemoveFile
    <3>2. PICK next \in SUBSET Item : Then(o, t, next) /\ \A u \in next : u.do = "row" /\ u.id = t.id
      BY <2>1, <3>1
    <3> QED  BY <1>3, <3>1, <3>2
  <2>3. CASE MarkPruned(o)
    BY <1>3, <1>4, <2>3 DEF MarkPruned
  <2>4. CASE RemoveContents(o)
    <3>1. PICK t \in work[o] : Then(o, t, {[t EXCEPT !.do = "directory"]}) /\ job' = job
      BY <2>4 DEF RemoveContents
    <3>2. PICK next \in SUBSET Item : Then(o, t, next) /\ \A u \in next : u.do = "directory" /\ u.id = t.id
      BY <2>1, <3>1
    <3> QED  BY <1>3, <3>1, <3>2
  <2>5. CASE RemoveDirectory(o)
    BY <1>3, <1>4, <2>5 DEF RemoveDirectory
  <2> QED  BY <1>5, <2>2, <2>3, <2>4, <2>5 DEF Pruning
<1>6. ASSUME NEW j \in Jobs, NEW items, work' = [work EXCEPT ![j] = items],
             items = {} \/ job'[j].pc \in {"prune", "sweep"},
             \A k \in Jobs \ {j} : job'[k] = job[k], \A t \in items : Underway(t)
      PROVE  WorkMoves
  <2>1. \A o \in Owners : work'[o] = work[o] \/ (o = j /\ work'[o] = items)
    BY <1>0, <1>6
  <2>2. \A o \in Owners : \A t \in work'[o] : Underway(t)
    BY <1>6, <2>1 DEF Underway
  <2>3. WorkOwned'
    BY <1>0, <1>6, <2>1 DEF WorkOwned
  <2> QED  BY <2>2, <2>3 DEF WorkMoves
<1>7. ASSUME NEW j \in Jobs, NEW pc, Go(j, pc) PROVE job'[j].pc = pc /\ \A k \in Jobs \ {j} : job'[k] = job[k]
  BY <1>0, <1>7 DEF Go, Job
<1>8. ASSUME NEW j \in Jobs, End(j) PROVE \A k \in Jobs \ {j} : job'[k] = job[k]
  BY <1>0, <1>8 DEF End
<1>9. ASSUME NEW j \in Jobs, PruneRead(j) PROVE WorkMoves
  <2> DEFINE items == {[id |-> i, name |-> row[i].name, do |-> "file"] : i \in {k \in Ids : Expired(k)}}
  <2>1. \A t \in items : Underway(t)
    BY <1>9 DEF PruneRead, Expired, Underway
  <2>2. work' = [work EXCEPT ![j] = items]
    BY <1>9 DEF PruneRead
  <2>3. items = {} \/ job'[j].pc \in {"prune", "sweep"}
    BY <1>7, <1>9 DEF PruneRead
  <2>4. \A k \in Jobs \ {j} : job'[k] = job[k]
    BY <1>7, <1>8, <1>9 DEF PruneRead, AfterPrune
  <2> HIDE DEF items
  <2> QED  BY <1>6, <2>1, <2>2, <2>3, <2>4
<1>10. ASSUME NEW j \in Jobs, SweepRead(j) PROVE WorkMoves
  <2> DEFINE items == {[id |-> i, name |-> None, do |-> "contents"] : i \in {k \in Ids : dir[k] # NoDir}}
  <2>1. \A t \in items : Underway(t)
    BY DEF Underway
  <2>2. work' = [work EXCEPT ![j] = items] /\ Go(j, "sweep")
    BY <1>10 DEF SweepRead
  <2> HIDE DEF items
  <2> QED  BY <1>6, <1>7, <2>1, <2>2
\* The other steps of a task: of its own, with nothing to remove.
<1>11. ASSUME NEW j \in Jobs, \A k \in Jobs \ {j} : job'[k] = job[k], work' = work,
              job[j].pc \notin {"prune", "sweep"} \/ work[j] = {}
       PROVE  WorkMoves
  BY <1>1, <1>11
<1>12. ASSUME NEW j \in Jobs, NEW rec, job' = [job EXCEPT ![j] = rec] PROVE \A k \in Jobs \ {j} : job'[k] = job[k]
  BY <1>0, <1>12
<1>13. ASSUME NEW j \in Jobs, JobStep(j) PROVE WorkMoves
  <2>1. CASE Swept(j) \/ Dump(j) \/ Ready(j) \/ Failed(j) \/ Erase(j) \/ Delete(j) \/ Hash(j)
    BY <1>7, <1>8, <1>11, <2>1 DEF Swept, AfterPrune, Dump, Broken, Ready, Failed, Erase, Delete, Hash, At
  <2>2. CASE Insert(j) \/ ListEntries(j) \/ ReadManifest(j)
    <3>1. \A k \in Jobs \ {j} : job'[k] = job[k]
      BY <1>0, <1>8, <2>2 DEF Insert, ListEntries, ReadManifest
    <3> QED  BY <1>11, <2>2, <3>1 DEF Insert, ListEntries, ReadManifest, At
  <2>3. CASE Tar(j)
    <3>1. \A k \in Jobs \ {j} : job'[k] = job[k]
      BY <1>0, <1>7, <2>3 DEF Tar, Broken
    <3> QED  BY <1>11, <2>3, <3>1 DEF Tar, At
  <2> QED  BY <1>9, <1>10, <1>13, <2>1, <2>2, <2>3 DEF JobStep, Build, Prune, PlanStep
<1>14. CASE Maintain \/ \E j \in Calls : Request(j, "manual") \/ Request(j, "list") \/ Remove(j) \/ Plan(j)
  <2>1. PICK j \in Jobs : /\ job[j].pc = "idle" /\ work' = work
                          /\ Maintain \/ Request(j, "manual") \/ Request(j, "list") \/ Remove(j) \/ Plan(j)
                          /\ Maintain => j = Timer
    BY <1>0, <1>14 DEF Maintain, Request, Remove, Plan, At
  <2>2. \A k \in Jobs \ {j} : job'[k] = job[k]
    BY <1>0, <2>1 DEF Maintain, Request, Remove, Plan
  <2> QED  BY <1>11, <2>1, <2>2
<1>15. ASSUME NEW j \in Jobs, StepFails(j) \/ AuditFails(j) PROVE WorkMoves
  BY <1>7, <1>8, <1>11, <1>15 DEF StepFails, AuditFails, Broken, At
<1>16. CASE UNCHANGED <<job, work>>
  BY <1>1, <1>16
<1>17. ASSUME NEW o \in Owners, RemovalFails(o) PROVE WorkMoves
  BY <1>4, <1>17 DEF RemovalFails
<1> QED
  BY <1>2, <1>5, <1>13, <1>14, <1>15, <1>16, <1>17 DEF Next, Tick, RestoreBegin, Restore, RestoreTable,
     RestoreMark, RestoreRestart, ApiRestart, ScriptFails

\* A task that makes or removes an archive goes on by its own next step, or by a fault.
LEMMA TaskLeaves ==
    ASSUME BackupsInv, WorkOwned, Next, NEW j \in Jobs, job[j].pc \in Building \cup {"failed", "erase"}
    PROVE  \/ job'[j] = job[j]
           \/ Dump(j) \/ Tar(j) \/ Ready(j) \/ Failed(j) \/ Erase(j) \/ AuditFails(j)
           \/ StepFails(j) \/ ApiRestart \/ RestoreRestart
<1> DEFINE Goal == \/ job'[j] = job[j]
                   \/ Dump(j) \/ Tar(j) \/ Ready(j) \/ Failed(j) \/ Erase(j) \/ AuditFails(j)
                   \/ StepFails(j) \/ ApiRestart \/ RestoreRestart
<1>0. job \in [Jobs -> Job] /\ Calls \subseteq Jobs /\ Timer \in Jobs /\ work[j] = {}
  BY Numbers DEF BackupsInv, TypeOK, WorkOwned, Building
<1>1. ASSUME NEW k \in Jobs, k # j,
             End(k) \/ (\E pc : Go(k, pc)) \/ \E rec : job' = [job EXCEPT ![k] = rec]
      PROVE  Goal
  BY <1>0, <1>1 DEF End, Go
<1>2. ASSUME NEW k \in Jobs, JobStep(k), k # j PROVE Goal
  <2>1. CASE Insert(k) \/ ListEntries(k) \/ ReadManifest(k)
    BY <1>0, <1>1, <1>2, <2>1 DEF Insert, ListEntries, ReadManifest
  <2>2. CASE Tar(k)
    BY <1>0, <1>1, <1>2, <2>2 DEF Tar, Broken
  <2> QED
    BY <1>1, <1>2, <2>1, <2>2 DEF JobStep, Build, Prune, PlanStep, PruneRead, SweepRead, Swept, AfterPrune, Dump, Broken,
       Ready, Failed, Erase, Delete, Hash
<1>3. CASE JobStep(j)
  BY <1>3 DEF JobStep, Build, Prune, PlanStep, PruneRead, SweepRead, Swept, Insert, Delete, ListEntries,
     ReadManifest, Hash, At, Building
<1>4. ASSUME NEW o \in Owners, NEW t \in work[o], GiveUp(o, t) PROVE Goal
  BY <1>0, <1>1, <1>4 DEF GiveUp, Owners
<1>5. CASE Maintain \/ \E k \in Calls : Request(k, "manual") \/ Request(k, "list") \/ Remove(k) \/ Plan(k)
  <2>1. job[j].pc # "idle"
    BY DEF Building
  <2> QED  BY <1>0, <1>5, <2>1 DEF Maintain, Request, Remove, Plan, At
<1>6. ASSUME NEW k \in Jobs, StepFails(k) \/ AuditFails(k) PROVE Goal
  BY <1>1, <1>6 DEF StepFails, AuditFails, Broken
<1>7. ASSUME NEW o \in Owners, Pruning(o) \/ RemovalFails(o) PROVE Goal
  BY <1>4, <1>7 DEF Pruning, RemovalFails, RemoveFile, MarkPruned, RemoveContents, RemoveDirectory
<1> QED
  BY <1>2, <1>3, <1>5, <1>6, <1>7 DEF Next, Tick, RestoreBegin, Restore, RestoreTable, RestoreMark, ScriptFails

-------------------------------------------------------------------------------
(* What a backup passes through from its first row to its last.            *)

\* Only plans read.
KindForm == \A j \in Jobs : job[j].pc \notin Planning \cup {"idle"} => job[j].kind # "plan"

\* The row of a backup that is being built says so, or has been restored by then.
StatusForm(i, r, jobs) == r # NoRow =>
    \A j \in Jobs : Builder(jobs[j], i) => r.status = "CREATING" \/ (jobs[j].pc = "ready" /\ r.status = "RESTORED")

StatusTable(table, jobs) == \A i \in Ids : StatusForm(i, table[i], jobs)

StatusTables ==
    /\ StatusTable(row, job)
    /\ \A n \in Names : archive[n] # NoFile => StatusTable(archive[n].table, job)
    /\ \A i \in Ids : dir[i] # NoDir => StatusTable(dir[i].table, job)
    /\ script.pc = "table" => StatusTable(script.from.table, job)

\* No archive is of a row whose archive is not yet packed.
Unpacked(i) == \E j \in Jobs : job[j].pc \in {"dump", "tar"} /\ job[j].id = i

FilesForm ==
    /\ \A n \in Names : archive[n] # NoFile => archive[n].of <= made /\ ~Unpacked(archive[n].of)
    /\ script.pc # "idle" => script.from.of <= made /\ ~Unpacked(script.from.of)

\* Who gives up a backup, removes or prunes it comes after who built it, and
\* leaves the safeguard alone.
DoneForm ==
    /\ \A j \in Jobs : job[j].pc \in {"erase", "delete"} =>
          /\ job[j].id <= made /\ job[j].id # script.id
          /\ \A k \in Jobs : Builder(job[k], job[j].id) => job[k].pc = "ready" /\ job[j].name = Placeholder
    /\ \A j \in Jobs : job[j].pc = "failed" =>
          job[j].id <= made /\ \A k \in Jobs : ~Builder(job[k], job[j].id)
    /\ \A o \in Owners : \A t \in work[o] : t.do \in {"file", "row"} =>
          /\ t.id <= made /\ t.id # script.id
          /\ \A k \in Jobs : ~Builder(job[k], t.id)

\* The safeguard of restore.sh has no row until the table is replaced and marked.
SafeForm ==
    /\ script.id = None => script.name = None
    /\ script.id # None => row[script.id] = NoRow /\ (script.pc = "table" => script.from.table[script.id] = NoRow)
    /\ script.pc = "restart" => script.id = None

StandInv == KindForm /\ WorkOwned /\ StatusTables /\ FilesForm /\ DoneForm /\ SafeForm

LEMMA BuilderStays ==
    ASSUME BackupsInv, Next, NEW j \in Jobs, NEW i \in Ids, i <= made, Builder(job'[j], i)
    PROVE  /\ Builder(job[j], i) /\ job'[j].name = job[j].name
           /\ job[j].pc = "ready" => job'[j].pc = "ready"
           /\ job'[j].pc \in {"dump", "tar"} => job[j].pc \in {"dump", "tar"}
<1>0. made \in Nat /\ i \in Nat /\ ~(i > made)
  BY Numbers DEF BackupsInv, TypeOK
<1>1. Builder(job[j], i) /\ job'[j].name = job[j].name
  BY <1>0, JobsAfter DEF JobsStepped, JobsLater
<1>2. TaskMoves(j) /\ job'[j].pc \in Building /\ job'[j].id = i
  BY TasksMove DEF Builder
<1> QED  BY <1>0, <1>1, <1>2 DEF TaskMoves, Builder, Building, Acting

LEMMA StatusStays ==
    ASSUME BackupsInv, Next, NEW table, TableForm(table, made, job), StatusTable(table, job)
    PROVE  StatusTable(table, job')
<1> SUFFICES ASSUME NEW i \in Ids, table[i] # NoRow, NEW j \in Jobs, Builder(job'[j], i)
             PROVE  table[i].status = "CREATING" \/ (job'[j].pc = "ready" /\ table[i].status = "RESTORED")
  BY DEF StatusTable, StatusForm
<1>1. i <= made
  BY DEF TableForm, RowForm
<1>2. Builder(job[j], i) /\ (job[j].pc = "ready" => job'[j].pc = "ready")
  BY <1>1, BuilderStays
<1> QED  BY <1>2 DEF StatusTable, StatusForm

LEMMA NoBuilderStays ==
    ASSUME BackupsInv, Next, NEW i \in Ids, i <= made, \A j \in Jobs : ~Builder(job[j], i)
    PROVE  \A j \in Jobs : ~Builder(job'[j], i)
  BY BuilderStays

LEMMA PackedStays ==
    ASSUME BackupsInv, Next, NEW i \in Ids, i <= made, ~Unpacked(i)
    PROVE  ~Unpacked(i)'
<1> SUFFICES ASSUME NEW j \in Jobs, job'[j].pc \in {"dump", "tar"}, job'[j].id = i PROVE FALSE
  BY DEF Unpacked
<1>1. Builder(job'[j], i)
  BY DEF Builder, Building
<1>2. Builder(job[j], i) /\ job[j].pc \in {"dump", "tar"}
  BY <1>1, BuilderStays
<1> QED  BY <1>2 DEF Unpacked, Builder

LEMMA KindAfter ==
    ASSUME BackupsInv, StandInv, Next
    PROVE  KindForm'
<1>1. \A j \in Jobs : KindMoves(j)
  BY TasksMove
<1> QED  BY <1>1 DEF KindMoves, KindForm, StandInv

\* What is known of rows, archives and tasks by their types.
LEMMA TypesKnown ==
    ASSUME BackupsInv, Next
    PROVE  /\ made \in Nat /\ made' \in Nat /\ made <= made' /\ \A i \in Ids : i \in Nat
           /\ row \in [Ids -> Row \cup {NoRow}] /\ job \in [Jobs -> Job] /\ script \in Script
           /\ \A n \in Names : archive[n] # NoFile => archive[n] \in Content /\ archive[n].of \in Ids
           /\ \A j \in Jobs : JobForm(job[j], made) /\ JobForm(job'[j], made')
           /\ \A i \in Ids : RowForm(i, row[i], made, job)
           /\ \A j, k \in Jobs : \A i \in Ids : Builder(job[j], i) /\ Builder(job[k], i) => j = k
           /\ \A j, k \in Jobs : \A i \in Ids : Builder(job'[j], i) /\ Builder(job'[k], i) => j = k
           /\ \A j \in Jobs : job[j].pc \in Building => job[j].id \in Ids /\ Builder(job[j], job[j].id)
<1>1. JobsStepped /\ made \in 0 .. MaxRows /\ MaxRows \in Nat
  BY JobsAfter, Numbers DEF BackupsInv, TypeOK
<1>2. made \in Nat /\ made' \in Nat /\ made <= made' /\ \A i \in Ids : i \in Nat
  BY <1>1, Numbers DEF JobsStepped, JobsLater
<1>3. /\ row \in [Ids -> Row \cup {NoRow}] /\ job \in [Jobs -> Job] /\ script \in Script
      /\ \A n \in Names : archive[n] # NoFile => archive[n] \in Content
  BY DEF BackupsInv, TypeOK, Table
<1>4. \A n \in Names : archive[n] # NoFile => archive[n].of \in Ids
  BY <1>3 DEF Content
<1>5. /\ \A j \in Jobs : JobForm(job[j], made) /\ JobForm(job'[j], made')
      /\ \A i \in Ids : RowForm(i, row[i], made, job)
  BY <1>1 DEF BackupsInv, JobsForm, TablesForm, TableForm, JobsStepped
<1>6. \A j \in Jobs : job[j].pc \in Building => job[j].id \in Ids /\ Builder(job[j], job[j].id)
  BY <1>1, <1>5 DEF JobForm, Builder, Ids
<1> QED  BY <1>1, <1>2, <1>3, <1>4, <1>5, <1>6 DEF BackupsInv, OneBuilder, JobsStepped

LEMMA StatusAfter ==
    ASSUME BackupsInv, StandInv, Next
    PROVE  StatusTables'
<1>0. StatusTables /\ TablesForm
  BY DEF StandInv, BackupsInv
<1>1. StatusTable(row, job') /\ \A n \in Names : archive[n] # NoFile => StatusTable(archive[n].table, job')
  BY <1>0, StatusStays DEF StatusTables, TablesForm
<1>2. \A i \in Ids : dir[i] # NoDir => StatusTable(dir[i].table, job')
  BY <1>0, StatusStays DEF StatusTables, TablesForm
<1>3. script.pc = "table" => StatusTable(script.from.table, job')
  BY <1>0, StatusStays DEF StatusTables, TablesForm
<1>4. StatusTable(NoTable, job')
  BY DEF StatusTable, StatusForm, NoTable
<1>5. ASSUME NEW i \in Ids, ~RestoreTable PROVE StatusForm(i, row'[i], job')
  <2>1. CASE row'[i] = row[i]
    BY <1>1, <2>1 DEF StatusTable
  <2>2. ASSUME row'[i].status = "CREATING" \/ row'[i] = NoRow PROVE StatusForm(i, row'[i], job')
    BY <2>2 DEF StatusForm
  <2>3. ASSUME \A j \in Jobs : ~Builder(job'[j], i) PROVE StatusForm(i, row'[i], job')
    BY <2>3 DEF StatusForm
  <2>4. ASSUME NEW j \in Jobs, Records(j, i) PROVE StatusForm(i, row'[i], job')
    <3>1. Builder(job[j], i) /\ ~Builder(job'[j], i) /\ i <= made
      BY <2>4, TypesKnown DEF Records, Builder, Building, RowForm, Stored
    <3>2. \A k \in Jobs : Builder(job'[k], i) => Builder(job[k], i)
      BY <3>1, BuilderStays
    <3>3. \A k \in Jobs : Builder(job[k], i) => k = j
      BY <3>1, TypesKnown
    <3> QED  BY <2>3, <3>1, <3>2, <3>3
  <2>5. ASSUME NEW j \in Jobs, job[j].pc = "failed", job[j].id = i PROVE StatusForm(i, row'[i], job')
    BY <2>3, <2>5, NoBuilderStays DEF StandInv, DoneForm
  <2>6. ASSUME NEW o \in Owners, NEW t \in work[o], t.do = "row", t.id = i PROVE StatusForm(i, row'[i], job')
    BY <2>3, <2>6, NoBuilderStays DEF StandInv, DoneForm
  <2>7. CASE RestoreMark /\ i = script.from.of /\ Restates(i, "RESTORED")
    <3>1. script.pc = "mark" /\ job' = job /\ row'[i].status = "RESTORED"
      BY <2>7 DEF RestoreMark, Restates
    <3>2. ~Unpacked(i)
      BY <2>7, <3>1 DEF StandInv, FilesForm
    <3> QED  BY <3>1, <3>2 DEF StatusForm, Unpacked, Builder, Building
  <2>8. CASE RestoreMark /\ i = script.id
    <3>1. job' = job /\ script.id # None
      BY <2>8, Numbers DEF RestoreMark
    <3> QED  BY <2>3, <2>8, <3>1 DEF BackupsInv, ScriptForm
  <2>9. RowMoves(i)
    BY <1>5, RowsMove
  <2> QED  BY <2>1, <2>2, <2>4, <2>5, <2>6, <2>7, <2>8, <2>9 DEF RowMoves, Restates
<1>6. StatusTable(row', job')
  <2>1. CASE RestoreTable
    BY <1>3, <2>1 DEF RestoreTable
  <2> QED  BY <1>5, <2>1 DEF StatusTable
<1>7. ASSUME NEW n \in Names, archive'[n] # NoFile PROVE StatusTable(archive'[n].table, job')
  <2>1. ASSUME NEW j \in Jobs, Packs(j, n) PROVE StatusTable(archive'[n].table, job')
    <3>1. job[j].id \in Ids
      BY <2>1, TypesKnown DEF Packs, Building
    <3> QED  BY <1>2, <2>1, <3>1 DEF Packs
  <2>2. ASSUME NEW j \in Jobs, archive'[n] = Partial(job[j].id) PROVE StatusTable(archive'[n].table, job')
    BY <1>4, <2>2 DEF Partial
  <2>3. CASE Guards(n)
    BY <1>1, <2>3 DEF Guards
  <2> QED  BY <1>1, <1>7, <2>1, <2>2, <2>3, ArchivesMove DEF ArchiveMoves
<1>8. ASSUME NEW i \in Ids, dir'[i] # NoDir PROVE StatusTable(dir'[i].table, job')
  <2>1. CASE dir'[i] = Emptied
    BY <1>4, <2>1 DEF Emptied
  <2> QED  BY <1>1, <1>2, <1>8, <2>1, DirsMove DEF DirMoves
<1>9. ASSUME script'.pc = "table" PROVE StatusTable(script'.from.table, job')
  <2>1. IdleScript.pc = "idle"
    BY DEF IdleScript
  <2> QED  BY <1>1, <1>3, <1>9, <2>1, ScriptMove DEF ScriptMoves
<1> QED  BY <1>6, <1>7, <1>8, <1>9 DEF StatusTables

LEMMA FilesAfter ==
    ASSUME BackupsInv, StandInv, Next
    PROVE  FilesForm'
<1>0. FilesForm /\ Ids \subseteq Nat /\ (script.pc # "idle" => script.from \in Content)
  BY Numbers DEF StandInv, BackupsInv, ScriptForm
<1>1. ASSUME NEW i \in Ids, i <= made, ~Unpacked(i) PROVE i <= made' /\ ~Unpacked(i)'
  BY <1>1, TypesKnown, PackedStays
<1>2. ASSUME NEW n \in Names, archive[n] # NoFile
      PROVE  archive[n].of \in Ids /\ archive[n].of <= made' /\ ~(\E j \in Jobs : job'[j].pc \in {"dump", "tar"} /\ job'[j].id = archive[n].of)
  BY <1>0, <1>1, <1>2, TypesKnown DEF FilesForm, Unpacked
<1>3. ASSUME NEW n \in Names, archive'[n] # NoFile
      PROVE  archive'[n].of <= made' /\ ~Unpacked(archive[n].of)'
  <2>1. CASE archive'[n] = archive[n]
    BY <1>2, <1>3, <2>1 DEF Unpacked
  <2>2. ASSUME NEW j \in Jobs, job[j].pc = "tar", job'[j].pc \in {"ready", "failed"}, archive'[n].of = job[j].id
        PROVE  archive'[n].of <= made' /\ ~Unpacked(archive[n].of)'
    <3>1. Builder(job[j], job[j].id) /\ job[j].id \in Ids /\ job[j].id <= made
      BY <2>2, TypesKnown DEF Builder, Building, JobForm
    <3>2. ASSUME NEW k \in Jobs, job'[k].pc \in {"dump", "tar"}, job'[k].id = job[j].id PROVE FALSE
      <4>1. Builder(job'[k], job[j].id)
        BY <3>2 DEF Builder, Building
      <4>2. Builder(job[k], job[j].id)
        BY <3>1, <4>1, BuilderStays
      <4> QED  BY <2>2, <3>1, <3>2, <4>2, TypesKnown
    <3> QED  BY <2>2, <3>1, <3>2, TypesKnown DEF Unpacked
  <2>3. ASSUME NEW j \in Jobs, Packs(j, n) PROVE archive'[n].of <= made' /\ ~Unpacked(archive[n].of)'
    BY <2>2, <2>3 DEF Packs
  <2>4. ASSUME NEW j \in Jobs, StepFails(j), job[j].pc = "tar", job'[j].pc = "failed", archive'[n] = Partial(job[j].id)
        PROVE  archive'[n].of <= made' /\ ~Unpacked(archive[n].of)'
    BY <2>2, <2>4 DEF Partial
  <2>5. CASE Guards(n)
    <3>1. archive'[n].of = made' /\ made' = made + 1 /\ job' = job
      BY <2>5 DEF Guards
    <3>2. \A j \in Jobs : job[j].pc \in {"dump", "tar"} => job[j].id <= made
      BY TypesKnown DEF JobForm, Building
    <3> QED  BY <3>1, <3>2, TypesKnown DEF Unpacked
  <2> QED  BY <1>3, <2>1, <2>3, <2>4, <2>5, ArchivesMove DEF ArchiveMoves
<1>4. ASSUME script'.pc # "idle" PROVE script'.from.of <= made' /\ ~Unpacked(script.from.of)'
  <2>1. CASE script.pc # "idle" /\ script'.from = script.from
    <3>1. script.from.of \in Ids
      BY <1>0, <2>1 DEF Content
    <3> QED  BY <1>0, <1>1, <2>1, <3>1 DEF FilesForm, Unpacked
  <2>2. ASSUME NEW n \in Names, archive[n] # NoFile, script'.from = archive[n]
        PROVE  script'.from.of <= made' /\ ~Unpacked(script.from.of)'
    BY <1>2, <2>2 DEF Unpacked
  <2>3. IdleScript.pc = "idle"
    BY DEF IdleScript
  <2> QED  BY <1>4, <2>1, <2>2, <2>3, ScriptMove DEF ScriptMoves, RestoreTable, RestoreMark
<1> QED  BY <1>3, <1>4 DEF FilesForm

LEMMA DoneAfter ==
    ASSUME BackupsInv, StandInv, Next
    PROVE  DoneForm'
<1>0. DoneForm /\ SafeForm /\ IdleScript.id = None /\ None \notin Ids
      /\ work \in [Owners -> SUBSET Item]
  BY Numbers DEF StandInv, BackupsInv, TypeOK, IdleScript
\* The safeguard is new.
<1>1. ASSUME NEW i \in Ids, i <= made, i # script.id PROVE i <= made' /\ i # script'.id
  BY <1>0, <1>1, ScriptMove, TypesKnown DEF ScriptMoves, Guards
<1>2. ASSUME NEW i \in Ids, Stored(i) PROVE i <= made /\ i # script.id
  BY <1>0, <1>2, TypesKnown DEF RowForm, Stored, SafeForm
<1>3. ASSUME NEW i \in Ids, i <= made, \A j \in Jobs : ~Builder(job[j], i) PROVE \A j \in Jobs : ~Builder(job'[j], i)
  BY <1>3, NoBuilderStays
<1>4. ASSUME NEW j \in Jobs, job'[j].pc \in {"erase", "delete"}
      PROVE  /\ job'[j].id <= made' /\ job'[j].id # script'.id
             /\ \A k \in Jobs : Builder(job'[k], job'[j].id) => job'[k].pc = "ready" /\ job'[j].name = Placeholder
  <2> DEFINE i == job'[j].id
  <2>1. i \in Ids
    BY <1>4, TypesKnown DEF JobForm
  <2>2. ASSUME NEW k \in Jobs, Builder(job'[k], i), i <= made, job[k].pc = "ready" PROVE job'[k].pc = "ready"
    BY <2>1, <2>2, BuilderStays
  <2>3. CASE job[j].pc \in {"erase", "delete"} /\ job'[j].id = job[j].id /\ job'[j].name = job[j].name
    <3>1. i <= made /\ i # script.id
      BY <1>0, <2>3 DEF DoneForm
    <3>2. \A k \in Jobs : Builder(job'[k], i) => job[k].pc = "ready" /\ job[j].name = Placeholder
      BY <1>0, <2>1, <2>3, <3>1, BuilderStays DEF DoneForm
    <3> QED  BY <1>1, <2>1, <2>2, <2>3, <3>1, <3>2
  <2>4. CASE Stored(i) /\ row[i].status # "CREATING" /\ job'[j].name = row[i].name
    <3>1. i <= made /\ i # script.id
      BY <1>2, <2>1, <2>4
    <3>2. ASSUME NEW k \in Jobs, Builder(job'[k], i) PROVE job[k].pc = "ready" /\ row[i].name = Placeholder
      <4>1. Builder(job[k], i)
        BY <2>1, <3>1, <3>2, BuilderStays
      <4> QED  BY <2>1, <2>4, <4>1, TypesKnown DEF StandInv, StatusTables, StatusTable, StatusForm, RowForm, Stored
    <3> QED  BY <1>1, <2>1, <2>2, <2>4, <3>1, <3>2
  <2> QED  BY <1>4, <2>3, <2>4, TasksMove DEF TaskMoves, Acting, Building
<1>5. ASSUME NEW j \in Jobs, job'[j].pc = "failed"
      PROVE  job'[j].id <= made' /\ \A k \in Jobs : ~Builder(job'[k], job'[j].id)
  <2> DEFINE i == job'[j].id
  <2>1. i \in Ids
    BY <1>5, TypesKnown DEF JobForm
  <2>2. CASE job'[j] = job[j]
    <3>1. i <= made /\ \A k \in Jobs : ~Builder(job[k], i)
      BY <1>0, <1>5, <2>2 DEF DoneForm
    <3> QED  BY <1>3, <2>1, <3>1, TypesKnown
  <2>3. CASE job[j].pc \in Building /\ i = job[j].id
    <3>1. Builder(job[j], i) /\ i <= made /\ ~Builder(job'[j], i)
      BY <1>5, <2>3, TypesKnown DEF JobForm, Builder, Building
    <3>2. \A k \in Jobs : Builder(job'[k], i) => Builder(job[k], i)
      BY <2>1, <3>1, BuilderStays
    <3>3. \A k \in Jobs : Builder(job[k], i) => k = j
      BY <2>1, <3>1, TypesKnown
    <3> QED  BY <2>1, <3>1, <3>2, <3>3, TypesKnown
  <2> QED  BY <1>5, <2>2, <2>3, TasksMove DEF TaskMoves, Acting
<1>6. ASSUME NEW o \in Owners, NEW t \in work'[o], t.do \in {"file", "row"}
      PROVE  /\ t.id <= made' /\ t.id # script'.id
             /\ \A k \in Jobs : ~Builder(job'[k], t.id)
  <2>1. t.id \in Ids
    <3>1. t \in Item
      BY <1>6, WorkAfter
    <3> QED  BY <3>1 DEF Item
  <2>2. t.id <= made /\ t.id # script.id /\ \A k \in Jobs : ~Builder(job[k], t.id)
    <3>1. CASE \E p \in Owners : \E u \in work[p] : u.do \in {"file", "row"} /\ u.id = t.id
      BY <1>0, <3>1 DEF DoneForm
    <3>2. CASE Stored(t.id) /\ row[t.id].status \in {"READY", "FAILED"}
      <4>1. \A k \in Jobs : ~Builder(job[k], t.id)
        BY <2>1, <3>2 DEF StandInv, StatusTables, StatusTable, StatusForm, Stored
      <4> QED  BY <1>2, <2>1, <3>2, <4>1
    <3>3. Underway(t)
      BY <1>6, WorksMove DEF WorkMoves, StandInv
    <3> QED  BY <1>6, <3>1, <3>2, <3>3 DEF Underway
  <2> QED  BY <1>1, <1>3, <2>1, <2>2
<1> QED  BY <1>4, <1>5, <1>6 DEF DoneForm

LEMMA SafeAfter ==
    ASSUME BackupsInv, StandInv, Next
    PROVE  SafeForm'
<1>0. /\ SafeForm /\ IdleScript.id = None /\ IdleScript.name = None /\ IdleScript.pc = "idle"
      /\ script.id # None => script.id \in Ids /\ script.id <= made /\ script.pc # "idle"
  BY TypesKnown DEF StandInv, BackupsInv, ScriptForm, IdleScript, Script
<1>1. CASE script' = script
  <2>1. CASE script.id = None
    BY <1>0, <1>1, <2>1 DEF SafeForm
  <2>2. CASE script.id # None
    <3>1. row[script.id] = NoRow /\ script.id \in Ids /\ script.id <= made
      BY <1>0, <2>2 DEF SafeForm
    <3>2. ~RestoreTable /\ ~RestoreMark
      <4>1. script.pc # "table" \/ ~RestoreTable
        BY <1>1, TypesKnown DEF RestoreTable, Script
      <4> QED  BY <1>0, <1>1, <2>2, <4>1 DEF RestoreTable, RestoreMark
    <3> DEFINE i == script.id
    <3>4. i \in Ids /\ i <= made /\ ~Stored(i) /\ RowMoves(i)
      BY <3>1, <3>2, RowsMove DEF Stored
    <3> HIDE DEF i
    <3>5. row'[i] = row[i] \/ row'[i] = NoRow
      BY <3>2, <3>4, TypesKnown DEF RowMoves, Records, Restates
    <3>3. row'[script.id] = NoRow
      BY <3>1, <3>5 DEF i
    <3> QED  BY <1>0, <1>1, <2>2, <3>3 DEF SafeForm
  <2> QED  BY <2>1, <2>2
<1>2. CASE RestoreTable /\ script.pc = "table" /\ script'.pc = "mark" /\ script'.id = script.id /\ script'.name = script.name
  BY <1>0, <1>2 DEF RestoreTable, SafeForm
<1>3. CASE script.id = None /\ script'.id = None /\ script'.name = script.name
  BY <1>0, <1>3 DEF SafeForm
<1>4. CASE script' = IdleScript \/ (script'.id = None /\ script'.name = None)
  BY <1>0, <1>4 DEF SafeForm
<1>5. ASSUME NEW n \in Names, archive[n] # NoFile, script'.pc = "table", script'.from = archive[n], row' = row,
             script'.id = made', made' = made + 1
      PROVE  SafeForm'
  <2>1. made' \in Ids /\ made' # None
    <3>1. made' \in made .. MaxRows /\ made \in Nat /\ MaxRows \in Nat
      BY JobsAfter, TypesKnown, Numbers DEF JobsStepped, JobsLater
    <3> QED  BY <1>5, <3>1, Numbers DEF Ids
  <2>2. row[made'] = NoRow
    BY <1>5, <2>1, TypesKnown DEF RowForm
  <2>3. archive[n].table[made'] = NoRow
    BY <1>5, <2>1, TypesKnown DEF BackupsInv, TablesForm, TableForm, RowForm
  <2> QED  BY <1>5, <2>1, <2>2, <2>3 DEF SafeForm
<1> QED  BY <1>1, <1>2, <1>3, <1>4, <1>5, ScriptMove DEF ScriptMoves, Guards

LEMMA StandStep == BackupsInv /\ StandInv /\ [Next]_vars => StandInv'
<1>1. CASE Next
  BY <1>1, KindAfter, StatusAfter, FilesAfter, DoneAfter, SafeAfter, WorksMove DEF StandInv, WorkMoves
<1>2. CASE UNCHANGED vars
  BY <1>2 DEF vars, StandInv, KindForm, WorkOwned, StatusTables, FilesForm, Unpacked, DoneForm, SafeForm
<1> QED  BY <1>1, <1>2

LEMMA StandInit == Init => StandInv
<1> SUFFICES ASSUME Init PROVE StandInv
  OBVIOUS
<1>1. /\ \A j \in Jobs : job[j].pc = "idle" /\ work[j] = {}
      /\ \A n \in Names : archive[n] = NoFile
      /\ \A i \in Ids : row[i] = NoRow /\ dir[i] = NoDir
      /\ script.pc = "idle" /\ script.id = None /\ script.name = None
      /\ \A o \in Owners : work[o] = {}
  BY Numbers DEF Init, IdleScript, NoTable
<1>2. KindForm /\ WorkOwned /\ FilesForm /\ DoneForm /\ SafeForm
  BY <1>1 DEF KindForm, WorkOwned, FilesForm, DoneForm, SafeForm
<1>3. StatusTables
  BY <1>1 DEF StatusTables, StatusTable, StatusForm
<1> QED  BY <1>2, <1>3 DEF StandInv

-------------------------------------------------------------------------------
(* Rows that are READY and their archives.                                 *)

\* What the checksum was taken of is still there.
Intact(n, sum) == archive[n] # NoFile /\ ChecksumOf(archive[n]) = sum /\ Parts \subseteq archive[n].parts

\* Two claimants to an archive have been noticed.
SharedForm == Shared \subseteq spoilt

ReadyForm == \A i \in Ids \ spoilt :
    Stored(i) /\ row[i].status = "READY" => Removing(i) \/ Intact(row[i].name, row[i].sum)

\* The dump is in the directory until it is packed, and packed as it was hashed.
BuildForm == \A j \in Jobs : job[j].id \notin spoilt =>
    /\ job[j].pc = "tar" => dir[job[j].id] = NoDir \/ dir[job[j].id].parts = {"postgres.sql"}
    /\ job[j].pc = "ready" => Intact(job[j].name, job[j].sum)

GuardForm == script.id # None /\ script.id \notin spoilt =>
    Intact(script.name, [of |-> script.id, parts |-> Parts])

ReadyInv == SharedForm /\ ReadyForm /\ BuildForm /\ GuardForm

\* Who takes the archive of a row that has it for its own, is about that row.
LEMMA OnlyClaimant ==
    ASSUME SharedForm, NEW n \in Names, NEW i \in Ids \ spoilt, i \in Claimants(n), NEW k \in Claimants(n)
    PROVE  k = i
<1>1. Claimants(n) = {i}
  BY DEF SharedForm, Shared
<1> QED  BY <1>1

\* ... and then removes it, unless it is the one that made it.
LEMMA IntactStays ==
    ASSUME BackupsInv, StandInv, SharedForm, Next, NEW n \in Names, NEW i \in Ids \ spoilt, i \in Claimants(n),
           NEW sum, Intact(n, sum)
    PROVE  \/ Intact(n, sum)'
           \/ \E j \in Jobs : Erase(j) /\ job[j].pc = "erase" /\ job[j].name = n /\ job[j].id = i
           \/ \E o \in Owners : (\E t \in work[o] : t.do = "file" /\ t.id = i)
                                /\ \E u \in work'[o] : u.do = "row" /\ u.id = i
           \/ \E j \in Jobs : job[j].pc = "tar" /\ job[j].id = i
<1>1. ASSUME NEW j \in Jobs, job[j].pc \notin Planning \cup {"idle"}, job[j].name = n PROVE job[j].id = i
  <2>1. job[j].id \in Claimants(n)
    BY <1>1 DEF StandInv, KindForm, Claimants, Working
  <2> QED  BY <2>1, OnlyClaimant
<1>2. ASSUME NEW o \in Owners, NEW t \in work[o], t.do = "file", t.name = n PROVE t.id = i
  <2>1. t.id \in Claimants(n)
    BY <1>2 DEF Claimants
  <2> QED  BY <2>1, OnlyClaimant
<1>3. CASE archive'[n] = archive[n]
  BY <1>3 DEF Intact
<1>4. CASE Erases(n)
  BY <1>1, <1>2, <1>4 DEF Erases, Planning
<1>5. ASSUME NEW j \in Jobs, job[j].pc = "tar", job[j].name = n PROVE job[j].id = i
  BY <1>1, <1>5 DEF Planning
<1> QED  BY <1>3, <1>4, <1>5, ArchivesMove DEF ArchiveMoves, Packs, Guards, Intact

LEMMA Spoils ==
    ASSUME HistoryNext
    PROVE  /\ spoilt \subseteq spoilt' /\ SharedForm' /\ SweptAway \subseteq spoilt' /\ HalfRemoved \subseteq spoilt'
           /\ BroughtBack \subseteq spoilt'
  BY DEF HistoryNext, Track, SharedForm

LEMMA ReadyAfter ==
    ASSUME BackupsInv, StandInv, ReadyInv, HistoryNext
    PROVE  ReadyForm'
<1> SUFFICES ASSUME NEW i \in Ids, i \notin spoilt', row'[i] # NoRow, row'[i].status = "READY", ~Removing(i)'
             PROVE  Intact(row[i].name, row[i].sum)'
  BY DEF ReadyForm, Stored
<1>0. Next /\ i \notin spoilt /\ SharedForm
  BY Spoils DEF HistoryNext, ReadyInv
<1>1. CASE RestoreTable
  <2>1. CanRestore(i)'
    BY <1>1, Spoils DEF BroughtBack
  <2> QED  BY <2>1 DEF CanRestore, Intact
<1>2. CASE row'[i] = row[i]
  <2> DEFINE n == row[i].name
             sum == row[i].sum
  <2>1. n \in Names /\ Stored(i)
    BY <1>0, <1>2, TypesKnown DEF RowForm, Row, Stored
  <2>2. ~Removing(i)
    <3>1. ASSUME Removing(i) PROVE i \in HalfRemoved
      BY <1>2, <3>1 DEF HalfRemoved, Removing, At
    <3> QED  BY <3>1, Spoils
  <2>3. Intact(n, sum)
    BY <1>0, <1>2, <2>1, <2>2 DEF ReadyInv, ReadyForm
  <2>4. i \in Claimants(n)
    BY <2>1 DEF Claimants
  <2>5. ASSUME NEW j \in Jobs, Erase(j), job[j].id = i PROVE FALSE
    <3>1. job' = [job EXCEPT ![j].pc = "delete"]
      BY <2>5 DEF Erase, Go
    <3>2. job'[j].pc = "delete" /\ job'[j].id = i
      BY <2>5, <3>1, <1>0, TypesKnown DEF Job
    <3> QED  BY <3>2 DEF Removing, At
  <2>6. ASSUME NEW o \in Owners, NEW u \in work'[o], u.do = "row", u.id = i PROVE FALSE
    BY <2>6 DEF Removing
  <2>7. ASSUME NEW j \in Jobs, job[j].pc = "tar", job[j].id = i PROVE FALSE
    <3>1. Builder(job[j], i) /\ RowForm(i, row[i], made, job) /\ Placeholder \notin Names
      BY <1>0, <2>7, TypesKnown, BackupsAssumption DEF Builder, Building
    <3> QED  BY <2>1, <3>1 DEF RowForm, Stored
  <2>8. Intact(n, sum)'
    BY <1>0, <1>2, <2>1, <2>3, <2>4, <2>5, <2>6, <2>7, IntactStays
  <2> QED  BY <2>8
<1>3. ASSUME NEW j \in Jobs, Records(j, i) PROVE Intact(row[i].name, row[i].sum)'
  <2>1. Intact(job[j].name, job[j].sum)
    BY <1>0, <1>3 DEF Records, ReadyInv, BuildForm
  <2>2. archive' = archive
    BY <1>3 DEF Records, Ready, AuditFails
  <2> QED  BY <1>3, <2>1, <2>2 DEF Records, Intact
<1>4. CASE RestoreMark /\ i = script.id /\ row'[i].name = script.name /\ row'[i].sum = [of |-> i, parts |-> Parts]
  <2>1. Intact(script.name, [of |-> i, parts |-> Parts])
    BY <1>0, <1>4, Numbers DEF ReadyInv, GuardForm
  <2>2. archive' = archive
    BY <1>4 DEF RestoreMark
  <2> QED  BY <1>4, <2>1, <2>2 DEF Intact
<1>5. RowMoves(i) \/ RestoreTable
  BY <1>0, RowsMove
<1> QED  BY <1>1, <1>2, <1>3, <1>4, <1>5 DEF RowMoves, Restates

\* An archive that is written is the one that was hashed.
LEMMA TarPacks ==
    ASSUME BackupsInv, Next, NEW j \in Jobs, Tar(j), job'[j].pc = "ready"
    PROVE  Packs(j, job[j].name) /\ job'[j].name = job[j].name
<1> DEFINE i == job[j].id
           file == [of |-> i, parts |-> dir[i].parts \cup {"manifest.json"}, table |-> dir[i].table]
<1>0. job \in [Jobs -> Job] /\ dir \in [Ids -> Staged \cup {NoDir}] /\ archive \in [Names -> Content \cup {NoFile}]
  BY DEF BackupsInv, TypeOK
<1>1. job[j].pc = "tar" /\ i \in Ids /\ job[j].name \in Names
  BY TypesKnown DEF Tar, At, JobForm, Building
<1>2. ~Broken(j)
  BY <1>0 DEF Broken, Go, Job
<1>3. /\ dir[i] # NoDir /\ archive' = [archive EXCEPT ![job[j].name] = file]
      /\ job' = [job EXCEPT ![j].pc = "ready", ![j].sum = ChecksumOf(file)]
  BY <1>2 DEF Tar
<1>4. file \in Content /\ file.of = i /\ file.parts = dir[i].parts \cup {"manifest.json"} /\ file.table = dir[i].table
  BY <1>0, <1>1, <1>3, Files DEF Content, Parts
<1> HIDE DEF file
<1>5. archive'[job[j].name] = file
  BY <1>0, <1>1, <1>3
<1>6. job'[j].sum = ChecksumOf(file) /\ job'[j].name = job[j].name
  BY <1>0, <1>3 DEF Job
<1> QED  BY <1>1, <1>3, <1>4, <1>5, <1>6 DEF Packs

LEMMA BuildAfter ==
    ASSUME BackupsInv, StandInv, ReadyInv, HistoryNext
    PROVE  BuildForm'
<1>0. Next /\ SharedForm /\ BuildForm
  BY DEF HistoryNext, ReadyInv
<1> SUFFICES ASSUME NEW j \in Jobs, job'[j].id \notin spoilt'
             PROVE  /\ job'[j].pc = "tar" => dir'[job'[j].id] = NoDir \/ dir'[job'[j].id].parts = {"postgres.sql"}
                    /\ job'[j].pc = "ready" => Intact(job[j].name, job[j].sum)'
  BY DEF BuildForm
<1> DEFINE i == job'[j].id
<1>1. i \notin spoilt /\ TaskMoves(j)
  BY <1>0, Spoils, TasksMove
<1>2. ASSUME job'[j].pc = "tar" PROVE dir'[i] = NoDir \/ dir'[i].parts = {"postgres.sql"}
  <2>1. CASE Dump(j) /\ job[j].pc = "dump" /\ i = job[j].id
    <3>1. i \in Ids
      BY <1>0, <2>1, TypesKnown DEF Building
    <3>2. dir \in [Ids -> Staged \cup {NoDir}]
      BY DEF BackupsInv, TypeOK
    <3> QED  BY <2>1, <3>1, <3>2 DEF Dump, Broken
  <2>2. CASE job'[j] = job[j]
    <3>1. i \in Ids /\ i <= made /\ Builder(job[j], i) /\ job[j].pc = "tar" /\ i = job[j].id
      BY <1>0, <1>2, <2>2, TypesKnown DEF JobForm, Building
    <3>2. dir[i] = NoDir \/ dir[i].parts = {"postgres.sql"}
      BY <1>0, <1>1, <2>2, <3>1 DEF BuildForm
    <3>3. ASSUME NEW o \in Owners, RemoveContents(o), dir[i] # NoDir, dir'[i] = Emptied PROVE FALSE
      <4>1. j \in Working
        BY <3>1 DEF StandInv, KindForm, Working, Planning
      <4>2. i \in SweptAway
        BY <3>1, <3>2, <3>3, <4>1 DEF SweptAway
      <4> QED  BY <4>2, Spoils
    <3>4. ASSUME NEW k \in Jobs, job[k].pc = "dump", job[k].id = i PROVE FALSE
      BY <1>0, <3>1, <3>4, TypesKnown DEF Builder, Building
    <3>5. DirMoves(i) /\ ~(i > made)
      BY <1>0, <3>1, DirsMove, TypesKnown
    <3> QED  BY <3>2, <3>3, <3>4, <3>5 DEF DirMoves
  <2> QED  BY <1>1, <1>2, <2>1, <2>2 DEF TaskMoves, Acting, Building
<1>3. ASSUME job'[j].pc = "ready" PROVE Intact(job[j].name, job[j].sum)'
  <2>1. CASE Tar(j) /\ job[j].pc = "tar" /\ i = job[j].id
    <3>1. Packs(j, job[j].name) /\ job'[j].name = job[j].name
      BY <1>0, <1>3, <2>1, TarPacks
    <3>2. dir[i].parts = {"postgres.sql"}
      BY <1>0, <1>1, <2>1, <3>1 DEF BuildForm, Packs
    <3>3. archive'[job[j].name] # NoFile /\ Parts \subseteq archive'[job[j].name].parts
      BY <2>1, <3>1, <3>2, Files, BackupsAssumption DEF Packs, Parts
    <3> QED  BY <3>1, <3>3 DEF Packs, Intact
  <2>2. CASE job'[j] = job[j]
    <3> DEFINE n == job[j].name
    <3>1. i \in Ids /\ i <= made /\ Builder(job[j], i) /\ job[j].pc = "ready" /\ i = job[j].id /\ n \in Names
      BY <1>0, <1>3, <2>2, TypesKnown DEF JobForm, Building
    <3>2. Intact(n, job[j].sum)
      BY <1>0, <1>1, <2>2, <3>1 DEF BuildForm
    <3>3. i \in Claimants(n)
      BY <3>1 DEF StandInv, KindForm, Working, Planning, Claimants
    <3>4. ASSUME NEW k \in Jobs, job[k].pc = "erase", job[k].name = n, job[k].id = i PROVE FALSE
      BY <3>1, <3>4, BackupsAssumption DEF StandInv, DoneForm
    <3>5. ASSUME NEW o \in Owners, NEW t \in work[o], t.do = "file", t.id = i PROVE FALSE
      BY <3>1, <3>5 DEF StandInv, DoneForm
    <3>6. ASSUME NEW k \in Jobs, job[k].pc = "tar", job[k].id = i PROVE FALSE
      BY <1>0, <3>1, <3>6, TypesKnown DEF Builder, Building
    <3>7. PICK m, sum : m \in Names /\ m = n /\ sum = job[j].sum
      BY <3>1
    <3>8. Intact(m, sum)'
      BY <1>0, <1>1, <3>1, <3>2, <3>3, <3>4, <3>5, <3>6, <3>7, IntactStays
    <3> QED  BY <2>2, <3>7, <3>8
  <2> QED  BY <1>1, <1>3, <2>1, <2>2 DEF TaskMoves, Acting, Building
<1> QED  BY <1>2, <1>3

LEMMA GuardAfter ==
    ASSUME BackupsInv, StandInv, ReadyInv, HistoryNext
    PROVE  GuardForm'
<1>0. Next /\ SharedForm /\ GuardForm /\ IdleScript.id = None
  BY DEF HistoryNext, ReadyInv, IdleScript
<1> SUFFICES ASSUME script'.id # None, script'.id \notin spoilt'
             PROVE  Intact(script.name, [of |-> script.id, parts |-> Parts])'
  BY DEF GuardForm
<1>1. ASSUME script'.id = script.id, script'.name = script.name
      PROVE  Intact(script.name, [of |-> script.id, parts |-> Parts])'
  <2> DEFINE i == script.id
             n == script.name
             sum == [of |-> i, parts |-> Parts]
  <2>1. i \in Ids /\ i \notin spoilt /\ n \in Names /\ \A j \in Jobs : ~Builder(job[j], i)
    BY <1>0, <1>1, Spoils, TypesKnown DEF BackupsInv, ScriptForm, Script
  <2>2. Intact(n, sum) /\ i \in Claimants(n)
    BY <1>0, <1>1, <2>1, Numbers DEF GuardForm, Claimants
  <2>3. ASSUME NEW k \in Jobs, job[k].pc = "erase", job[k].id = i PROVE FALSE
    BY <2>3 DEF StandInv, DoneForm
  <2>4. ASSUME NEW o \in Owners, NEW t \in work[o], t.do = "file", t.id = i PROVE FALSE
    BY <2>4 DEF StandInv, DoneForm
  <2>5. ASSUME NEW k \in Jobs, job[k].pc = "tar", job[k].id = i PROVE FALSE
    BY <2>1, <2>5 DEF Builder, Building
  <2>6. PICK k, m, s : k \in Ids /\ m \in Names /\ k = i /\ m = n /\ s = sum
    BY <2>1
  <2>7. Intact(m, s)'
    BY <1>0, <2>1, <2>2, <2>3, <2>4, <2>5, <2>6, IntactStays
  <2> QED  BY <1>1, <2>6, <2>7 DEF Intact
<1>2. ASSUME script'.name \in Names, script'.id = made', Guards(script'.name)
      PROVE  Intact(script.name, [of |-> script.id, parts |-> Parts])'
  BY <1>2, Files, BackupsAssumption DEF Guards, Intact, ChecksumOf
<1> QED  BY <1>0, <1>1, <1>2, ScriptMove DEF ScriptMoves

-------------------------------------------------------------------------------
(* Archives and the rows that retention finds them by.                     *)

\* The row of the archive will stay.
Keeps(n) == \E i \in Ids : Stored(i) /\ row[i].name = n /\ ~Deleting(i, n)

\* The task will give the archive its row, or take it away with the row.
Tends(t, n) ==
    /\ t.name = n
    /\ \/ t.pc \in {"erase", "failed"}
       \/ /\ t.pc \in Building
          /\ ~Stored(t.id) \/ row[t.id].status = "CREATING"
          /\ \A k \in Jobs : job[k].pc \in {"erase", "delete"} => job[k].id # t.id
          /\ ~(script.pc = "mark" /\ script.from.of = t.id)

NamedForm == \A n \in Names : archive[n] # NoFile /\ n \notin orphaned =>
    Keeps(n) \/ (\E j \in Jobs : Tends(job[j], n)) \/ script.name = n

\* Who is not a plan is at work.
LEMMA AtWork ==
    ASSUME StandInv, NEW j \in Jobs, job[j].pc \in Acting
    PROVE  j \in Working
  BY DEF StandInv, KindForm, Working, Acting, Building, Planning

\* Who is left in the middle is known.
LEMMA Leaves ==
    ASSUME StandInv, HistoryNext, NEW n \in Names, NEW j \in Jobs, job[j].pc \in Acting, job[j].name = n,
           ApiRestart \/ RestoreRestart \/ Failed(j) \/ StepFails(j)
    PROVE  n \in orphaned'
<1>1. n \in Abandoned
  BY AtWork DEF Abandoned
<1> QED  BY <1>1 DEF HistoryNext, Track

LEMMA KeepsStay ==
    ASSUME BackupsInv, StandInv, Next, ~RestoreTable, NEW n \in Names, Keeps(n), archive'[n] # NoFile
    PROVE  Keeps(n)'
<1>1. PICK i \in Ids : Stored(i) /\ row[i].name = n /\ ~Deleting(i, n)
  BY DEF Keeps
<1>2. row'[i] # NoRow /\ row'[i].name = n
  <2>1. ASSUME NEW j \in Jobs, job[j].pc = "delete", job[j].id = i PROVE FALSE
    BY <1>1, <2>1 DEF Deleting, At
  <2>2. ASSUME NEW j \in Jobs, Records(j, i) PROVE FALSE
    <3>1. Builder(job[j], i) /\ RowForm(i, row[i], made, job) /\ Placeholder \notin Names
      BY <2>2, TypesKnown, BackupsAssumption DEF Records, Builder, Building
    <3> QED  BY <1>1, <3>1 DEF RowForm, Stored
  <2>3. i # made + 1 /\ i # script.id
    BY <1>1, TypesKnown, Numbers DEF RowForm, Stored, StandInv, SafeForm
  <2> QED  BY <1>1, <2>1, <2>2, <2>3, RowsMove DEF RowMoves, Restates, Stored
<1>3. ASSUME NEW j \in Jobs, job'[j].id = i, job'[j].pc = "delete" \/ (job'[j].pc = "erase" /\ job'[j].name # n)
      PROVE  FALSE
  <2>1. CASE job'[j] = job[j]
    BY <1>1, <1>3, <2>1 DEF Deleting, At
  <2>2. CASE Erase(j) /\ job[j].pc = "erase" /\ job'[j].id = job[j].id
    <3>1. CASE job[j].name = n
      BY <2>2, <3>1 DEF Erase, Erased
    <3>2. CASE job[j].name # n
      BY <1>1, <1>3, <2>2, <3>2 DEF Deleting, At
    <3> QED  BY <3>1, <3>2
  <2>3. CASE job'[j].pc = "erase" /\ job'[j].name = row[job'[j].id].name
    BY <1>1, <1>3, <2>3
  <2> QED  BY <1>3, <2>1, <2>2, <2>3, TasksMove DEF TaskMoves, Acting, Building
<1> QED  BY <1>2, <1>3 DEF Keeps, Stored, Deleting, At

\* The task goes on, or is done, or is left.
LEMMA TendsStay ==
    ASSUME BackupsInv, StandInv, HistoryNext, ~RestoreTable, NEW n \in Names, n \notin orphaned', archive'[n] # NoFile,
           NEW j \in Jobs, Tends(job[j], n)
    PROVE  Keeps(n)' \/ Tends(job[j], n)'
<1>0. Next /\ job[j].name = n /\ WorkOwned /\ TaskMoves(j) /\ job[j].pc \in Building \cup {"failed", "erase"}
  BY TasksMove DEF HistoryNext, StandInv, Tends
<1> DEFINE i == job[j].id
<1>1. ~(ApiRestart \/ RestoreRestart \/ Failed(j) \/ StepFails(j))
  BY <1>0, Leaves DEF Acting
<1>2. ~Erase(j)
  BY <1>0 DEF Erase, Erased
\* What a build needs to go on.
<1>3. ASSUME job[j].pc \in Building, job'[j].pc \in Building, job'[j].id = i, job'[j].name = n
      PROVE  Tends(job[j], n)'
  <2>1. i \in Ids /\ i <= made /\ Builder(job[j], i) /\ Builder(job'[j], i)
    BY <1>0, <1>3, TypesKnown DEF JobForm, Builder
  <2>2. /\ ~Stored(i) \/ row[i].status = "CREATING"
        /\ \A k \in Jobs : job[k].pc \in {"erase", "delete"} => job[k].id # i
        /\ ~(script.pc = "mark" /\ script.from.of = i)
    BY <1>3 DEF Tends, Building
  <2>3. row'[i] = NoRow \/ row'[i].status = "CREATING"
    <3>1. ASSUME NEW k \in Jobs, Records(k, i) PROVE FALSE
      <4>1. Builder(job[k], i) /\ job'[k].pc \in {"idle", "failed"}
        BY <3>1 DEF Records, Builder, Building
      <4>2. k = j
        BY <1>0, <2>1, <4>1, TypesKnown
      <4> QED  BY <1>3, <4>1, <4>2 DEF Building
    <3>2. ASSUME NEW k \in Jobs, job[k].pc = "failed", job[k].id = i PROVE FALSE
      BY <2>1, <3>2 DEF StandInv, DoneForm
    <3>3. ASSUME NEW o \in Owners, NEW t \in work[o], t.do = "row", t.id = i PROVE FALSE
      BY <2>1, <3>3 DEF StandInv, DoneForm
    <3>4. ~(RestoreMark /\ i = script.from.of)
      BY <2>2 DEF RestoreMark
    <3>5. i # script.id
      BY <2>1, Numbers DEF BackupsInv, ScriptForm
    <3>6. RowMoves(i) /\ i # made + 1
      BY <1>0, <2>1, RowsMove, TypesKnown
    <3> QED  BY <2>2, <3>1, <3>2, <3>3, <3>4, <3>5, <3>6 DEF RowMoves, Restates, Stored
  <2>4. ASSUME NEW k \in Jobs, job'[k].pc \in {"erase", "delete"}, job'[k].id = i PROVE FALSE
    BY <1>0, <2>2, <2>4, TasksMove DEF TaskMoves, Acting, Building
  <2>5. ~(script'.pc = "mark" /\ script'.from.of = i)
    <3>1. IdleScript.pc = "idle"
      BY DEF IdleScript
    <3> QED  BY <1>0, <2>2, <3>1, ScriptMove DEF ScriptMoves
  <2> QED  BY <1>3, <2>3, <2>4, <2>5 DEF Tends, Stored
<1>4. CASE job'[j] = job[j]
  BY <1>0, <1>3, <1>4 DEF Tends
<1>5. CASE Dump(j) \/ Tar(j) \/ AuditFails(j)
  <2>1. job'[j].pc \in {"tar", "ready", "failed"}
    <3>1. job \in [Jobs -> Job]
      BY <1>0, TypesKnown
    <3>2. ASSUME NEW pc, Go(j, pc) PROVE job'[j].pc = pc
      BY <3>1, <3>2 DEF Go, Job
    <3>3. CASE Tar(j)
      BY <3>1, <3>2, <3>3 DEF Tar, Broken, Job
    <3> QED  BY <1>5, <3>2, <3>3 DEF Dump, Broken, AuditFails
  <2>2. job[j].pc \in Building
    BY <1>5 DEF Dump, Tar, AuditFails, At, Building
  <2>3. job'[j].id = i /\ job'[j].name = n
    BY <1>0, <2>1, <2>2 DEF TaskMoves, Acting, Building, Insert, At
  <2> QED  BY <1>3, <2>1, <2>2, <2>3 DEF Tends, Building
<1>6. CASE Ready(j)
  <2>1. job[j].pc = "ready" /\ i \in Ids /\ row \in [Ids -> Row \cup {NoRow}] /\ job \in [Jobs -> Job]
    BY <1>0, <1>6, TypesKnown DEF Ready, At, Building
  <2>2. CASE ~Stored(i)
    <3>1. Go(j, "failed")
      BY <1>6, <2>2 DEF Ready
    <3>2. job'[j].pc = "failed" /\ job'[j].name = n
      BY <1>0, <2>1, <3>1 DEF Go, Job
    <3> QED  BY <3>2 DEF Tends
  <2>3. CASE Stored(i)
    <3>1. MadeReady(j) /\ End(j)
      BY <1>6, <2>3 DEF Ready
    <3>2. row'[i] # NoRow /\ row'[i].name = n
      <4>1. RowMoves(i) /\ Next
        BY <1>0, <2>1, RowsMove
      <4> DEFINE r == [row[i] EXCEPT !.status = "READY", !.name = n, !.sum = job[j].sum]
      <4>2. row[i] \in Row /\ n \in Names /\ job[j].sum \in Checksum /\ NoRow \notin Row
        BY <1>0, <2>1, <2>3, TypesKnown, Files DEF Stored, JobForm
      <4>3. r \in Row /\ r.name = n
        BY <4>2 DEF Row
      <4>4. row'[i] = r
        BY <1>0, <2>1, <3>1 DEF MadeReady
      <4> QED  BY <4>2, <4>3, <4>4
    <3>3. \A k \in Jobs : job'[k].pc \in {"erase", "delete"} => job'[k].id # i
      <4>1. \A k \in Jobs : job'[k] = job[k] \/ job'[k] = IdleJob
        BY <2>1, <3>1 DEF End
      <4> QED  BY <2>1, <4>1, Numbers DEF Tends, Building
    <3> QED  BY <2>1, <3>2, <3>3 DEF Keeps, Deleting, Stored, At
  <2> QED  BY <2>2, <2>3
<1> QED  BY <1>0, <1>1, <1>2, <1>4, <1>5, <1>6, TaskLeaves

LEMMA NamedAfter ==
    ASSUME BackupsInv, StandInv, NamedForm, HistoryNext
    PROVE  NamedForm'
<1> SUFFICES ASSUME NEW n \in Names, archive'[n] # NoFile, n \notin orphaned'
             PROVE  Keeps(n)' \/ (\E j \in Jobs : Tends(job[j], n)') \/ script'.name = n
  BY DEF NamedForm
<1>0. Next /\ n \notin orphaned
  BY DEF HistoryNext, Track
<1>1. CASE RestoreTable
  <2>1. n \notin LeftBehind'
    BY <1>1 DEF HistoryNext, Track
  <2> QED  BY <2>1 DEF LeftBehind, Keeps
<1>2. ASSUME NEW j \in Jobs, Packs(j, n) PROVE \E k \in Jobs : Tends(job[k], n)'
  <2> DEFINE i == job[j].id
  <2>1. /\ job[j].pc = "tar" /\ Builder(job[j], i) /\ i \in Ids /\ job'[j].pc = "ready" /\ Tar(j)
    BY <1>0, <1>2, TypesKnown DEF Packs, Building
  <2>2. row' = row /\ script' = script
    BY <2>1 DEF Tar
  <2>3. job'[j].name = n /\ job'[j].id = i
    BY <1>0, <1>2, <2>1, TasksMove, TarPacks DEF TaskMoves, Acting, Packs, Insert, At, Building
  <2>4. row[i] = NoRow \/ row[i].status = "CREATING"
    BY <2>1 DEF StandInv, StatusTables, StatusTable, StatusForm
  <2>5. ASSUME NEW k \in Jobs, job'[k].pc \in {"erase", "delete"}, job'[k].id = i PROVE FALSE
    <3>1. k # j
      BY <2>1, <2>5
    <3>2. job'[k] = job[k]
      <4>1. job \in [Jobs -> Job]
        BY <1>0, TypesKnown
      <4> QED  BY <2>1, <3>1, <4>1 DEF Tar, Broken, Go
    <3> QED  BY <2>1, <2>5, <3>2 DEF StandInv, DoneForm
  <2>6. ~(script.pc = "mark" /\ script.from.of = i)
    BY <2>1 DEF StandInv, FilesForm, Unpacked
  <2> QED  BY <2>1, <2>2, <2>3, <2>4, <2>5, <2>6 DEF Tends, Building, Stored
<1>3. ASSUME NEW j \in Jobs, StepFails(j), job[j].pc = "tar", job[j].name = n PROVE FALSE
  BY <1>3, Leaves DEF Acting, Building
<1>4. ASSUME archive'[n] = archive[n], ~RestoreTable
      PROVE  Keeps(n)' \/ (\E j \in Jobs : Tends(job[j], n)') \/ script'.name = n
  <2>1. CASE Keeps(n)
    BY <1>0, <1>4, <2>1, KeepsStay
  <2>2. ASSUME NEW j \in Jobs, Tends(job[j], n) PROVE Keeps(n)' \/ \E k \in Jobs : Tends(job[k], n)'
    BY <1>4, <2>2, TendsStay
  <2>3. CASE script.name = n
    <3>1. script.id # None /\ script.id \in Ids
      BY <1>0, <2>3, BackupsAssumption, TypesKnown DEF StandInv, SafeForm, Script
    <3>2. ~ScriptFails
      <4>1. ASSUME ScriptFails PROVE n \in Abandoned
        BY <2>3, <4>1 DEF Abandoned
      <4> QED  BY <4>1 DEF HistoryNext, Track
    <3>3. script.pc \notin {"idle", "restart"}
      BY <3>1 DEF StandInv, SafeForm, BackupsInv, ScriptForm
    <3>4. CASE RestoreMark
      <4>1. row'[script.id] # NoRow /\ row'[script.id].name = n
        <5>1. RowMoves(script.id)
          BY <1>0, <1>4, <3>1, RowsMove
        <5> DEFINE sum == [of |-> script.id, parts |-> Parts]
        <5>2. sum \in Checksum
          BY <3>1 DEF Checksum
        <5> HIDE DEF sum
        <5>3. row'[script.id] = NewRow("READY", n, sum)
          BY <2>3, <3>1, <3>4 DEF RestoreMark, sum
        <5>4. NewRow("READY", n, sum) \in Row /\ NewRow("READY", n, sum).name = n
          BY <5>2 DEF NewRow, Row, BackupsInv, TypeOK
        <5> QED  BY <5>3, <5>4, Files
      <4>2. \A j \in Jobs : job'[j].pc \in {"erase", "delete"} => job'[j].id # script.id
        BY <3>4 DEF RestoreMark, StandInv, DoneForm
      <4> QED  BY <3>1, <4>1, <4>2 DEF Keeps, Deleting, Stored, At
    <3> QED  BY <1>0, <1>4, <2>3, <3>2, <3>3, <3>4, ScriptMove DEF ScriptMoves
  <2> QED  BY <1>0, <2>1, <2>2, <2>3, <1>4 DEF NamedForm
<1>5. CASE Guards(n)
  BY <1>5 DEF Guards
<1> QED  BY <1>0, <1>1, <1>2, <1>3, <1>4, <1>5, ArchivesMove DEF ArchiveMoves

-------------------------------------------------------------------------------
(* The theorems about the history.                                         *)

HistoryInv == BackupsInv /\ StandInv /\ ReadyInv /\ NamedForm

LEMMA HistoryAlways == HistorySpec => []HistoryInv
<1>1. HistoryInit => HistoryInv
  <2> SUFFICES ASSUME HistoryInit PROVE HistoryInv
    OBVIOUS
  <2>1. Init /\ spoilt = {} /\ orphaned = {}
    BY DEF HistoryInit
  <2>2. /\ \A i \in Ids : row[i] = NoRow
        /\ \A n \in Names : archive[n] = NoFile /\ script.name # n
        /\ \A j \in Jobs : job[j].pc = "idle" /\ job[j].kind = "none" /\ job[j].name = None
        /\ \A o \in Owners : work[o] = {}
        /\ script.id = None
    BY <2>1, BackupsAssumption DEF Init, NoTable, IdleJob, IdleScript
  <2>3. \A n \in Names : \A i \in Claimants(n) : \E j \in Jobs : job[j].name = n
    BY <2>2 DEF Claimants, Stored, Working
  <2>4. SharedForm
    BY <2>2, <2>3, BackupsAssumption DEF SharedForm, Shared
  <2>5. ReadyForm /\ BuildForm /\ GuardForm
    BY <2>2 DEF ReadyForm, BuildForm, GuardForm, Stored
  <2>6. NamedForm
    BY <2>2 DEF NamedForm
  <2> QED  BY <2>1, <2>4, <2>5, <2>6, BackupsInit, StandInit DEF HistoryInv, ReadyInv
<1>2. HistoryInv /\ [HistoryNext]_historyVars => HistoryInv'
  <2>1. CASE HistoryNext
    <3>1. ASSUME HistoryInv, HistoryNext PROVE HistoryInv'
      <4>1. BackupsInv' /\ StandInv'
        BY <3>1, BackupsStep, StandStep DEF HistoryInv, HistoryNext
      <4>2. ReadyInv'
        BY <3>1, Spoils, ReadyAfter, BuildAfter, GuardAfter DEF HistoryInv, ReadyInv
      <4>3. NamedForm'
        BY <3>1, NamedAfter DEF HistoryInv
      <4> QED  BY <4>1, <4>2, <4>3 DEF HistoryInv
    <3> QED  BY <2>1, <3>1
  <2>2. CASE UNCHANGED historyVars
    <3> SUFFICES ASSUME HistoryInv PROVE HistoryInv'
      OBVIOUS
    <3>1. BackupsInv' /\ StandInv'
      BY <2>2, BackupsStep, StandStep DEF HistoryInv, historyVars
    <3>2. SharedForm' /\ ReadyForm' /\ BuildForm' /\ GuardForm'
      <4>1. SharedForm'
        BY <2>2 DEF HistoryInv, ReadyInv, historyVars, vars, SharedForm, Shared, Claimants, Stored, Working
      <4>2. ReadyForm' /\ BuildForm' /\ GuardForm'
        BY <2>2 DEF HistoryInv, ReadyInv, historyVars, vars, ReadyForm, BuildForm, GuardForm, Intact, Removing, Stored, At
      <4> QED  BY <4>1, <4>2
    <3>3. NamedForm'
      BY <2>2 DEF HistoryInv, historyVars, vars, NamedForm, Keeps, Tends, Deleting, Stored, At
    <3> QED  BY <3>1, <3>2, <3>3 DEF HistoryInv, ReadyInv
  <2> QED  BY <2>1, <2>2
<1> QED  BY <1>1, <1>2, PTL DEF HistorySpec

\* A row that is READY can be downloaded and restored from: its archive is on the
\* disk, is its own, has the recorded checksum, the dump and the manifest
\* (ReadyRestorable).
THEOREM ReadyStaysRestorable == HistorySpec => []ReadyRestorable
<1>1. ASSUME HistoryInv PROVE ReadyRestorable
  <2> SUFFICES ASSUME NEW i \in Ids \ spoilt, Stored(i), row[i].status = "READY", ~Removing(i)
               PROVE  Downloadable(i) /\ CanRestore(i) /\ archive[row[i].name].of = i
    BY DEF ReadyRestorable
  <2>1. Intact(row[i].name, row[i].sum)
    BY <1>1 DEF HistoryInv, ReadyInv, ReadyForm
  <2>2. row[i].name # Placeholder /\ row[i].sum.of = i
    BY <1>1 DEF HistoryInv, BackupsInv, TablesForm, TableForm, RowForm, Stored
  <2> QED  BY <2>1, <2>2 DEF Downloadable, CanRestore, Intact, ChecksumOf
<1> QED  BY <1>1, HistoryAlways, PTL

\* Every archive has a row that retention can find it by, or a task at work on it;
\* the others were left by a build that failed or by a table that was replaced
\* (ArchivesNamed).
THEOREM ArchivesStayNamed == HistorySpec => []ArchivesNamed
<1>1. ASSUME HistoryInv PROVE ArchivesNamed
  <2> SUFFICES ASSUME NEW n \in Nameless, n \notin orphaned PROVE Handled(n)
    BY DEF ArchivesNamed
  <2>1. n \in Names /\ archive[n] # NoFile /\ ~Keeps(n)
    BY DEF Nameless, Keeps
  <2>2. ASSUME NEW j \in Jobs, Tends(job[j], n) PROVE Handled(n)
    <3>1. j \in Working
      BY <1>1, <2>2, AtWork DEF HistoryInv, Tends, Acting
    <3> QED  BY <2>2, <3>1 DEF Handled, Tends
  <2> QED  BY <1>1, <2>1, <2>2 DEF HistoryInv, NamedForm, Handled
<1> QED  BY <1>1, HistoryAlways, PTL
===============================================================================
