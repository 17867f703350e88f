----------------------------- MODULE BackupsHistory -----------------------------
(***************************************************************************)
(* Backups with history variables: why a row has lost its archive, and why *)
(* an archive has lost its row.                                            *)
(***************************************************************************)
EXTENDS Backups

VARIABLES
    spoilt,   \* rows whose archive another task, a fault or a restore took
    orphaned  \* archives left behind by a build that failed or a replaced table

historyVars == <<vars, spoilt, orphaned>>

\* Tasks that make or remove archives.
Working == {j \in Jobs : job[j].kind # "plan"}

\* Rows and tasks that go by the name of an archive.
Claimants(n) ==
    {i \in Ids : Stored(i) /\ row[i].name = n}
    \cup {job[j].id : j \in {k \in Working : job[k].name = n}}
    \cup {t.id : t \in {u \in UNION {work[o] : o \in Owners} : u.do = "file" /\ u.name = n}}
    \cup (IF script.name = n THEN {script.id} ELSE {})

\* Two archives begun in one second, also when a restore brings one back
\* whose name was given again.
Shared == Ids \cap UNION {c \in {Claimants(n) : n \in Names} : \E i, k \in c : i # k}

\* A sweep emptied the directory of an archive being built.
SweptAway == {i \in Ids :
    /\ \E j \in Working : job[j].id = i
    /\ dir[i] # NoDir /\ dir[i].parts # {}
    /\ \E o \in Owners : RemoveContents(o)
    /\ dir'[i] = Emptied}

\* The archive is gone, the row would have followed.
HalfRemoved ==
    LET marking == {t.id : t \in {u \in UNION {work[o] : o \in Owners} : u.do = "row"}}
        deleting == {job[j].id : j \in {k \in Jobs : At(k, "delete")}}
        left == {t.id : t \in {u \in UNION {work'[o] : o \in Owners} : u.do = "row"}}
                \cup {job'[j].id : j \in {k \in Jobs : At(k, "delete")'}}
    IN  {i \in (marking \cup deleting) \ left : row'[i] = row[i]}

\* Rows the dump brings back after their archive was removed or spoilt.
BroughtBack == {i \in Ids :
    RestoreTable /\ row'[i] # NoRow /\ row'[i].status = "READY" /\ ~CanRestore(i)'}

Nameless == {n \in Names :
    archive[n] # NoFile /\ \A i \in Ids : Stored(i) => row[i].name # n}

\* A removal is about to delete the row and not the archive.
Deleting(i, n) == \E j \in Jobs :
    /\ job[j].id = i
    /\ At(j, "delete") \/ (At(j, "erase") /\ job[j].name # n)

\* Archives without a row that will stay.
LeftBehind == {n \in Names :
    archive[n] # NoFile /\ \A i \in Ids : Stored(i) /\ row[i].name = n => Deleting(i, n)}

Handled(n) ==
    \/ \E j \in Working : job[j].name = n
    \/ script.name = n

\* Tasks that do not finish what they have begun.
Abandoned == {job[j].name : j \in {k \in Working : ApiRestart \/ RestoreRestart \/ Failed(k) \/ StepFails(k)}}
             \cup IF ScriptFails THEN {script.name} ELSE {}

Track ==
    /\ spoilt' = spoilt \cup Shared' \cup SweptAway \cup HalfRemoved \cup BroughtBack
    /\ orphaned' = orphaned \cup (Abandoned \cap Names) \cup (IF RestoreTable THEN LeftBehind' ELSE {})

HistoryInit == Init /\ spoilt = {} /\ orphaned = {}
HistoryNext == Next /\ Track
HistorySpec == HistoryInit /\ [][HistoryNext]_historyVars
FairHistorySpec == HistorySpec /\ Fairness

-------------------------------------------------------------------------------
Removing(i) ==
    \/ \E o \in Owners : \E t \in work[o] : t.id = i /\ t.do = "row"
    \/ \E j \in Jobs : At(j, "delete") /\ job[j].id = i

\* A row that is READY can be downloaded and restored from: its archive is on the
\* disk, is its own, has the recorded checksum, the dump and the manifest.
ReadyRestorable == \A i \in Ids \ spoilt :
    Stored(i) /\ row[i].status = "READY" /\ ~Removing(i)
        => Downloadable(i) /\ CanRestore(i) /\ archive[row[i].name].of = i

\* Every archive has a row that retention can find it by, or a task at work on it;
\* the others were left by a build that failed or by a table that was replaced.
ArchivesNamed == \A n \in Nameless : Handled(n) \/ n \in orphaned

\* Retention takes no archive before its time.
KeptUntilExpired == [][\A i \in Ids \ spoilt :
    /\ Stored(i) /\ row[i].status = "READY" /\ row[i].at + Retention >= now
    /\ archive[row[i].name] # NoFile
    /\ \A j \in Jobs : At(j, "erase") => job[j].name # row[i].name
    => archive'[row[i].name] # NoFile]_historyVars

\* A plan that says that the backup can be restored names an archive restore.sh
\* takes and that is the backup's own, whatever was written, pruned or removed
\* while the plan read it piece by piece.
PlanHonest == [][\A j \in Calls : Answers(j, TRUE) =>
    /\ Accepted(job[j].name, {"--yes-restore"})
    /\ archive[job[j].name].of = job[j].id]_historyVars

\* Automatic backups go on after every failure: once time and faults are used up,
\* the last backup is not overdue, unless a row begun just before stands in the way.
BackupsKeepComing == <>[](~Due \/ RecentlyBegun)
===============================================================================
