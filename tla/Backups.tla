------------------------------ MODULE Backups ------------------------------
(***************************************************************************)
(* Archives of the database and their restore (maintenance.py, the backup  *)
(* routes of admin_routes.py, the job automatic_backup of job_runner.py).  *)
(* An archive is a copy of the database, taken in one piece, and then a    *)
(* file that grows until it is closed; retention looks at the times of     *)
(* files and not into them.  The database stands for the rows that were    *)
(* committed, time for whether the next automatic archive is due.          *)
(***************************************************************************)
EXTENDS Naturals, FiniteSets

CONSTANTS
    Keepers,      \* requests of administrators, and executions of the job
    NoArchive,       \* no archive
    MaxRetained,  \* how many automatic archives a setting may keep
    MaxRows,      \* bound: rows ever committed
    MaxArchives,  \* bound: archives ever begun
    MaxStops      \* bound: passes that fail or die

ASSUME BackupsAssumption ==
    /\ MaxRetained \in Nat \ {0} /\ MaxRows \in Nat
    /\ MaxArchives \in Nat /\ MaxStops \in Nat /\ NoArchive \notin Nat

VARIABLES
    stored,       \* the database: its committed rows
    retained,     \* the setting: how many automatic archives are kept
    lastRow,      \* the newest row ever committed
    due,          \* the interval has passed since automatic_backup_last_run
    files,        \* the archives, in the order in which they were begun
    mtimes,       \* how many times a file's time was set
    kpc,          \* each keeper: where it is
    order,        \* each keeper: what it does
    proven,       \* history: an automatic run reported success
    muddled,      \* history: retention counted, or removed, an unfinished file
    amid,         \* history: rows committed after a restore had made its safety copy
    stops

backupVars == <<stored, retained, lastRow, due, files, mtimes, kpc, order, proven, muddled, amid,
                stops>>

Archives == 1..MaxArchives
Rows == 1..MaxRows
Archive == [kind : {"none", "auto", "manual", "safety"}, state : {"none", "open", "whole", "gone"},
             holds : SUBSET Rows, at : Nat]
Order    == [op : {"none", "auto", "manual", "restore", "settings"}, file : Archives \cup {NoArchive},
             retained : 1..MaxRetained, kept : SUBSET Archives, victims : SUBSET Archives,
             upload : SUBSET Rows]
NoOrder  == [op |-> "none", file |-> NoArchive, retained |-> 1, kept |-> {}, victims |-> {},
             upload |-> {}]

BackupsTypeOK ==
    /\ stored \subseteq Rows /\ retained \in 1..MaxRetained /\ lastRow \in 0..MaxRows /\ due \in BOOLEAN
    /\ files \in [Archives -> Archive] /\ mtimes \in Nat
    /\ kpc \in [Keepers -> {"idle", "copy", "zip", "replace", "list", "prune"}]
    /\ order \in [Keepers -> Order]
    /\ proven \in BOOLEAN /\ muddled \in BOOLEAN /\ amid \subseteq Rows
    /\ stops \in 0..MaxStops

BackupsInit ==
    /\ stored = {} /\ retained = MaxRetained /\ lastRow = 0 /\ due = TRUE
    /\ files = [f \in Archives |-> [kind |-> "none", state |-> "none", holds |-> {}, at |-> 0]]
    /\ mtimes = 0
    /\ kpc = [k \in Keepers |-> "idle"] /\ order = [k \in Keepers |-> NoOrder]
    /\ proven = FALSE /\ muddled = FALSE /\ amid = {} /\ stops = 0

-----------------------------------------------------------------------------
(* The members, and time.                                                  *)

\* A restore that has made its safety copy and not replaced the database yet.
Replacing(k) == order[k].op = "restore" /\ kpc[k] \in {"zip", "replace"}
\* Any request that commits.
CommitRow ==
    /\ lastRow < MaxRows /\ lastRow' = lastRow + 1
    /\ stored' = stored \cup {lastRow + 1}
    /\ amid' = IF \E k \in Keepers : Replacing(k) THEN amid \cup {lastRow + 1} ELSE amid
    /\ UNCHANGED <<retained, due, files, mtimes, kpc, order, proven, muddled, stops>>
\* The interval passes, if the schedule is not paused.
IntervalPasses ==
    /\ ~due /\ due' = TRUE
    /\ UNCHANGED <<stored, retained, lastRow, files, mtimes, kpc, order, proven, muddled, amid, stops>>

-----------------------------------------------------------------------------
(* Archives: create_backup_archive.                                        *)

idleHistory == <<proven, muddled, amid, stops>>
Starts(k, op) ==
    /\ kpc[k] = "idle"
    /\ order' = [order EXCEPT ![k] = [NoOrder EXCEPT !.op = op, !.retained = retained]]

\* run_automatic_backup_once: the time of the run is set before it is made.
StartAuto(k, force) ==
    /\ Starts(k, "auto") /\ (force \/ due)
    /\ due' = FALSE /\ kpc' = [kpc EXCEPT ![k] = "copy"]
    /\ UNCHANGED <<stored, retained, lastRow, files, mtimes, idleHistory>>
StartManual(k) ==
    /\ Starts(k, "manual") /\ kpc' = [kpc EXCEPT ![k] = "copy"]
    /\ UNCHANGED <<stored, retained, lastRow, due, files, mtimes, idleHistory>>
\* restore_sqlite_from_upload: what is uploaded is readable, and was archived once.
StartRestore(k, f) ==
    /\ kpc[k] = "idle" /\ files[f].state = "whole"
    /\ order' = [order EXCEPT ![k] = [NoOrder EXCEPT !.op = "restore", !.upload = files[f].holds]]
    /\ kpc' = [kpc EXCEPT ![k] = "copy"]
    /\ UNCHANGED <<stored, retained, lastRow, due, files, mtimes, idleHistory>>
\* The settings are saved, then old archives are removed.
SaveSettings(k, n) ==
    /\ kpc[k] = "idle" /\ retained' = n
    /\ order' = [order EXCEPT ![k] = [NoOrder EXCEPT !.op = "settings", !.retained = n]]
    /\ kpc' = [kpc EXCEPT ![k] = "list"]
    /\ UNCHANGED <<stored, lastRow, due, files, mtimes, idleHistory>>

KindOf(op) == CASE op = "auto" -> "auto" [] op = "manual" -> "manual" [] OTHER -> "safety"
\* The copy of the database is taken, and the file of the archive opened.
CopyDatabase(k, f) ==
    /\ kpc[k] = "copy" /\ files[f].state = "none" /\ \A g \in 1..(f - 1) : files[g].state # "none"
    /\ files' = [files EXCEPT ![f] = [kind |-> KindOf(order[k].op), state |-> "open",
                                      holds |-> stored, at |-> mtimes + 1]]
    /\ mtimes' = mtimes + 1
    /\ order' = [order EXCEPT ![k].file = f] /\ kpc' = [kpc EXCEPT ![k] = "zip"]
    /\ UNCHANGED <<stored, retained, lastRow, due, idleHistory>>
\* The file may have been removed while it was written; then nobody finds it.
FinishArchive(k) ==
    LET f == order[k].file IN
    /\ kpc[k] = "zip" /\ mtimes' = mtimes + 1
    /\ files' = IF files[f].state = "open"
                THEN [files EXCEPT ![f].state = "whole", ![f].at = mtimes + 1] ELSE files
    /\ kpc' = [kpc EXCEPT ![k] = CASE order[k].op = "auto" -> "list"
                                   [] order[k].op = "restore" -> "replace"
                                   [] OTHER -> "idle"]
    /\ order' = IF order[k].op = "manual" THEN [order EXCEPT ![k] = NoOrder] ELSE order
    /\ UNCHANGED <<stored, retained, lastRow, due, idleHistory>>

-----------------------------------------------------------------------------
(* Restore: restore_backup_upload after its safety copy.                   *)

\* The settings are restored with the rest; the time of the last run is older.
ReplaceDatabase(k) ==
    /\ kpc[k] = "replace" /\ stored' = order[k].upload
    /\ due' \in {due, TRUE} /\ retained' \in 1..MaxRetained
    /\ kpc' = [kpc EXCEPT ![k] = "idle"] /\ order' = [order EXCEPT ![k] = NoOrder]
    /\ UNCHANGED <<lastRow, files, mtimes, idleHistory>>

-----------------------------------------------------------------------------
(* Retention: prune_backup_archives.                                       *)

Present(f) == files[f].state \in {"open", "whole"}
\* Mutant: safety copies are listed with the automatic archives.
ListedAll == {f \in Archives : files[f].kind # "manual" /\ Present(f)}
Listed == {f \in Archives : files[f].kind = "auto" /\ Present(f)}
\* Mutant: one less is kept.
NewestButOne(n) == {f \in Listed : Cardinality({g \in Listed : files[g].at > files[f].at}) < n - 1}
\* The newest, as many as are retained.
Newest(n) == {f \in Listed : Cardinality({g \in Listed : files[g].at > files[f].at}) < n}
BeingWritten(f) == \E k \in Keepers : kpc[k] = "zip" /\ order[k].file = f
Readable == {f \in Listed : files[f].state = "whole"}
\* Files that cannot be read take all places that are retained.
Crowded(n) ==
    Readable # {} /\ n <= Cardinality({g \in Listed : \A f \in Readable : files[g].at > files[f].at})
ListArchives(k) ==
    LET kept == Newest(order[k].retained)
        others == Listed \ kept IN
    /\ kpc[k] = "list" /\ kpc' = [kpc EXCEPT ![k] = "prune"]
    /\ order' = [order EXCEPT ![k].kept = kept, ![k].victims = others]
    /\ muddled' = (muddled \/ Crowded(order[k].retained) \/ \E f \in others : BeingWritten(f))
    /\ UNCHANGED <<stored, retained, lastRow, due, files, mtimes, proven, amid, stops>>
\* The times of all listed files are asked for once more, first of the kept.  A
\* file that is gone when it is removed is passed over.
Remove(k, f) ==
    /\ kpc[k] = "prune" /\ f \in order[k].victims /\ \A g \in order[k].kept : Present(g)
    /\ files' = [files EXCEPT ![f].state = "gone"]
    /\ order' = [order EXCEPT ![k].victims = @ \ {f}, ![k].kept = {}]
    /\ UNCHANGED <<stored, retained, lastRow, due, mtimes, kpc, idleHistory>>
\* Everything is removed; an automatic run reports its success.
EndPrune(k) ==
    /\ kpc[k] = "prune" /\ order[k].victims = {}
    /\ proven' = (proven \/ order[k].op = "auto")
    /\ kpc' = [kpc EXCEPT ![k] = "idle"] /\ order' = [order EXCEPT ![k] = NoOrder]
    /\ UNCHANGED <<stored, retained, lastRow, due, files, mtimes, muddled, amid, stops>>
\* Somebody else removed a file that was listed, or is being listed: asking for
\* its time raises an exception, which ends the pass.
PruneFails(k) ==
    /\ \/ kpc[k] = "prune" /\ \E g \in order[k].kept \cup order[k].victims : ~Present(g)
       \/ kpc[k] = "list" /\ \E l \in Keepers : kpc[l] = "prune" /\ order[l].victims # {}
    /\ kpc' = [kpc EXCEPT ![k] = "idle"] /\ order' = [order EXCEPT ![k] = NoOrder]
    /\ UNCHANGED <<stored, retained, lastRow, due, files, mtimes, idleHistory>>
\* The disk is full, or the process dies; a file that was begun stays as it is.
Stop(k) ==
    /\ kpc[k] # "idle" /\ stops < MaxStops /\ stops' = stops + 1
    /\ kpc' = [kpc EXCEPT ![k] = "idle"] /\ order' = [order EXCEPT ![k] = NoOrder]
    /\ UNCHANGED <<stored, retained, lastRow, due, files, mtimes, proven, muddled, amid>>

KeeperNext(k) ==
    \/ \E force \in BOOLEAN : StartAuto(k, force)
    \/ StartManual(k)
    \/ \E f \in Archives : StartRestore(k, f) \/ CopyDatabase(k, f) \/ Remove(k, f)
    \/ \E n \in 1..MaxRetained : SaveSettings(k, n)
    \/ FinishArchive(k) \/ ReplaceDatabase(k)
    \/ ListArchives(k) \/ EndPrune(k) \/ PruneFails(k) \/ Stop(k)
BackupsNext == CommitRow \/ IntervalPasses \/ \E k \in Keepers : KeeperNext(k)
BackupsSpec == BackupsInit /\ [][BackupsNext]_backupVars

-----------------------------------------------------------------------------
(* Properties.                                                             *)

\* After the first success of an automatic run there is always an automatic
\* archive that can be read, whoever prunes and fails, unless unfinished files
\* were counted as archives and pushed out those that can be read.
BackupRemains ==
    proven => muddled \/ Readable # {}

\* No restore loses a row: whatever was ever committed is in the database or
\* in a safety copy that can be read, unless it was committed between the
\* safety copy of a restore and its end.
RestoreLosesNothing ==
    \A n \in 1..lastRow :
        \/ n \in stored \/ n \in amid
        \/ \E f \in Archives : files[f].kind = "safety" /\ files[f].state = "whole"
                                 /\ n \in files[f].holds
=============================================================================
