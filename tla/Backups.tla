------------------------------- MODULE Backups -------------------------------
(* Database backups (ops/backup): the job inserts a running row, dumps, stores  *)
(* the artifact and completes the row; a retry starts with a row of its own.     *)
EXTENDS Naturals, FiniteSets, Rows

CONSTANTS
    BackupIds,   \* rows
    BWorkers,    \* workers of the backup queue
    BNone        \* no row

VARIABLES
    backups,   \* ops_backups: status, and whether a path is written
    artifacts, \* what the storage holds
    bruns,     \* the row each worker fills, and how far it is
    abandoned  \* rows whose worker died, or whose last statement failed

bkvars == <<backups, artifacts, bruns, abandoned>>

Backup == [status : {"running", "completed", "failed"}, stored : BOOLEAN]

ASSUME BackupsAssumption == NoRow \notin Backup /\ BNone \notin BackupIds

RIdle == [at |-> "idle", id |-> BNone]

BackupsInit ==
    /\ backups = [b \in BackupIds |-> NoRow]
    /\ artifacts = {} /\ abandoned = {}
    /\ bruns = [w \in BWorkers |-> RIdle]

\* handleBackupDB: InsertBackup of a running row, without an expiry.
InsertBackup(w, b) ==
    /\ bruns[w] = RIdle /\ backups[b] = NoRow
    /\ backups' = [backups EXCEPT ![b] = [status |-> "running", stored |-> FALSE]]
    /\ bruns' = [bruns EXCEPT ![w] = [at |-> "dump", id |-> b]]
    /\ UNCHANGED <<artifacts, abandoned>>

MutSetBackupStatus(w) == UNCHANGED <<backups, abandoned>>

\* SetBackupStatus: its own error is ignored.
SetBackupStatus(w) ==
    \/ backups' = [backups EXCEPT ![bruns[w].id].status = "failed"] /\ UNCHANGED abandoned
    \/ abandoned' = abandoned \cup {bruns[w].id} /\ UNCHANGED backups

\* The dump or the store fails: the job is to be retried.
BackupFails(w) ==
    /\ bruns[w].at \in {"dump", "store"}
    /\ SetBackupStatus(w)
    /\ bruns' = [bruns EXCEPT ![w] = RIdle]
    /\ UNCHANGED artifacts

Dump(w) == bruns[w].at = "dump" /\ bruns' = [bruns EXCEPT ![w].at = "store"] /\ UNCHANGED <<backups, artifacts, abandoned>>

Store(w) ==
    /\ bruns[w].at = "store"
    /\ artifacts' = artifacts \cup {bruns[w].id}
    /\ bruns' = [bruns EXCEPT ![w].at = "complete"]
    /\ UNCHANGED <<backups, abandoned>>

CompleteBackup(w) ==
    /\ bruns[w].at = "complete"
    /\ \/ backups' = [backups EXCEPT ![bruns[w].id] = [status |-> "completed", stored |-> TRUE]] /\ UNCHANGED abandoned
       \/ abandoned' = abandoned \cup {bruns[w].id} /\ UNCHANGED backups
    /\ bruns' = [bruns EXCEPT ![w] = RIdle]
    /\ UNCHANGED artifacts

BackupCrashes(w) ==
    /\ bruns[w] # RIdle
    /\ abandoned' = abandoned \cup {bruns[w].id}
    /\ bruns' = [bruns EXCEPT ![w] = RIdle]
    /\ UNCHANGED <<backups, artifacts>>

BackupsNext ==
    \E w \in BWorkers :
        \/ BackupFails(w) \/ Dump(w) \/ Store(w) \/ CompleteBackup(w) \/ BackupCrashes(w)
        \/ \E b \in BackupIds : InsertBackup(w, b)

BackupsSpec == BackupsInit /\ [][BackupsNext]_bkvars

-----------------------------------------------------------------------------
(* Properties *)

\* A completed row names an artifact that is in the storage.
CompletedIsStored ==
    \A b \in BackupIds :
        backups[b] # NoRow => backups[b] \in Backup /\ (backups[b].status = "completed" => backups[b].stored /\ b \in artifacts)

\* A running row has its own worker, unless that died or could not write the outcome:
\* nothing ever settles such a row.
RunningIsAttended ==
    \A b \in BackupIds :
        (backups[b] # NoRow /\ backups[b].status = "running")
        => b \in abandoned \/ Cardinality({w \in BWorkers : bruns[w].id = b}) = 1

\* The status of a backup tells whether its artifact is there or still being made.
BackupsTrue == CompletedIsStored /\ RunningIsAttended
=============================================================================
