------------------------------ MODULE DataFile ------------------------------
(***************************************************************************)
(* The database file app.db: opening it and bringing it to the schema of   *)
(* the running program (storage/sqlite.py, db.py), units of work on it,    *)
(* and the backup, compact and restore commands (maintenance.py, cli.py).  *)
(* A process may die between any two steps, and each step may fail.        *)
(*                                                                         *)
(* The content of a database is its schema_version, the versions whose     *)
(* tables and columns, and whose filled-in rows, it holds, and a number of *)
(* rows written.  SQLite in WAL mode: a commit goes to app.db-wal; the     *)
(* last connection to close folds that file into app.db and removes it; a  *)
(* process that dies leaves it; and whoever opens app.db reads what        *)
(* app.db-wal says, also when app.db has been exchanged meanwhile.         *)
(*                                                                         *)
(* One process has the file open at a time: the daemon holds daemon.lock,  *)
(* and the commands here ask for a stopped daemon.                         *)
(*                                                                         *)
(* An operator whose comment starts with "Mutant" is no part of the        *)
(* specification: it is the definition below it with a plausible bug.      *)
(***************************************************************************)
EXTENDS Integers

CONSTANTS
    MaxVersion,    \* SCHEMA_VERSION of the newest program there is
    MaxRows        \* bound: rows written

ASSUME DataFileAssumption == MaxVersion \in Nat \ {0} /\ MaxRows \in Nat

Content == [ver : 0..MaxVersion, tables : 0..MaxVersion,
            filled : 0..MaxVersion, rows : 0..MaxRows]
NoFile == [ver |-> 0]                \* no such file, or no open transaction

NewFile == [ver |-> 0, tables |-> 0, filled |-> 0, rows |-> 0]
OldDatabase == [ver |-> 1, tables |-> 1, filled |-> 1, rows |-> 0]

VARIABLES
    file, wal,     \* app.db and app.db-wal
    bak,           \* app.db.bak-vN
    copy, prior,   \* the newest backup, and the newest pre-restore copy
    txn,           \* what the open transaction would commit
    step,          \* the process that has app.db open
    code,          \* its SCHEMA_VERSION
    fromVersion,   \* `current' in migrate
    upkeep,        \* the maintenance command
    before         \* observation only: what a restore command found

dataVars == <<file, wal, bak, copy, prior, txn, step, code, fromVersion, upkeep, before>>
jobVars == <<copy, prior, upkeep, before>>

Read == IF wal # NoFile THEN wal ELSE file

AtLeast(a, b) == IF a > b THEN a ELSE b

ToWal(content) == wal' = content /\ UNCHANGED file

(* The last connection closes. *)
Fold == file' = Read /\ wal' = NoFile

-----------------------------------------------------------------------------
(* Opening: SQLiteStore.__init__, Database.__init__, migrate.              *)

(* Mutant: a backup that is there already is kept. *)
UpgradeFirstWithBackup(v, to) ==
    IF 0 < v /\ v < to /\ bak = NoFile THEN "unlink" ELSE "script"

UpgradeFirst(v, to) == IF 0 < v /\ v < to THEN "unlink" ELSE "script"

OpenDatabase ==
    /\ step = "closed"
    /\ upkeep = "none"
    /\ \E to \in 1..MaxVersion :
          code' = to /\ step' = UpgradeFirst(Read.ver, to)
    /\ fromVersion' = Read.ver
    /\ before' = NoFile
    /\ UNCHANGED <<file, wal, bak, copy, prior, txn, upkeep>>

(* _backup_db: removes the file of an earlier attempt, then copies.        *)
UnlinkBackup ==
    /\ step = "unlink"
    /\ bak' = NoFile
    /\ step' = "copy"
    /\ UNCHANGED <<file, wal, txn, code, fromVersion>> /\ UNCHANGED jobVars

CopyBackup ==
    /\ step = "copy"
    /\ bak' = Read
    /\ step' = "script"
    /\ UNCHANGED <<file, wal, txn, code, fromVersion>> /\ UNCHANGED jobVars

(* It runs before the `try' of migrate: an error is passed on. *)
BackupFails ==
    /\ step \in {"unlink", "copy"}
    /\ step' = "closed"
    /\ Fold
    /\ UNCHANGED <<bak, txn, code, fromVersion>> /\ UNCHANGED jobVars

(* Mutant: schema_version is written with the tables. *)
StampEarly == [Read EXCEPT !.tables = AtLeast(@, code), !.ver = code]

WithTables == [Read EXCEPT !.tables = AtLeast(@, code)]

(* _apply_schema up to its first commit: SCHEMA and the columns. *)
ApplyTables ==
    /\ step = "script"
    /\ ToWal(WithTables)
    /\ step' = "fill"
    /\ UNCHANGED <<bak, txn, code, fromVersion>> /\ UNCHANGED jobVars

(* _apply_schema, the rest: copied deliveries, fingerprints, defaults and  *)
(* the version, in one transaction.                                        *)
FillTables ==
    /\ step = "fill"
    /\ txn' = [Read EXCEPT !.filled = AtLeast(@, code), !.ver = code]
    /\ step' = "commit"
    /\ UNCHANGED <<file, wal, bak, code, fromVersion>> /\ UNCHANGED jobVars

CommitUpgrade ==
    /\ step = "commit"
    /\ ToWal(txn)
    /\ txn' = NoFile
    /\ step' = "open"
    /\ UNCHANGED <<bak, code, fromVersion>> /\ UNCHANGED jobVars

UpgradeFails ==
    /\ step \in {"script", "fill", "commit"}
    /\ step' = IF 0 < fromVersion /\ fromVersion < code THEN "restore" ELSE "close"
    /\ UNCHANGED <<file, wal, bak, txn, code, fromVersion>> /\ UNCHANGED jobVars

(* _restore_db: SQLite refuses a target with an open transaction, which an *)
(* error in the second part of _apply_schema leaves.                       *)
RestoreBackup ==
    /\ step = "restore"
    /\ IF txn = NoFile THEN ToWal(bak) ELSE UNCHANGED <<file, wal>>
    /\ step' = "close"
    /\ UNCHANGED <<bak, txn, code, fromVersion>> /\ UNCHANGED jobVars

-----------------------------------------------------------------------------
(* Units of work (transaction) and the end of a process.                   *)

BeginUnit ==
    /\ step = "open"
    /\ txn = NoFile                      \* otherwise BEGIN raises
    /\ Read.rows < MaxRows
    /\ txn' = [Read EXCEPT !.rows = @ + 1]
    /\ step' = "unit"
    /\ UNCHANGED <<file, wal, bak, code, fromVersion>> /\ UNCHANGED jobVars

CommitUnit ==
    /\ step = "unit"
    /\ ToWal(txn)
    /\ txn' = NoFile
    /\ step' = "open"
    /\ UNCHANGED <<bak, code, fromVersion>> /\ UNCHANGED jobVars

(* The block raises and is rolled back; or the commit raises, and nobody   *)
(* rolls back.                                                             *)
UnitFails ==
    /\ step = "unit"
    /\ txn' \in {NoFile, txn}
    /\ step' = "open"
    /\ UNCHANGED <<file, wal, bak, code, fromVersion>> /\ UNCHANGED jobVars

CloseDatabase ==
    /\ step \in {"open", "close"}
    /\ Fold
    /\ txn' = NoFile
    /\ step' = "closed"
    /\ UNCHANGED <<bak, code, fromVersion>> /\ UNCHANGED jobVars

DieWithDatabase ==
    /\ step # "closed"
    /\ txn' = NoFile
    /\ step' = "closed"
    /\ UNCHANGED <<file, wal, bak, code, fromVersion>> /\ UNCHANGED jobVars

-----------------------------------------------------------------------------
(* backup_database, compact_database and restore_database.                 *)

upgradeVars == <<bak, txn, step, code, fromVersion>>

(* Mutant: the target is replaced without a copy taken of it before. *)
RestoreAtOnce == "replace"

RestoreFirst == "check_prior"

StartJob ==
    /\ step = "closed"
    /\ upkeep = "none"
    /\ \/ upkeep' \in {"check", "check_compact"} /\ UNCHANGED before
       \/ copy # NoFile /\ upkeep' = RestoreFirst /\ before' = Read
    /\ UNCHANGED <<file, wal, copy, prior>> /\ UNCHANGED upgradeVars

(* integrity_check opens and closes its file. *)
CheckSource ==
    /\ \/ upkeep = "check" /\ upkeep' = "publish"
       \/ upkeep = "check_compact" /\ upkeep' = "publish_compact"
       \/ upkeep = "check_prior" /\ upkeep' = "publish_prior"
    /\ Fold
    /\ UNCHANGED <<copy, prior, before>> /\ UNCHANGED upgradeVars

(* The checked copy gets its name by os.replace. *)
PublishBackup ==
    /\ \/ upkeep = "publish" /\ upkeep' = "none"
       \/ upkeep = "publish_compact" /\ upkeep' = "vacuum"
    /\ copy' = Read
    /\ UNCHANGED <<file, wal, prior, before>> /\ UNCHANGED upgradeVars

(* VACUUM commits the same content; its connection is the only one. *)
Vacuum ==
    /\ upkeep = "vacuum"
    /\ upkeep' = "none"
    /\ Fold
    /\ UNCHANGED <<copy, prior, before>> /\ UNCHANGED upgradeVars

PublishPrior ==
    /\ upkeep = "publish_prior"
    /\ prior' = Read
    /\ upkeep' = "replace"
    /\ UNCHANGED <<file, wal, copy, before>> /\ UNCHANGED upgradeVars

(* os.replace of app.db by the checked temporary copy of the backup. *)
ReplaceTarget ==
    /\ upkeep = "replace"
    /\ file' = copy
    /\ upkeep' = "restored"
    /\ UNCHANGED <<wal, copy, prior, before>> /\ UNCHANGED upgradeVars

JobReturns ==
    /\ upkeep = "restored"
    /\ upkeep' = "none"
    /\ UNCHANGED <<file, wal, copy, prior, before>> /\ UNCHANGED upgradeVars

(* A check fails, a disk is full, the name is taken, or the process dies.  *)
JobFails ==
    /\ upkeep \notin {"none", "restored"}
    /\ upkeep' = "none"
    /\ UNCHANGED <<file, wal, copy, prior, before>> /\ UNCHANGED upgradeVars

-----------------------------------------------------------------------------

DataInit ==
    /\ file \in {NewFile, OldDatabase}
    /\ wal = NoFile
    /\ bak = NoFile
    /\ copy \in {NoFile, OldDatabase}
    /\ prior = NoFile
    /\ txn = NoFile
    /\ step = "closed"
    /\ code = 1
    /\ fromVersion = 0
    /\ upkeep = "none"
    /\ before = NoFile

DataNext ==
    \/ OpenDatabase \/ UnlinkBackup \/ CopyBackup \/ BackupFails
    \/ ApplyTables \/ FillTables \/ CommitUpgrade \/ UpgradeFails \/ RestoreBackup
    \/ BeginUnit \/ CommitUnit \/ UnitFails \/ CloseDatabase \/ DieWithDatabase
    \/ StartJob \/ CheckSource \/ PublishBackup \/ Vacuum \/ PublishPrior
    \/ ReplaceTarget \/ JobReturns \/ JobFails

DataSpec == DataInit /\ [][DataNext]_dataVars

-----------------------------------------------------------------------------
(* Properties.                                                             *)

(* A database that says it has a schema version has everything of it,      *)
(* wherever an upgrade failed or died, and also when the program was       *)
(* exchanged for an older one and back (sqlite.py 99-167): the next start  *)
(* would otherwise skip what is missing.                                   *)
VersionMeansUpgraded ==
    \A content \in {Read, bak, copy, prior} \ {NoFile} :
        content.ver <= content.tables /\ content.ver <= content.filled

(* No row is taken back but by the restore command: a failed upgrade goes  *)
(* back to a copy of its own attempt (sqlite.py 73-97, 194-215).           *)
UpgradeKeepsRows ==
    [][Read'.rows < Read.rows => upkeep = "replace" /\ upkeep' = "restored"]_dataVars

(* The restore command leaves what it found or what the backup holds, and  *)
(* in the second case a copy of what it found; when it reports success it  *)
(* is the second (maintenance.py 130-164).                                 *)
RestoreAtomic ==
    before # NoFile =>
        /\ Read = before \/ (Read = copy /\ prior = before)
        /\ upkeep = "restored" => Read = copy
=============================================================================
