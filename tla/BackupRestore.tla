----------------------------- MODULE BackupRestore -----------------------------
(***************************************************************************)
(* The maintenance of one database file: scheduled backups, which take no  *)
(* lock and run beside the server, the snapshot taken before a migration,  *)
(* and restore, which replaces the file (internal/database/backup.go and   *)
(* OpenWithLocation, backupBeforeMigration and pruneBackups in             *)
(* internal/database/database.go).                                         *)
(*                                                                         *)
(* A content is the version of the rows and the schema they are stored     *)
(* under; every committed ingest makes a new version, so that the counts   *)
(* compared by the code differ when the contents do. Committed rows are in *)
(* the write-ahead log until a checkpoint. Snapshot files are ordered by   *)
(* their name: kind, schema and time stamp. The database lock is taken as  *)
(* exclusive (see DatabaseLock).                                           *)
(***************************************************************************)
EXTENDS Integers, FiniteSets

CONSTANTS
  Schemas,     \* schema versions a database or a backup may have
  Keep,        \* backupRetention, and the retention of scheduled backups
  SharedDir,   \* do scheduled backups go to the directory "backups" too?
  MaxRows,     \* bound on committed ingests
  MaxFiles,    \* bound on snapshots ever written
  MaxFaults,   \* bound on crashes and failing calls
  Nothing,     \* no file, no connection
  Torn         \* the content of a file that was not completely written

Versions == 0..MaxRows
Contents == [rows : Versions, schema : Schemas]

ASSUME BackupAssumption ==
  /\ Schemas \subseteq 0..99
  /\ \E v \in Schemas : \A w \in Schemas : w <= v
  /\ Keep \in Nat \ {0} /\ SharedDir \in BOOLEAN
  /\ MaxRows \in Nat \ {0} /\ MaxFiles \in Nat /\ MaxFaults \in Nat
  /\ Nothing \notin Contents /\ Torn \notin Contents /\ Nothing # Torn

\* databaseSchemaVersion
Current == CHOOSE v \in Schemas : \A w \in Schemas : w <= v

VARIABLES
  main,      \* the database file
  wal,       \* what the database shows, while its log has more than the file
  server,    \* "off", "opening" (before the migration) or "on"
  files,     \* snapshots on disk
  stamp,     \* the clock: snapshots written so far
  rows,      \* the newest version of the rows
  backup,    \* the running backup: its step, its counts and its own view
  restore,   \* the running restore: its step, staged content, snapshot
  replaced,  \* ghost: the content the last restore set out to replace, its snapshot
  reported,  \* ghost: the file the last successful backup has named
  faults

disk == <<main, wal>>
bvars == <<main, wal, server, files, stamp, rows, backup, restore, replaced, reported, faults>>

\* What a connection to the path sees.
Visible == IF wal = Nothing THEN main ELSE wal

Fault == faults < MaxFaults /\ faults' = faults + 1

(***************************************************************************)
(* Snapshot files                                                          *)
(***************************************************************************)

\* "<base>-backup-", "<base>-before-restore-" and "<base>-v", as sorted.
SnapshotKinds == {"backup", "restore", "migration"}
Rank(kind) == CASE kind = "backup" -> 1 [] kind = "restore" -> 2 [] OTHER -> 3

File(kind, schema, content) ==
  [kind |-> kind, schema |-> schema, stamp |-> stamp + 1, content |-> content]

\* The order of version numbers as text: 10 is before 9.
AsText(v) == 100 * (IF v < 10 THEN v ELSE v \div 10) + v

Sorts(f, g) ==
  \/ Rank(f.kind) < Rank(g.kind)
  \/ f.kind = g.kind /\ AsText(f.schema) < AsText(g.schema)
  \/ f.kind = g.kind /\ f.schema = g.schema /\ f.stamp < g.stamp

\* The files a prefix matches; that of a migration is only "<base>-".
Prefixed(kind, all) ==
  {f \in all : \/ f.kind = kind
               \/ kind = "migration" /\ (f.kind = "backup" => SharedDir)}

\* pruneBackups
Pruned(kind, all) ==
  LET mine == Prefixed(kind, all) IN
  all \ {f \in mine : Cardinality({g \in mine : Sorts(f, g)}) >= Keep}

\* VACUUM INTO the next name.
Write(file) ==
  /\ stamp < MaxFiles
  /\ stamp' = stamp + 1
  /\ files' = files \cup {file}

WriteAndPrune(file) ==
  /\ stamp < MaxFiles
  /\ stamp' = stamp + 1
  /\ files' = Pruned(file.kind, files \cup {file})

(***************************************************************************)
(* Connections: the last one to be closed folds the log into the file.     *)
(***************************************************************************)

NoBackup == [pc |-> "idle", stats |-> Nothing, view |-> Nothing, file |-> Nothing]
NoRestore == [pc |-> "idle", temp |-> Nothing, pre |-> Nothing]

Connected == backup.pc # "idle" /\ backup.view = Nothing

Fold == main' = Visible /\ wal' = Nothing

\* A backup that reads a file which has been replaced keeps reading that file.
CloseOf(others) == IF others THEN UNCHANGED disk ELSE Fold

(***************************************************************************)
(* The server: OpenWithLocation, Ingest, Close                             *)
(***************************************************************************)

\* A missing database, or an empty file a failed copy has left, becomes a new
\* one of the current schema.
OpenStore ==
  /\ server = "off" /\ restore.pc = "idle"
  /\ server' = "opening"
  /\ main' = IF Visible \in {Nothing, Torn} THEN [rows |-> 0, schema |-> Current] ELSE main
  /\ UNCHANGED <<wal, files, stamp, rows, backup, restore, replaced, reported, faults>>

\* backupBeforeMigration, then migrate.
Migrate ==
  /\ server = "opening" /\ Visible.schema # Current
  /\ WriteAndPrune(File("migration", Visible.schema, Visible))
  /\ wal' = [Visible EXCEPT !.schema = Current]
  /\ server' = "on"
  /\ UNCHANGED <<main, rows, backup, restore, replaced, reported, faults>>

\* The snapshot or the pruning fails; what was written stays.
MigrateFails ==
  /\ server = "opening" /\ Visible.schema # Current
  /\ Fault
  /\ \/ \E c \in {Torn, Visible} : Write(File("migration", Visible.schema, c))
     \/ UNCHANGED <<files, stamp>>
  /\ server' = "off"
  /\ CloseOf(Connected)
  /\ UNCHANGED <<rows, backup, restore, replaced, reported>>

Opened ==
  /\ server = "opening" /\ Visible.schema = Current
  /\ server' = "on"
  /\ UNCHANGED <<main, wal, files, stamp, rows, backup, restore, replaced, reported, faults>>

IngestRows ==
  /\ server = "on" /\ rows < MaxRows
  /\ rows' = rows + 1
  /\ wal' = [rows |-> rows + 1, schema |-> Current]
  /\ UNCHANGED <<main, server, files, stamp, backup, restore, replaced, reported, faults>>

Checkpoint ==
  /\ server = "on" /\ wal # Nothing
  /\ main' = wal
  /\ wal' = Nothing
  /\ UNCHANGED <<server, files, stamp, rows, backup, restore, replaced, reported, faults>>

Close ==
  /\ server = "on"
  /\ server' = "off"
  /\ CloseOf(Connected)
  /\ UNCHANGED <<files, stamp, rows, backup, restore, replaced, reported, faults>>

ServerCrash ==
  /\ server # "off"
  /\ Fault
  /\ server' = "off"
  /\ UNCHANGED <<main, wal, files, stamp, rows, backup, restore, replaced, reported>>

(***************************************************************************)
(* CreateBackup                                                            *)
(***************************************************************************)

\* What the connection of the running backup reads.
View == IF backup.view = Nothing THEN Visible ELSE backup.view

\* Faulty variant: the integrity of the source is not checked.
BeginBackupUnchecked ==
  /\ backup.pc = "idle" /\ Visible # Nothing
  /\ backup' = [NoBackup EXCEPT !.pc = "counted", !.stats = Visible]
  /\ UNCHANGED <<main, wal, server, files, stamp, rows, restore, replaced, reported, faults>>

\* verifyDatabase counts the rows of the source.
BeginBackup ==
  /\ backup.pc = "idle" /\ Visible \notin {Nothing, Torn}
  /\ backup' = [NoBackup EXCEPT !.pc = "counted", !.stats = Visible]
  /\ UNCHANGED <<main, wal, server, files, stamp, rows, restore, replaced, reported, faults>>

VacuumInto ==
  /\ backup.pc = "counted"
  /\ LET new == File("backup", backup.stats.schema, View) IN
     /\ Write(new)
     /\ backup' = [backup EXCEPT !.pc = "written", !.file = new]
  /\ UNCHANGED <<main, wal, server, rows, restore, replaced, reported, faults>>

EndBackup ==
  /\ backup' = NoBackup
  /\ IF backup.view # Nothing THEN UNCHANGED disk
     ELSE CloseOf(server # "off" \/ restore.pc # "idle")

\* The backup is verified, older ones are pruned, and it is reported.
Deliver ==
  /\ backup.pc = "written"
  /\ backup.file.content = backup.stats
  /\ files' = Pruned("backup", files)
  /\ EndBackup
  /\ reported' = backup.file
  /\ UNCHANGED <<server, stamp, rows, restore, replaced, faults>>

\* "backup differs from source": an ingest committed after the count.
Differs ==
  /\ backup.pc = "written"
  /\ backup.file.content # backup.stats
  /\ files' = files \ {backup.file}
  /\ EndBackup
  /\ UNCHANGED <<server, stamp, rows, restore, replaced, reported, faults>>

\* A failing call: what was written is removed, unless it was the pruning.
BackupFails ==
  /\ backup.pc # "idle"
  /\ Fault
  /\ \/ files' = files \ {backup.file}
     \/ backup.pc = "written" /\ files' = files
  /\ EndBackup
  /\ UNCHANGED <<server, stamp, rows, restore, replaced, reported>>

\* A crash while the file is being written leaves it torn under its name.
BackupCrash ==
  /\ backup.pc # "idle"
  /\ Fault
  /\ \/ backup.pc = "counted" /\ Write(File("backup", backup.stats.schema, Torn))
     \/ UNCHANGED <<files, stamp>>
  /\ backup' = NoBackup
  /\ UNCHANGED <<main, wal, server, rows, restore, replaced, reported>>

(***************************************************************************)
(* Restore. The server is off: both hold the database lock.                *)
(***************************************************************************)

NoFiles == UNCHANGED <<files, stamp>>
NoDisk == UNCHANGED disk
Others == UNCHANGED <<server, rows, reported>>

Step(place) == restore' = [restore EXCEPT !.pc = place]
GiveUp == restore' = NoRestore

\* The source is verified, copied to a temporary file and compared with it;
\* any failure so far leaves no trace.
BeginRestore(f) ==
  /\ server = "off" /\ restore.pc = "idle"
  /\ f.content # Torn
  /\ restore' = [pc |-> "staged", temp |-> f.content, pre |-> Nothing]
  /\ NoFiles /\ NoDisk /\ Others /\ UNCHANGED <<backup, replaced, faults>>

\* "already exists; pass --force to replace it"
RefuseRestore ==
  /\ restore.pc = "staged" /\ main # Nothing
  /\ GiveUp
  /\ NoFiles /\ NoDisk /\ Others /\ UNCHANGED <<backup, replaced, faults>>

NothingThere ==
  /\ restore.pc = "staged" /\ main = Nothing
  /\ Step("saved")
  /\ replaced' = Nothing
  /\ NoFiles /\ NoDisk /\ Others /\ UNCHANGED <<backup, faults>>

\* Faulty variant: the database file is copied without its log.
SnapshotOfFile ==
  /\ restore.pc = "staged" /\ main # Nothing /\ Visible # Torn
  /\ LET new == File("restore", Current, main) IN
     /\ WriteAndPrune(new)
     /\ restore' = [restore EXCEPT !.pc = "saved", !.pre = new]
     /\ replaced' = [content |-> Visible, file |-> new]
  /\ NoDisk
  /\ Others /\ UNCHANGED <<backup, faults>>

\* snapshotExistingDatabase
Snapshot ==
  /\ restore.pc = "staged" /\ main # Nothing /\ Visible # Torn
  /\ LET new == File("restore", Current, Visible) IN
     /\ WriteAndPrune(new)
     /\ restore' = [restore EXCEPT !.pc = "saved", !.pre = new]
     /\ replaced' = [content |-> Visible, file |-> new]
  /\ CloseOf(Connected)
  /\ Others /\ UNCHANGED <<backup, faults>>

\* The destination is damaged, the snapshot fails, or the pruning after it.
SnapshotFails ==
  /\ restore.pc = "staged" /\ main # Nothing
  /\ \/ Visible = Torn /\ NoFiles /\ UNCHANGED faults
     \/ Fault /\ NoFiles
     \/ Visible # Torn /\ Fault /\ Write(File("restore", Current, Visible))
  /\ GiveUp
  /\ CloseOf(Connected)
  /\ Others /\ UNCHANGED <<backup, replaced>>

\* A backup that has the files open keeps its view when they are unlinked.
KeepView == backup' = IF Connected THEN [backup EXCEPT !.view = Visible] ELSE backup

RemoveLog == wal' = Nothing /\ KeepView

Sweep ==
  /\ restore.pc = "saved"
  /\ Step("swept")
  /\ RemoveLog
  /\ NoFiles /\ Others /\ UNCHANGED <<main, replaced, faults>>

SweepFails ==
  /\ restore.pc = "saved"
  /\ Fault
  /\ GiveUp
  /\ \/ RemoveLog
     \/ UNCHANGED <<wal, backup>>
  /\ NoFiles /\ Others /\ UNCHANGED <<main, replaced>>

\* The temporary file is renamed over the database.
Install ==
  /\ restore.pc = "swept"
  /\ Step("installed")
  /\ main' = restore.temp
  /\ KeepView
  /\ NoFiles /\ Others /\ UNCHANGED <<wal, replaced, faults>>

InstallFails ==
  /\ restore.pc = "swept"
  /\ Fault
  /\ GiveUp
  /\ NoFiles /\ NoDisk /\ Others /\ UNCHANGED <<backup, replaced>>

Restored ==
  /\ restore.pc = "installed" /\ Visible = restore.temp
  /\ GiveUp
  /\ NoFiles /\ NoDisk /\ Others /\ UNCHANGED <<backup, replaced, faults>>

\* The installed file differs or cannot be read: the snapshot is copied back.
Rollback ==
  /\ restore.pc = "installed"
  /\ \/ Visible # restore.temp /\ UNCHANGED faults
     \/ Fault
  /\ RemoveLog
  /\ main' = IF restore.pre = Nothing THEN Nothing ELSE restore.pre.content
  /\ GiveUp
  /\ NoFiles /\ Others /\ UNCHANGED replaced

\* The result of copyFile is not looked at.
RollbackFails ==
  /\ restore.pc = "installed" /\ restore.pre # Nothing
  /\ faults + 1 < MaxFaults /\ faults' = faults + 2
  /\ RemoveLog
  /\ main' \in {Nothing, Torn}
  /\ GiveUp
  /\ NoFiles /\ Others /\ UNCHANGED replaced

\* The process ends; a snapshot that was being written stays torn.
RestoreCrash ==
  /\ restore.pc # "idle"
  /\ Fault
  /\ \/ NoFiles
     \/ restore.pc = "staged" /\ main # Nothing /\ Write(File("restore", Current, Torn))
  /\ GiveUp
  /\ NoDisk /\ Others /\ UNCHANGED <<backup, replaced>>

(***************************************************************************)
(* A database of any schema, or none yet.                                  *)
(***************************************************************************)
BackupInit ==
  /\ main \in [rows : {1}, schema : Schemas] \cup {Nothing}
  /\ wal = Nothing /\ server = "off"
  /\ files = {} /\ stamp = 0 /\ rows = 1
  /\ backup = NoBackup /\ restore = NoRestore
  /\ replaced = Nothing /\ reported = Nothing
  /\ faults = 0

ServerStep ==
  \/ OpenStore \/ Migrate \/ MigrateFails \/ Opened
  \/ IngestRows \/ Checkpoint \/ Close \/ ServerCrash

BackupStep ==
  BeginBackup \/ VacuumInto \/ Deliver \/ Differs \/ BackupFails \/ BackupCrash

RestoreStep ==
  \/ \E f \in files : BeginRestore(f)
  \/ RefuseRestore \/ NothingThere \/ Snapshot \/ SnapshotFails
  \/ Sweep \/ SweepFails \/ Install \/ InstallFails
  \/ Restored \/ Rollback \/ RollbackFails \/ RestoreCrash

BackupNext == ServerStep \/ BackupStep \/ RestoreStep

BackupSpec == BackupInit /\ [][BackupNext]_bvars

-----------------------------------------------------------------------------

SnapshotFile ==
  [kind : SnapshotKinds, schema : Schemas, stamp : 1..MaxFiles, content : Contents \cup {Torn}]

\* No snapshot is the absence of one.
ASSUME NothingIsNoFile ==
  Nothing \notin SnapshotFile /\ Nothing \notin [content : Contents, file : SnapshotFile]

BackupTypeOK ==
  /\ main \in Contents \cup {Nothing, Torn} /\ wal \in Contents \cup {Nothing}
  /\ server \in {"off", "opening", "on"}
  /\ files \subseteq SnapshotFile
  /\ stamp \in 0..MaxFiles /\ rows \in Versions /\ faults \in 0..MaxFaults
  /\ backup \in [pc : {"idle", "counted", "written"},
                 stats : Contents \cup {Nothing}, view : Contents \cup {Nothing},
                 file : SnapshotFile \cup {Nothing}]
  /\ restore \in [pc : {"idle", "staged", "saved", "swept", "installed"},
                  temp : Contents \cup {Nothing}, pre : SnapshotFile \cup {Nothing}]
  /\ replaced \in [content : Contents, file : SnapshotFile] \cup {Nothing}
  /\ reported \in SnapshotFile \cup {Nothing}
  /\ wal # Nothing => main \notin {Nothing, Torn}

(***************************************************************************)
(* A pre-restore snapshot holds all the restore replaced, the rows still   *)
(* in the log too, and gives way only to Keep later snapshots of the file  *)
(* in the order of names, through crashes, failing calls, a failed roll-   *)
(* back, other restores, migrations and the backups that run beside it     *)
(* (snapshotExistingDatabase, pruneBackups).                               *)
(***************************************************************************)
ReplacedIsKept ==
  replaced # Nothing =>
    /\ replaced.file.content = replaced.content
    /\ \/ replaced.file \in files
       \/ Cardinality({g \in files : Sorts(replaced.file, g)}) >= Keep

(***************************************************************************)
(* "A pre-restore snapshot is retained beside CAR-79 migration snapshots   *)
(* for rollback" (backup.go, 47-49; DEPLOYMENT.md, 248-253): the snapshot  *)
(* of the last restore is on disk. A migration prunes every name that      *)
(* begins with the database's, and all its own sort after those of restore *)
(* (backupBeforeMigration): after enough migrations, the one of the        *)
(* restored database among them, the snapshot is gone.                     *)
(***************************************************************************)
PreRestoreRetained ==
  replaced # Nothing => replaced.file \in files

(***************************************************************************)
(* What restore has put in place shows the backup's content and nothing    *)
(* else: no log of the old database is replayed over it, whether a server  *)
(* died before or a backup keeps the old log from being folded.            *)
(***************************************************************************)
InstalledIsStaged ==
  restore.pc = "installed" => Visible = restore.temp

(***************************************************************************)
(* The file a successful scheduled backup has named exists until a newer   *)
(* one is reported, as long as no backup of a schema that sorts after its  *)
(* own is kept and migrations keep their snapshots elsewhere, as           *)
(* DEPLOYMENT.md advises; files of crashed backups and of restore do not   *)
(* push it out (backupDatabaseAt and pruneBackups).                        *)
(***************************************************************************)
NewestBackupKept ==
  /\ reported # Nothing /\ ~SharedDir
  /\ \A f \in files : f.kind = "backup" => AsText(f.schema) <= AsText(reported.schema)
  => reported \in files

(***************************************************************************)
(* What an operator relies on when a restore fails or a disk fills: no     *)
(* content is mixed with another, or pruned before as many as are kept.    *)
(***************************************************************************)
RestoreSafe == ReplacedIsKept /\ InstalledIsStaged /\ NewestBackupKept

=============================================================================
