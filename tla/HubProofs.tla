------------------------------ MODULE HubProofs ------------------------------
(*****************************************************************************)
(* What is proved of the hub beside its usage store: of its backups, of the  *)
(* uploads of several machines, of the recap and of the reports, for any     *)
(* machines, records, pages, limits and failures. What is proved of each     *)
(* holds of all side by side (HubHoldsParts).                                *)
(*****************************************************************************)
EXTENDS MCHub, UsageStoreProofs, FoldLemmas, FiniteSetTheorems, TLAPS

------------------------------------------------------------------------------
(*****************************************************************************)
(* Backup and restore. A restore is safe (RestoreIsSafe): Shape is the type  *)
(* with what the code adds to it, RestoreInv says how the stamps, the        *)
(* snapshot and the reported file hang together.                             *)
(*****************************************************************************)

\* Restore runs with the server off, on a log it has removed once it installs;
\* a connected backup reads a whole database and its file is a backup's.
Maintained ==
  /\ restore.pc # "idle" => server = "off" /\ restore.temp \in Contents
  /\ server # "off" => main \in Contents
  /\ restore.pc \in {"swept", "installed"} => wal = Nothing
  /\ restore.pc = "installed" => main = restore.temp
  /\ backup.pc # "idle" => backup.stats \in Contents
  /\ Connected => Visible \in Contents
  /\ backup.pc = "written" =>
       backup.file \in SnapshotFile /\ backup.file.kind = "backup"
  /\ backup.pc # "written" => backup.file = Nothing

Shape == BackupTypeOK /\ Maintained

LEMMA CurrentIsSchema == Current \in Schemas
BY BackupAssumption DEF Current

\* The text of a version number sorts by a number below a thousand.
LEMMA SchemasAreNumbers ==
  /\ \A s \in Schemas : s \in Nat /\ AsText(s) \in Nat /\ AsText(s) <= 999
  /\ \A s, t \in Schemas : AsText(s) = AsText(t) => s = t
<1>1. \A s \in Schemas : s \in 0..99
  BY BackupAssumption
<1>2. \A s \in 0..99 : AsText(s) \in Nat /\ AsText(s) <= 999
  BY DEF AsText
<1>3. \A s, t \in 0..99 : AsText(s) = AsText(t) => s = t
  BY DEF AsText
<1> QED
  BY <1>1, <1>2, <1>3

LEMMA FileFields ==
  ASSUME NEW f \in SnapshotFile
  PROVE  /\ f.kind \in SnapshotKinds /\ f.schema \in Schemas
         /\ Rank(f.kind) \in 1..3 /\ AsText(f.schema) \in Nat /\ AsText(f.schema) <= 999
         /\ f.stamp \in Nat /\ f.stamp <= MaxFiles /\ MaxFiles \in Nat
<1>1. f.kind \in SnapshotKinds /\ f.schema \in Schemas /\ f.stamp \in 1..MaxFiles
  BY DEF SnapshotFile
<1>2. MaxFiles \in Nat
  BY BackupAssumption
<1>3. Rank(f.kind) \in 1..3
  BY <1>1 DEF Rank, SnapshotKinds
<1>4. f.stamp \in Nat /\ f.stamp <= MaxFiles
  BY <1>1, <1>2
<1> QED
  BY <1>1, <1>2, <1>3, <1>4, SchemasAreNumbers

LEMMA ShapeInit == BackupInit => Shape
BY BackupAssumption DEF BackupInit, Shape, BackupTypeOK, Maintained, Contents, Versions,
   NoBackup, NoRestore, Connected, Visible

-----------------------------------------------------------------------------

LEMMA PrunedIsPart ==
  ASSUME NEW kind, NEW all
  PROVE  Pruned(kind, all) \subseteq all
BY DEF Pruned

LEMMA NewFile ==
  ASSUME NEW kind \in SnapshotKinds, NEW schema \in Schemas, NEW c \in Contents \cup {Torn},
         stamp \in 0..MaxFiles, stamp < MaxFiles
  PROVE  File(kind, schema, c) \in SnapshotFile
BY BackupAssumption DEF File, SnapshotFile

LEMMA NewContent ==
  ASSUME NEW r \in Versions, NEW s \in Schemas
  PROVE  [rows |-> r, schema |-> s] \in Contents
BY DEF Contents

LEMMA ServerKeepsShape ==
  ASSUME Shape, ServerStep
  PROVE  Shape'
<1> USE BackupAssumption, CurrentIsSchema, PrunedIsPart DEF Shape, BackupTypeOK, Maintained
<1>v. Visible = Nothing <=> main = Nothing
  BY DEF Visible
<1>1. CASE OpenStore
  <2>1. main' \in Contents
    BY <1>1, <1>v, NewContent DEF OpenStore, Versions, Visible
  <2> QED
    BY <1>1, <2>1 DEF OpenStore, Connected, Visible
<1>2. CASE Migrate
  <2>1. Visible \in Contents /\ wal' \in Contents
    BY <1>2 DEF Migrate, Visible, Contents
  <2>2. File("migration", Visible.schema, Visible) \in SnapshotFile
    BY <1>2, <2>1, NewFile DEF Migrate, WriteAndPrune, Contents, SnapshotKinds
  <2>3. files' \subseteq SnapshotFile /\ stamp' \in 0..MaxFiles
    BY <1>2, <2>2 DEF Migrate, WriteAndPrune
  <2> QED
    BY <1>2, <2>1, <2>3 DEF Migrate, Connected, Visible
<1>3. CASE MigrateFails
  <2>1. Visible \in Contents
    BY <1>3 DEF MigrateFails, Visible, Contents
  <2>2. ASSUME NEW c \in {Torn, Visible}, Write(File("migration", Visible.schema, c))
        PROVE  files' \subseteq SnapshotFile /\ stamp' \in 0..MaxFiles
    <3>1. File("migration", Visible.schema, c) \in SnapshotFile
      BY <2>1, <2>2, NewFile DEF Write, Contents, SnapshotKinds
    <3> QED
      BY <2>2, <3>1 DEF Write
  <2>3. files' \subseteq SnapshotFile /\ stamp' \in 0..MaxFiles
    BY <1>3, <2>2 DEF MigrateFails
  <2>4. main' \in Contents /\ wal' \in Contents \cup {Nothing} /\ Visible' = Visible
    BY <1>3, <2>1 DEF MigrateFails, CloseOf, Fold, disk, Visible
  <2> QED
    BY <1>3, <2>1, <2>3, <2>4 DEF MigrateFails, Connected, Fault
<1>4. CASE Opened
  BY <1>4 DEF Opened, Connected, Visible
<1>5. CASE IngestRows
  <2>1. wal' \in Contents /\ rows' \in Versions
    BY <1>5, NewContent DEF IngestRows, Versions
  <2> QED
    BY <1>5, <2>1 DEF IngestRows, Connected, Visible
<1>6. CASE Checkpoint
  BY <1>6 DEF Checkpoint, Connected, Visible
<1>7. CASE Close
  <2>1. main' \in Contents /\ wal' \in Contents \cup {Nothing} /\ Visible' = Visible
    BY <1>7 DEF Close, CloseOf, Fold, disk, Visible
  <2> QED
    BY <1>7, <2>1 DEF Close, Connected
<1>8. CASE ServerCrash
  BY <1>8 DEF ServerCrash, Connected, Visible, Fault
<1> QED
  BY <1>1, <1>2, <1>3, <1>4, <1>5, <1>6, <1>7, <1>8 DEF ServerStep

LEMMA EndKeepsShape ==
  ASSUME Shape, EndBackup, backup.pc # "idle"
  PROVE  /\ main' \in Contents \cup {Nothing, Torn} /\ wal' \in Contents \cup {Nothing}
         /\ wal' # Nothing => main' \notin {Nothing, Torn}
         /\ server # "off" => main' \in Contents
         /\ restore.pc # "idle" => main' = main /\ wal' = wal
BY BackupAssumption DEF Shape, BackupTypeOK, Maintained, EndBackup, CloseOf, Fold, disk, Visible,
   Connected

LEMMA BackupKeepsShape ==
  ASSUME Shape, BackupStep
  PROVE  Shape'
<1> USE BackupAssumption, CurrentIsSchema, PrunedIsPart DEF Shape, BackupTypeOK, Maintained
<1>1. CASE BeginBackup
  BY ZenonT(60), <1>1 DEF BeginBackup, NoBackup, Connected, Visible
<1>2. CASE VacuumInto
  <2>1. View \in Contents
    BY <1>2 DEF VacuumInto, View, Connected
  <2>2. File("backup", backup.stats.schema, View) \in SnapshotFile
    BY <1>2, <2>1, NewFile DEF VacuumInto, Write, Contents, SnapshotKinds
  <2>3. backup.stats \in Contents /\ File("backup", backup.stats.schema, View).kind = "backup"
    BY <1>2 DEF VacuumInto, File
  <2>4. files' \subseteq SnapshotFile /\ stamp' \in 0..MaxFiles
    BY <1>2, <2>2 DEF VacuumInto, Write
  <2> QED
    BY ZenonT(60), <1>2, <2>2, <2>3, <2>4 DEF VacuumInto, Connected, Visible
<1>3. CASE Deliver
  BY <1>3, EndKeepsShape DEF Deliver, EndBackup, NoBackup, Connected
<1>4. CASE Differs
  BY <1>4, EndKeepsShape DEF Differs, EndBackup, NoBackup, Connected
<1>5. CASE BackupFails
  BY <1>5, EndKeepsShape DEF BackupFails, EndBackup, NoBackup, Connected, Fault
<1>6. CASE BackupCrash
  <2>1. ASSUME backup.pc = "counted", Write(File("backup", backup.stats.schema, Torn))
        PROVE  files' \subseteq SnapshotFile /\ stamp' \in 0..MaxFiles
    <3>1. File("backup", backup.stats.schema, Torn) \in SnapshotFile
      BY <2>1, NewFile DEF Write, Contents, SnapshotKinds
    <3> QED
      BY <2>1, <3>1 DEF Write
  <2>2. files' \subseteq SnapshotFile /\ stamp' \in 0..MaxFiles
    BY <1>6, <2>1 DEF BackupCrash
  <2> QED
    BY <1>6, <2>2 DEF BackupCrash, NoBackup, Connected, Visible, Fault
<1> QED
  BY <1>1, <1>2, <1>3, <1>4, <1>5, <1>6 DEF BackupStep

LEMMA RestoreKeepsShape ==
  ASSUME Shape, RestoreStep
  PROVE  Shape'
<1> USE BackupAssumption, CurrentIsSchema, PrunedIsPart
        DEF Shape, BackupTypeOK, Maintained, NoFiles, NoDisk, Others, disk, GiveUp, NoRestore,
            Step, Fault
<1>1. ASSUME NEW f \in files, BeginRestore(f) PROVE Shape'
  <2>1. f.content \in Contents
    BY <1>1 DEF BeginRestore, SnapshotFile
  <2> QED
    BY <1>1, <2>1 DEF BeginRestore, Connected, Visible
<1>2. CASE RefuseRestore
  BY <1>2 DEF RefuseRestore, Connected, Visible
<1>3. CASE NothingThere
  BY <1>3 DEF NothingThere, Connected, Visible
<1>4. CASE Snapshot
  <2>1. Visible \in Contents
    BY <1>4 DEF Snapshot, Visible
  <2>2. File("restore", Current, Visible) \in SnapshotFile
    BY <1>4, <2>1, NewFile DEF Snapshot, WriteAndPrune, SnapshotKinds
  <2>3. files' \subseteq SnapshotFile /\ stamp' \in 0..MaxFiles
    BY <1>4, <2>2 DEF Snapshot, WriteAndPrune
  <2>4. /\ main' \in Contents \cup {Nothing, Torn} /\ wal' \in Contents \cup {Nothing}
        /\ wal' # Nothing => main' \notin {Nothing, Torn}
        /\ Visible' = Visible
    BY <1>4 DEF Snapshot, CloseOf, Fold, Visible
  <2> QED
    BY <1>4, <2>1, <2>2, <2>3, <2>4 DEF Snapshot, Connected
<1>5. CASE SnapshotFails
  <2>1. ASSUME Visible # Torn, Write(File("restore", Current, Visible)), main # Nothing
        PROVE  files' \subseteq SnapshotFile /\ stamp' \in 0..MaxFiles
    <3>1. Visible \in Contents
      BY <2>1 DEF Visible
    <3>2. File("restore", Current, Visible) \in SnapshotFile
      BY <2>1, <3>1, NewFile DEF Write, SnapshotKinds
    <3> QED
      BY <2>1, <3>2 DEF Write
  <2>2. files' \subseteq SnapshotFile /\ stamp' \in 0..MaxFiles
    BY <1>5, <2>1 DEF SnapshotFails
  <2>3. /\ main' \in Contents \cup {Nothing, Torn} /\ wal' \in Contents \cup {Nothing}
        /\ wal' # Nothing => main' \notin {Nothing, Torn}
        /\ Visible' = Visible
    BY <1>5 DEF SnapshotFails, CloseOf, Fold, Visible
  <2> QED
    BY <1>5, <2>2, <2>3 DEF SnapshotFails, Connected
<1>6. CASE Sweep
  BY <1>6 DEF Sweep, RemoveLog, KeepView, Connected, Visible
<1>7. CASE SweepFails
  BY <1>7 DEF SweepFails, RemoveLog, KeepView, Connected, Visible
<1>8. CASE Install
  BY <1>8 DEF Install, KeepView, Connected, Visible
<1>9. CASE InstallFails
  BY <1>9 DEF InstallFails, Connected, Visible
<1>10. CASE Restored
  BY <1>10 DEF Restored, Connected, Visible
<1>11. CASE Rollback
  <2>1. main' \in Contents \cup {Nothing, Torn}
    BY <1>11 DEF Rollback, SnapshotFile
  <2> QED
    BY <1>11, <2>1 DEF Rollback, RemoveLog, KeepView, Connected, Visible
<1>12. CASE RollbackFails
  BY <1>12 DEF RollbackFails, RemoveLog, KeepView, Connected, Visible
<1>13. CASE RestoreCrash
  <2>1. ASSUME Write(File("restore", Current, Torn))
        PROVE  files' \subseteq SnapshotFile /\ stamp' \in 0..MaxFiles
    <3>1. File("restore", Current, Torn) \in SnapshotFile
      BY <2>1, NewFile DEF Write, SnapshotKinds
    <3> QED
      BY <2>1, <3>1 DEF Write
  <2>2. files' \subseteq SnapshotFile /\ stamp' \in 0..MaxFiles
    BY <1>13, <2>1 DEF RestoreCrash
  <2> QED
    BY <1>13, <2>2 DEF RestoreCrash, Connected, Visible
<1> QED
  BY <1>1, <1>2, <1>3, <1>4, <1>5, <1>6, <1>7, <1>8, <1>9, <1>10, <1>11, <1>12, <1>13
  DEF RestoreStep

LEMMA ShapeStep ==
  ASSUME Shape, [BackupNext]_bvars
  PROVE  Shape'
<1>1. CASE UNCHANGED bvars
  BY <1>1 DEF bvars, Shape, BackupTypeOK, Maintained, Connected, Visible
<1> QED
  BY <1>1, ServerKeepsShape, BackupKeepsShape, RestoreKeepsShape DEF BackupNext

(***************************************************************************)
(* The database, its log, the snapshots and the running backup and restore *)
(* keep their types; a log is only ever beside a whole database file       *)
(* (OpenWithLocation, CreateBackup, Restore).                              *)
(***************************************************************************)
THEOREM BackupTypeCorrect == BackupSpec => []BackupTypeOK
<1>1. BackupSpec => []Shape
  BY ShapeInit, ShapeStep, PTL DEF BackupSpec
<1>2. Shape => BackupTypeOK
  BY DEF Shape
<1> QED
  BY <1>1, <1>2, PTL

-----------------------------------------------------------------------------

(* pruneBackups keeps the last file of its prefix in the order of names.   *)

LEMMA LeastNatural ==
  ASSUME NEW T, T \subseteq Nat, T # {}
  PROVE  \E n \in T : \A k \in T : n <= k
<1>1. PICK n \in T : \A k \in T : <<k, n>> \notin OpToRel(<, Nat)
  BY NatLessThanWellFounded, WFMin, Zenon
<1>2. \A k \in T : ~(k < n)
  BY <1>1 DEF OpToRel
<1> QED
  BY <1>2

LEMMA Greatest ==
  ASSUME NEW G, G # {}, NEW k \in [G -> Nat], NEW B \in Nat, \A g \in G : k[g] <= B
  PROVE  \E h \in G : \A g \in G : k[g] <= k[h]
<1> DEFINE Below == {B - k[g] : g \in G}
<1>1. PICK n \in Below : \A m \in Below : n <= m
  <2>1. Below \subseteq Nat /\ Below # {}
    OBVIOUS
  <2> QED
    BY <2>1, LeastNatural, Zenon
<1>2. PICK h \in G : n = B - k[h]
  OBVIOUS
<1>3. \A g \in G : k[g] <= k[h]
  <2> TAKE g \in G
  <2>1. n <= B - k[g]
    BY <1>1
  <2> QED
    BY <2>1, <1>2
<1> QED
  BY <1>3

\* By kind, then by the text of the schema, then by the stamp.
LEMMA LastFile ==
  ASSUME NEW G, G \subseteq SnapshotFile, G # {}
  PROVE  \E h \in G : \A g \in G : ~Sorts(h, g)
<1>t. \A g \in G : /\ Rank(g.kind) \in 1..3 /\ AsText(g.schema) \in Nat /\ AsText(g.schema) <= 999
                    /\ g.stamp \in Nat /\ g.stamp <= MaxFiles /\ MaxFiles \in Nat
                    /\ g.kind \in SnapshotKinds /\ g.schema \in Schemas
  BY FileFields
<1>1. PICK a \in G : \A g \in G : Rank(g.kind) <= Rank(a.kind)
  <2> DEFINE k == [g \in G |-> Rank(g.kind)]
  <2>1. k \in [G -> Nat] /\ \A g \in G : k[g] <= 3
    BY <1>t
  <2>2. \E h \in G : \A g \in G : k[g] <= k[h]
    <3> HIDE DEF k
    <3> QED
      BY <2>1, Greatest
  <2> QED
    BY <2>2
<1> DEFINE H == {g \in G : g.kind = a.kind}
<1>2. PICK b \in H : \A g \in H : AsText(g.schema) <= AsText(b.schema)
  <2> DEFINE k == [g \in H |-> AsText(g.schema)]
  <2>1. k \in [H -> Nat] /\ H # {} /\ \A g \in H : k[g] <= 999
    BY <1>t
  <2>2. \E h \in H : \A g \in H : k[g] <= k[h]
    <3> HIDE DEF k, H
    <3> QED
      BY <2>1, Greatest
  <2> QED
    BY <2>2
<1> DEFINE I == {g \in H : g.schema = b.schema}
<1>3. PICK c \in I : \A g \in I : g.stamp <= c.stamp
  <2> DEFINE k == [g \in I |-> g.stamp]
  <2>1. k \in [I -> Nat] /\ I # {} /\ MaxFiles \in Nat /\ \A g \in I : k[g] <= MaxFiles
    BY <1>t
  <2>2. \E h \in I : \A g \in I : k[g] <= k[h]
    <3> HIDE DEF k, I
    <3> QED
      BY <2>1, Greatest
  <2> QED
    BY <2>2
<1>4. ASSUME NEW g \in G PROVE ~Sorts(c, g)
  <2>1. c.kind = a.kind /\ c.schema = b.schema /\ c \in G
    OBVIOUS
  <2>2. ~(Rank(c.kind) < Rank(g.kind))
    BY <2>1, <1>1, <1>t
  <2>3. g.kind = c.kind => ~(AsText(c.schema) < AsText(g.schema))
    BY <2>1, <1>2, <1>t
  <2>4. g.kind = c.kind /\ g.schema = c.schema => ~(c.stamp < g.stamp)
    BY <2>1, <1>3, <1>t
  <2> QED
    BY <2>2, <2>3, <2>4 DEF Sorts
<1> QED
  BY <1>4

LEMMA SortsTransitive ==
  ASSUME NEW f \in SnapshotFile, NEW g \in SnapshotFile, NEW h \in SnapshotFile,
         Sorts(f, g), Sorts(g, h)
  PROVE  Sorts(f, h)
<1>1. \A x \in {f, g, h} :
         /\ Rank(x.kind) \in 1..3 /\ AsText(x.schema) \in Nat /\ x.stamp \in Nat
  BY FileFields
<1> QED
  BY <1>1 DEF Sorts

\* Of the files after f, pruning keeps as many as it is told to keep.
LEMMA EnoughAreKept ==
  ASSUME NEW kind, NEW all, all \subseteq SnapshotFile, IsFiniteSet(all), NEW f \in SnapshotFile,
         {g \in all : Sorts(f, g)} \subseteq Prefixed(kind, all),
         Cardinality({g \in all : Sorts(f, g)}) >= Keep
  PROVE  Cardinality({g \in Pruned(kind, all) : Sorts(f, g)}) >= Keep
<1> DEFINE After == {g \in all : Sorts(f, g)}
           Kept == {g \in Pruned(kind, all) : Sorts(f, g)}
           Above(h) == {g \in Prefixed(kind, all) : Sorts(h, g)}
<1>1. Kept \subseteq After /\ IsFiniteSet(After) /\ IsFiniteSet(Kept)
  BY FS_Subset DEF Pruned
<1>2. Cardinality(Kept) \in Nat /\ Keep \in Nat
  BY <1>1, FS_CardinalityType, BackupAssumption
<1> SUFFICES ASSUME Cardinality(Kept) < Keep PROVE FALSE
  BY <1>2
<1>3. After \ Kept # {}
  <2>1. After # Kept
    BY <1>2
  <2> QED
    BY <2>1, <1>1
<1>4. PICK h \in After \ Kept : \A g \in After \ Kept : ~Sorts(h, g)
  <2>1. After \ Kept \subseteq SnapshotFile
    OBVIOUS
  <2> HIDE DEF After, Kept
  <2> QED
    BY <1>3, <2>1, LastFile
<1>5. Above(h) \subseteq Kept
  <2> SUFFICES ASSUME NEW g \in Above(h) PROVE g \in Kept
    OBVIOUS
  <2>1. g \in all /\ Sorts(h, g) /\ Sorts(f, h) /\ h \in all
    BY DEF Prefixed
  <2>2. Sorts(f, g)
    BY <2>1, SortsTransitive
  <2> QED
    BY <2>1, <2>2, <1>4
<1>6. Cardinality(Above(h)) < Keep
  <2>1. Cardinality(Above(h)) <= Cardinality(Kept) /\ Cardinality(Above(h)) \in Nat
    <3>1. IsFiniteSet(Above(h))
      BY <1>1, <1>5, FS_Subset
    <3> HIDE DEF Above, Kept
    <3> QED
      BY <3>1, <1>1, <1>5, FS_Subset, FS_CardinalityType
  <2> QED
    BY <2>1, <1>2
<1>7. h \in Pruned(kind, all)
  <2>1. ~(Cardinality(Above(h)) >= Keep)
    <3>1. Cardinality(Above(h)) \in Nat
      <4>1. IsFiniteSet(Above(h))
        BY <1>1, <1>5, FS_Subset
      <4> QED
        BY <4>1, FS_CardinalityType
    <3> QED
      BY <3>1, <1>2, <1>6
  <2> QED
    BY <2>1 DEF Pruned
<1> QED
  BY <1>7

LEMMA LastIsKept ==
  ASSUME NEW kind, NEW all, NEW f \in all,
         \A g \in Prefixed(kind, all) : ~Sorts(f, g)
  PROVE  f \in Pruned(kind, all)
<1>1. {g \in Prefixed(kind, all) : Sorts(f, g)} = {}
  OBVIOUS
<1>2. Cardinality({}) = 0
  BY FS_EmptySet
<1> QED
  BY <1>1, <1>2, BackupAssumption DEF Pruned

LEMMA OthersAreKept ==
  ASSUME NEW kind, NEW all, NEW f \in all, f \notin Prefixed(kind, all)
  PROVE  f \in Pruned(kind, all)
BY DEF Pruned

\* Snapshots are stamped in turn, those of restore all with the current schema;
\* the file of the running backup is the newest of the scheduled ones.
StampsGrow ==
  /\ IsFiniteSet(files)
  /\ \A f \in files : f.stamp <= stamp /\ (f.kind = "restore" => f.schema = Current)
  /\ backup.pc = "written" =>
       /\ \A f \in files : f.kind = "backup" => f.stamp <= backup.file.stamp
       /\ ~SharedDir => backup.file \in files

\* What the last restore set out to replace is in its snapshot, which gives way
\* to enough later files.
SnapshotKept ==
  replaced # Nothing =>
    /\ replaced.file.kind = "restore" /\ replaced.file.content = replaced.content
    /\ \/ replaced.file \in files
       \/ Cardinality({g \in files : Sorts(replaced.file, g)}) >= Keep

\* A reported backup gives way only to one whose schema sorts later, which no failing
\* backup removes.
ReportedOrSuperseded ==
  reported # Nothing /\ ~SharedDir =>
    \E h \in files \ {backup.file} :
      h.kind = "backup" /\ (h = reported \/ AsText(h.schema) > AsText(reported.schema))

RestoreInv == Shape /\ StampsGrow /\ SnapshotKept /\ ReportedOrSuperseded

LEMMA RestoreInvInit == BackupInit => RestoreInv
BY ShapeInit, FS_EmptySet DEF BackupInit, RestoreInv, StampsGrow, SnapshotKept, ReportedOrSuperseded, NoBackup

-----------------------------------------------------------------------------

LEMMA StampsStep ==
  ASSUME Shape, StampsGrow, [BackupNext]_bvars
  PROVE  StampsGrow'
<1> USE BackupAssumption, CurrentIsSchema, PrunedIsPart
<1>t. files \subseteq SnapshotFile /\ stamp \in Nat /\ \A f \in files : f.stamp \in Nat
  BY DEF Shape, BackupTypeOK, SnapshotFile
<1> USE DEF StampsGrow, File
<1>1. ASSUME NEW kind \in {"migration", "restore"}, NEW schema, NEW c,
             kind = "restore" => schema = Current,
             WriteAndPrune(File(kind, schema, c)) \/ Write(File(kind, schema, c)),
             UNCHANGED backup
      PROVE  StampsGrow'
  <2> DEFINE new == File(kind, schema, c)
  <2>1. files' \subseteq files \cup {new} /\ stamp' = stamp + 1
    BY <1>1 DEF WriteAndPrune, Write
  <2>f. IsFiniteSet(files')
    <3>1. IsFiniteSet(files \cup {new})
      BY FS_AddElement
    <3> HIDE DEF new
    <3> QED
      BY <3>1, <2>1, FS_Subset
  <2>2. new.kind = kind /\ new.schema = schema /\ new.stamp = stamp + 1
    OBVIOUS
  <2>3. \A f \in files' : f.stamp <= stamp' /\ (f.kind = "restore" => f.schema = Current)
    BY <2>1, <2>2, <1>1, <1>t
  <2>4. backup.pc = "written" =>
          \A f \in files' : f.kind = "backup" => f.stamp <= backup.file.stamp
    BY <2>1, <2>2, <1>1
  <2>5. ASSUME backup.pc = "written", ~SharedDir
        PROVE  backup.file \in files'
    <3>1. backup.file \in files /\ backup.file.kind = "backup"
      BY <2>5 DEF Shape, Maintained
    <3>2. backup.file \notin Prefixed(kind, files \cup {new})
      BY <3>1, <2>5, <1>1 DEF Prefixed
    <3>3. backup.file \in Pruned(kind, files \cup {new})
      BY <3>1, <3>2, OthersAreKept
    <3> QED
      BY <1>1, <3>1, <3>3, <2>2 DEF WriteAndPrune, Write
  <2> QED
    BY <1>1, <2>f, <2>3, <2>4, <2>5
<1>2. ASSUME files' \subseteq files, stamp' = stamp,
             \/ backup'.pc # "written"
             \/ backup'.pc = backup.pc /\ backup'.file = backup.file /\ files' = files
      PROVE  StampsGrow'
  BY <1>2, FS_Subset
<1>3. CASE ServerStep
  <2>1. CASE Migrate
    BY <2>1, <1>1 DEF Migrate
  <2>2. CASE MigrateFails
    BY <2>2, <1>1, <1>2 DEF MigrateFails
  <2>3. CASE OpenStore \/ Opened \/ IngestRows \/ Checkpoint \/ Close \/ ServerCrash
    BY <2>3, <1>2 DEF OpenStore, Opened, IngestRows, Checkpoint, Close, ServerCrash
  <2> QED
    BY <1>3, <2>1, <2>2, <2>3 DEF ServerStep
<1>4. CASE BackupStep
  <2>1. CASE BeginBackup
    BY <2>1, <1>2 DEF BeginBackup, NoBackup
  <2>2. CASE VacuumInto
    <3>1. IsFiniteSet(files')
      BY <2>2, FS_AddElement DEF VacuumInto, Write
    <3> QED
      BY <2>2, <3>1, <1>t DEF VacuumInto, Write, Shape, BackupTypeOK
  <2>3. CASE Deliver
    BY <2>3, <1>2 DEF Deliver, EndBackup, NoBackup
  <2>4. CASE Differs
    BY <2>4, <1>2 DEF Differs, EndBackup, NoBackup
  <2>5. CASE BackupFails
    BY <2>5, <1>2 DEF BackupFails, EndBackup, NoBackup
  <2>6. CASE BackupCrash
    <3>1. IsFiniteSet(files')
      <4>1. ASSUME NEW f, Write(f) PROVE IsFiniteSet(files')
        BY <4>1, FS_AddElement DEF Write
      <4> QED
        BY <2>6, <4>1 DEF BackupCrash
    <3> QED
      BY <2>6, <3>1, <1>t DEF BackupCrash, NoBackup, Write
  <2> QED
    BY <1>4, <2>1, <2>2, <2>3, <2>4, <2>5, <2>6 DEF BackupStep
<1>5. CASE RestoreStep
  <2> USE DEF NoFiles
  <2>1. CASE Snapshot
    BY <2>1, <1>1 DEF Snapshot
  <2>2. CASE SnapshotFails
    BY <2>2, <1>1, <1>2 DEF SnapshotFails
  <2>3. CASE RestoreCrash
    BY <2>3, <1>1, <1>2 DEF RestoreCrash
  <2>4. ASSUME NEW f \in files, BeginRestore(f) PROVE StampsGrow'
    BY <2>4, <1>2 DEF BeginRestore
  <2>5. KeepView => backup'.pc = backup.pc /\ backup'.file = backup.file
    BY DEF KeepView, Shape, BackupTypeOK
  <2>6. CASE Sweep \/ SweepFails \/ Install \/ Rollback \/ RollbackFails
    BY <2>6, <2>5, <1>2
    DEF Sweep, SweepFails, Install, Rollback, RollbackFails, RemoveLog
  <2>7. CASE RefuseRestore \/ NothingThere \/ InstallFails \/ Restored
    BY <2>7, <1>2 DEF RefuseRestore, NothingThere, InstallFails, Restored
  <2> QED
    BY <1>5, <2>1, <2>2, <2>3, <2>4, <2>6, <2>7 DEF RestoreStep
<1>6. CASE UNCHANGED bvars
  BY <1>6, <1>2 DEF bvars
<1> QED
  BY <1>3, <1>4, <1>5, <1>6 DEF BackupNext

LEMMA SnapshotStep ==
  ASSUME Shape, StampsGrow, StampsGrow', SnapshotKept, [BackupNext]_bvars
  PROVE  SnapshotKept'
<1> USE BackupAssumption, CurrentIsSchema
<1>t. files \subseteq SnapshotFile /\ files' \subseteq SnapshotFile /\ IsFiniteSet(files')
  BY ShapeStep DEF Shape, BackupTypeOK, StampsGrow
<1>r. ASSUME replaced # Nothing
      PROVE  replaced.file \in SnapshotFile /\ replaced.file.kind = "restore"
  BY <1>r DEF Shape, BackupTypeOK, SnapshotKept
<1>a. ASSUME replaced # Nothing, NEW g \in SnapshotFile, Sorts(replaced.file, g)
      PROVE  g.kind # "backup"
  BY <1>a, <1>r, FileFields DEF Sorts, Rank
<1>1. ASSUME replaced' = replaced, \A g \in files : g.kind # "backup" => g \in files'
      PROVE  SnapshotKept'
  <2> SUFFICES ASSUME replaced # Nothing PROVE SnapshotKept'
    BY <1>1 DEF SnapshotKept
  <2> DEFINE After == {g \in files : Sorts(replaced.file, g)}
             Then == {g \in files' : Sorts(replaced.file, g)}
  <2>1. CASE replaced.file \in files
    BY <2>1, <1>1, <1>r DEF SnapshotKept
  <2>2. CASE replaced.file \notin files
    <3>1. After \subseteq Then
      BY <1>1, <1>t, <1>a
    <3>2. IsFiniteSet(Then)
      BY <1>t, FS_Subset
    <3>3. Cardinality(After) >= Keep
      BY <2>2 DEF SnapshotKept
    <3>4. /\ Cardinality(After) <= Cardinality(Then)
          /\ Cardinality(After) \in Nat /\ Cardinality(Then) \in Nat
      <4> HIDE DEF After, Then
      <4> QED
        BY <3>1, <3>2, FS_Subset, FS_CardinalityType
    <3>5. Cardinality(Then) >= Keep
      <4> HIDE DEF After, Then
      <4> QED
        BY <3>3, <3>4
    <3> QED
      BY <3>5, <1>1 DEF SnapshotKept
  <2> QED
    BY <2>1, <2>2
<1>2. ASSUME replaced' = replaced, replaced # Nothing,
             NEW new \in SnapshotFile, files' = Pruned("migration", files \cup {new})
      PROVE  SnapshotKept'
  <2> DEFINE all == files \cup {new}
             After == {g \in all : Sorts(replaced.file, g)}
  <2>1. all \subseteq SnapshotFile /\ IsFiniteSet(all)
    BY <1>t, FS_AddElement DEF StampsGrow
  <2>2. After \subseteq Prefixed("migration", all)
    BY <2>1, <1>2, <1>a DEF Prefixed
  <2>3. Cardinality(After) >= Keep \/ replaced.file \in files'
    <3>1. CASE replaced.file \in files
      <4>1. ASSUME replaced.file \notin files'
            PROVE  Cardinality({g \in Prefixed("migration", all) : Sorts(replaced.file, g)}) >= Keep
        BY <4>1, <3>1, <1>2 DEF Pruned
      <4>2. {g \in Prefixed("migration", all) : Sorts(replaced.file, g)} = After
        BY <2>2 DEF Prefixed
      <4> QED
        BY <4>1, <4>2
    <3>2. CASE replaced.file \notin files
      <4> DEFINE Old == {g \in files : Sorts(replaced.file, g)}
      <4>1. Old \subseteq After /\ Cardinality(Old) >= Keep
        BY <3>2, <1>2 DEF SnapshotKept
      <4>2. IsFiniteSet(After)
        BY <2>1, FS_Subset
      <4> HIDE DEF Old, After
      <4>3. Cardinality(Old) <= Cardinality(After) /\ Cardinality(Old) \in Nat
            /\ Cardinality(After) \in Nat
        BY <4>1, <4>2, FS_Subset, FS_CardinalityType
      <4> QED
        BY <4>1, <4>3
    <3> QED
      BY <3>1, <3>2
  <2>4. Cardinality(After) >= Keep =>
          Cardinality({g \in files' : Sorts(replaced.file, g)}) >= Keep
    <3>1. replaced.file \in SnapshotFile
      BY <1>2, <1>r
    <3>2. Cardinality(After) >= Keep =>
            Cardinality({g \in Pruned("migration", all) : Sorts(replaced.file, g)}) >= Keep
      <4> HIDE DEF all
      <4> QED
        BY <3>1, <2>1, <2>2, EnoughAreKept
    <3> QED
      BY <3>2, <1>2
  <2> QED
    BY <2>3, <2>4, <1>2, <1>r DEF SnapshotKept
<1>3. CASE Migrate
  <2> DEFINE new == File("migration", Visible.schema, Visible)
  <2>1. Visible \in Contents
    BY <1>3 DEF Migrate, Visible, Shape, BackupTypeOK, Maintained
  <2>2. new \in SnapshotFile
    BY <1>3, <2>1, NewFile DEF Migrate, WriteAndPrune, Contents, SnapshotKinds, Shape, BackupTypeOK
  <2>3. new.kind = "migration"
    BY DEF File
  <2>4. files' = Pruned("migration", files \cup {new}) /\ replaced' = replaced
    BY <1>3, <2>3 DEF Migrate, WriteAndPrune
  <2> HIDE DEF new
  <2> QED
    BY <2>2, <2>4, <1>2 DEF SnapshotKept
<1>4. CASE ServerStep /\ ~Migrate
  BY <1>4, <1>1 DEF ServerStep, OpenStore, MigrateFails, Opened, IngestRows, Checkpoint,
    Close, ServerCrash, Write
<1>5. CASE BackupStep
  <2>1. \A g \in files : g.kind # "backup" => g \in Pruned("backup", files)
    BY OthersAreKept DEF Prefixed
  <2>2. backup.pc # "idle" => \A g \in files : g.kind # "backup" => g # backup.file
    BY NothingIsNoFile, <1>t DEF Shape, BackupTypeOK, Maintained
  <2> QED
    BY <1>5, <1>1, <2>1, <2>2 DEF BackupStep, BeginBackup, VacuumInto, Deliver, Differs,
      BackupFails, BackupCrash, Write
<1>6. CASE Snapshot
  <2> DEFINE new == File("restore", Current, Visible)
  <2>1. new.kind = "restore" /\ new.schema = Current /\ new.stamp = stamp + 1
        /\ new.content = Visible
    BY DEF File
  <2>2. /\ files' = Pruned("restore", files \cup {new})
        /\ replaced' = [content |-> Visible, file |-> new]
    BY <1>6 DEF Snapshot, WriteAndPrune, File
  <2> HIDE DEF new
  <2>3. ASSUME NEW g \in Prefixed("restore", files \cup {new}) PROVE ~Sorts(new, g)
    <3>1. g.kind = "restore" /\ g.schema = Current /\ g.stamp <= stamp + 1 /\ g.stamp \in Nat
      BY <2>1 DEF Prefixed, StampsGrow, Shape, BackupTypeOK, SnapshotFile
    <3>2. AsText(Current) \in Nat /\ stamp \in Nat
      BY SchemasAreNumbers DEF Shape, BackupTypeOK
    <3> QED
      BY <3>1, <3>2, <2>1 DEF Sorts, Rank
  <2>4. new \in files'
    BY <2>2, <2>3, LastIsKept
  <2> QED
    BY <2>1, <2>2, <2>4 DEF SnapshotKept
<1>7. CASE RestoreStep /\ ~Snapshot
  <2>1. ASSUME NEW f \in files, BeginRestore(f) PROVE SnapshotKept'
    BY <2>1, <1>1 DEF BeginRestore, NoFiles
  <2>2. CASE NothingThere
    BY <2>2 DEF NothingThere, SnapshotKept
  <2> QED
    BY <1>7, <1>1, <2>1, <2>2 DEF RestoreStep, RefuseRestore, SnapshotFails, Sweep, SweepFails,
      Install, InstallFails, Restored, Rollback, RollbackFails, RestoreCrash, NoFiles, Write
<1>8. CASE UNCHANGED bvars
  BY <1>8 DEF bvars, SnapshotKept
<1> QED
  BY <1>3, <1>4, <1>5, <1>6, <1>7, <1>8 DEF BackupNext

LEMMA ReportedStep ==
  ASSUME Shape, StampsGrow, ReportedOrSuperseded, [BackupNext]_bvars
  PROVE  ReportedOrSuperseded'
<1> USE BackupAssumption, CurrentIsSchema DEF ReportedOrSuperseded
<1>n. Nothing \notin files /\ files \subseteq SnapshotFile
  BY NothingIsNoFile DEF Shape, BackupTypeOK
<1>1. ASSUME NEW h \in files \ {backup.file}, h.kind = "backup",
             h = reported \/ AsText(h.schema) > AsText(reported.schema), ~SharedDir,
             \/ files \subseteq files'
             \/ files' = files \ {backup.file}
             \/ \E kind \in {"migration", "restore"} : \E f :
                  files' = Pruned(kind, files \cup {f}),
             reported' = reported, h # backup'.file
      PROVE  ReportedOrSuperseded'
  <2>1. ASSUME NEW kind \in {"migration", "restore"}, NEW f
        PROVE  h \in Pruned(kind, files \cup {f})
    BY <1>1, OthersAreKept DEF Prefixed
  <2> QED
    BY <1>1, <2>1
<1>2. ASSUME \/ files \subseteq files'
             \/ files' = files \ {backup.file}
             \/ \E kind \in {"migration", "restore"} : \E f :
                  files' = Pruned(kind, files \cup {f}),
             reported' = reported,
             backup'.file \in {backup.file, Nothing}
      PROVE  ReportedOrSuperseded'
  BY <1>1, <1>2, <1>n
<1>3. CASE ServerStep
  BY <1>3, <1>2 DEF ServerStep, OpenStore, Migrate, MigrateFails, Opened, IngestRows, Checkpoint,
    Close, ServerCrash, Write, WriteAndPrune, File
<1>4. CASE BackupStep
  <2>1. CASE Deliver
    <3> SUFFICES ASSUME ~SharedDir
                 PROVE  \E h \in files' \ {backup'.file} :
                          h.kind = "backup" /\ (h = reported' \/ AsText(h.schema) > AsText(reported'.schema))
      OBVIOUS
    <3> DEFINE r == backup.file
               Later == {g \in files : g.kind = "backup" /\ AsText(g.schema) > AsText(r.schema)}
    <3>1. r \in files /\ r.kind = "backup" /\ r \in SnapshotFile
          /\ \A f \in files : f.kind = "backup" => f.stamp <= r.stamp
      BY <2>1 DEF Deliver, StampsGrow, Shape, Maintained
    <3>2. files' = Pruned("backup", files) /\ reported' = r /\ backup'.file = Nothing
      BY <2>1 DEF Deliver, EndBackup, NoBackup
    <3>3. Prefixed("backup", files) = {f \in files : f.kind = "backup"}
      BY DEF Prefixed
    <3>t. \A f \in files : AsText(f.schema) \in Nat /\ f.stamp \in Nat
      BY <1>n, FileFields
    <3> HIDE DEF r
    <3>4. CASE Later = {}
      <4>1. ASSUME NEW g \in Prefixed("backup", files) PROVE ~Sorts(r, g)
        <5>1. g \in files /\ g.kind = "backup" /\ ~(AsText(g.schema) > AsText(r.schema))
          BY <3>3, <3>4
        <5> QED
          BY <5>1, <3>1, <3>t DEF Sorts, Rank
      <4>2. r \in files'
        BY <4>1, <3>1, <3>2, LastIsKept
      <4> QED
        BY <4>2, <3>1, <3>2, <1>n
    <3>5. CASE Later # {}
      <4>1. PICK h \in Later : \A g \in Later : ~Sorts(h, g)
        <5>1. Later \subseteq SnapshotFile
          BY <1>n
        <5>2. Later # {}
          BY <3>5
        <5> HIDE DEF Later
        <5> QED
          BY <5>1, <5>2, LastFile
      <4>2. h \in files /\ h.kind = "backup" /\ AsText(h.schema) > AsText(r.schema)
        OBVIOUS
      <4>3. ASSUME NEW g \in Prefixed("backup", files) PROVE ~Sorts(h, g)
        <5>1. g \in files /\ g.kind = "backup"
          BY <3>3
        <5>2. CASE g \in Later
          BY <5>2, <4>1
        <5>3. CASE g \notin Later
          BY <5>1, <5>3, <4>2, <3>1, <3>t DEF Sorts, Rank
        <5> QED
          BY <5>2, <5>3
      <4>4. h \in files'
        BY <4>2, <4>3, <3>2, LastIsKept
      <4> QED
        BY <4>2, <4>4, <3>2, <1>n
    <3> QED
      BY <3>4, <3>5
  <2>2. CASE VacuumInto
    <3> DEFINE new == File("backup", backup.stats.schema, View)
    <3>1. new.stamp = stamp + 1
      BY DEF File
    <3>2. files \subseteq files' /\ backup'.file = new /\ reported' = reported
      BY <2>2 DEF VacuumInto, Write, Shape, BackupTypeOK
    <3> HIDE DEF new
    <3>3. new \notin files
      BY <3>1 DEF StampsGrow, Shape, BackupTypeOK
    <3> QED
      BY <3>2, <3>3, <1>1
  <2>3. CASE BeginBackup
    BY <2>3, <1>2 DEF BeginBackup, NoBackup
  <2>4. CASE Differs
    BY <2>4, <1>2 DEF Differs, EndBackup, NoBackup
  <2>5. CASE BackupFails
    BY <2>5, <1>2 DEF BackupFails, EndBackup, NoBackup
  <2>6. CASE BackupCrash
    BY <2>6, <1>2 DEF BackupCrash, NoBackup, Write
  <2> QED
    BY <1>4, <2>1, <2>2, <2>3, <2>4, <2>5, <2>6 DEF BackupStep
<1>5. CASE RestoreStep
  <2>1. KeepView => backup'.file = backup.file
    BY DEF KeepView, Shape, BackupTypeOK
  <2>2. ASSUME NEW f \in files, BeginRestore(f) PROVE ReportedOrSuperseded'
    BY <2>2, <1>2 DEF BeginRestore, NoFiles, Others
  <2>3. CASE Snapshot
    BY <2>3, <1>2 DEF Snapshot, WriteAndPrune, File, Others
  <2>4. CASE RefuseRestore \/ NothingThere \/ SnapshotFails \/ InstallFails \/ Restored
             \/ RestoreCrash
    BY <2>4, <1>2 DEF RefuseRestore, NothingThere, SnapshotFails, InstallFails, Restored,
      RestoreCrash, NoFiles, Others, Write
  <2>5. CASE Sweep \/ SweepFails \/ Install \/ Rollback \/ RollbackFails
    BY <2>5, <2>1, <1>2 DEF Sweep, SweepFails, Install, Rollback, RollbackFails, RemoveLog,
      NoFiles, Others
  <2> QED
    BY <1>5, <2>2, <2>3, <2>4, <2>5 DEF RestoreStep
<1>6. CASE UNCHANGED bvars
  BY <1>6, <1>2 DEF bvars
<1> QED
  BY <1>3, <1>4, <1>5, <1>6 DEF BackupNext

LEMMA InvGivesSafe == RestoreInv => RestoreSafe
<1> SUFFICES ASSUME RestoreInv PROVE RestoreSafe
  OBVIOUS
<1>1. ReplacedIsKept
  BY DEF RestoreInv, SnapshotKept, ReplacedIsKept
<1>2. InstalledIsStaged
  BY DEF RestoreInv, Shape, Maintained, InstalledIsStaged, Visible
<1>3. NewestBackupKept
  <2> SUFFICES ASSUME reported # Nothing, ~SharedDir,
                      \A f \in files : f.kind = "backup" => AsText(f.schema) <= AsText(reported.schema)
               PROVE  reported \in files
    BY DEF NewestBackupKept
  <2>1. PICK h \in files : h.kind = "backup" /\ (h = reported \/ AsText(h.schema) > AsText(reported.schema))
    BY DEF RestoreInv, ReportedOrSuperseded
  <2>2. AsText(h.schema) \in Nat /\ AsText(reported.schema) \in Nat
    BY SchemasAreNumbers DEF RestoreInv, Shape, BackupTypeOK, SnapshotFile
  <2> QED
    BY <2>1, <2>2
<1> QED
  BY <1>1, <1>2, <1>3 DEF RestoreSafe

(***************************************************************************)
(* No restore or backup loses what an operator relies on: the snapshot of  *)
(* what a restore replaces is whole and gives way only to as many later    *)
(* ones as are kept, what restore installs shows the staged backup and no  *)
(* log of the old database, and a reported backup stays on disk until a    *)
(* newer one is reported or one whose schema sorts later is kept (Restore, *)
(* snapshotExistingDatabase, CreateBackup, pruneBackups).                  *)
(***************************************************************************)
THEOREM RestoreIsSafe == BackupSpec => []RestoreSafe
<1>1. RestoreInv /\ [BackupNext]_bvars => RestoreInv'
  BY ShapeStep, StampsStep, SnapshotStep, ReportedStep DEF RestoreInv
<1>2. BackupSpec => []RestoreInv
  BY RestoreInvInit, <1>1, PTL DEF BackupSpec
<1> QED
  BY <1>2, InvGivesSafe, PTL

------------------------------------------------------------------------------
(*****************************************************************************)
(* Uploads. The division into batches is a left fold; an unbroken run of     *)
(* records is divided into runs (SplitOfRun). So every machine has a         *)
(* standing: a committed beginning of its log, a stored one at least as      *)
(* long, and an upload that goes on where it ends (DeliveryInv). For the     *)
(* stages, each one the total has reached is announced, pending in some      *)
(* upload, or lost to a failure (StageInv).                                  *)
(*****************************************************************************)

Run(x, y) == [i \in 1..(y - x) |-> x + i]

\* A record has a length.
LEMMA BytesNat == \A k : Bytes(k) \in Nat
BY UploadAssumption DEF Bytes

\* The records after x up to y, as a sequence.
LEMMA RunFacts ==
  ASSUME NEW x \in Nat, NEW y \in Nat, x <= y
  PROVE  /\ Run(x, y) \in Seq(Nat) /\ Len(Run(x, y)) = y - x /\ DOMAIN Run(x, y) = 1..(y - x)
         /\ \A i \in 1..(y - x) : Run(x, y)[i] = x + i
         /\ Range(Run(x, y)) = (x + 1)..y
         /\ Run(x, y) # <<>> <=> x < y
<1>1. Run(x, y) \in Seq(Nat) /\ Len(Run(x, y)) = y - x /\ DOMAIN Run(x, y) = 1..(y - x)
         /\ \A i \in 1..(y - x) : Run(x, y)[i] = x + i
  BY DEF Run
<1>2. ASSUME NEW i \in (x + 1)..y PROVE i \in Range(Run(x, y))
  <2>1. i - x \in 1..(y - x) /\ x + (i - x) = i
    OBVIOUS
  <2> QED
    BY <1>1, <2>1 DEF Range
<1>3. Range(Run(x, y)) \subseteq (x + 1)..y
  BY <1>1 DEF Range
<1>4. Run(x, y) # <<>> <=> x < y
  BY <1>1
<1> QED
  BY <1>1, <1>2, <1>3, <1>4

-----------------------------------------------------------------------------
Weight(l, b) == FoldLeft(LAMBDA s, i : s + Bytes(l[i]), 0, b)

WeightRec(l, b, g) ==
  [S \in SUBSET DOMAIN b |->
     IF S = {} THEN 0 ELSE g[S \ {Max(S)}] + Bytes(l[b[Max(S)]])]
WeightOn(l, b) == CHOOSE g : g = WeightRec(l, b, g)

\* The length of a batch, as the function by which the fold is defined.
LEMMA WeightUnfold ==
  ASSUME NEW l, NEW b
  PROVE  Weight(l, b) = WeightOn(l, b)[DOMAIN b]
BY DEF Weight, FoldLeft, MapThenFoldSet, WeightOn, WeightRec

WeightSteps(l, n, b) ==
  /\ WeightOn(l, b)[1..0] = 0
  /\ \A k \in 0..n : WeightOn(l, b)[1..k] \in Nat
  /\ \A k \in 1..n : WeightOn(l, b)[1..k] = WeightOn(l, b)[1..(k-1)] + Bytes(l[b[k]])

\* Each record of a batch adds its own length.
LEMMA WeightRecursion ==
  ASSUME NEW l, NEW n \in Nat, NEW b, DOMAIN b = 1..n
  PROVE  WeightSteps(l, n, b)
<1> DEFINE F == [p \in (1..n) \X Nat |-> p[2] + Bytes(l[b[p[1]]])]
           W == WeightOn(l, b)
<1>1. Adds(1..n, Nat, F)
  BY BytesNat DEF Adds
<1>2. \A k \in 1..n, v \in Nat : F[<<k, v>>] = v + Bytes(l[b[k]])
  OBVIOUS
<1> HIDE DEF F
<1>3. PICK h : IsLeftFold(n, Nat, F, 0, h)
  BY <1>1, LeftFoldExists
<1>4. ASSUME NEW T \in SUBSET (1..n)
      PROVE  h[T] = IF T = {} THEN 0 ELSE h[T \ {Max(T)}] + Bytes(l[b[Max(T)]])
  <2>1. T \ {Max(T)} \in SUBSET (1..n)
    OBVIOUS
  <2>2. h[T \ {Max(T)}] \in Nat
    BY <1>3, <2>1 DEF IsLeftFold
  <2> QED
    BY <1>2, <1>3, <2>2 DEF IsLeftFold
<1>5. h = WeightRec(l, b, h)
  BY <1>3, <1>4 DEF WeightRec, IsLeftFold
<1>6. W = WeightRec(l, b, W)
  BY <1>5 DEF WeightOn
<1> HIDE DEF W
<1>7. /\ W = [T \in SUBSET (1..n) |-> W[T]]
      /\ \A T \in SUBSET (1..n) :
            W[T] = IF T = {} THEN 0 ELSE W[T \ {Max(T)}] + Bytes(l[b[Max(T)]])
  BY <1>6 DEF WeightRec
<1>8. FoldsLeft(n, Nat, F, 0, W)
  BY <1>2, <1>7 DEF FoldsLeft
<1>9. StepByStep(n, Nat, F, 0, W)
  BY <1>1, <1>8, LeftFold
<1>10. \A k \in 1..n : W[1..(k-1)] \in Nat
  <2>1. \A k \in 1..n : k - 1 \in 0..n
    OBVIOUS
  <2> QED
    BY <1>9, <2>1 DEF StepByStep
<1> QED
  BY <1>2, <1>9, <1>10 DEF W, StepByStep, WeightSteps

RunWeighs(l, x, y) ==
  /\ Weight(l, Run(x, y)) \in Nat
  /\ x = y => Weight(l, Run(x, y)) = 0
  /\ x < y => Weight(l, Run(x, y)) = Weight(l, Run(x, y - 1)) + Bytes(l[y])

\* The weight of a run is that of its records one by one.
LEMMA WeightOfRun ==
  ASSUME NEW l, NEW x \in Nat, NEW y \in Nat, x <= y
  PROVE  RunWeighs(l, x, y)
<1> DEFINE U(z) == WeightOn(l, Run(x, z))
<1>1. ASSUME NEW z \in Nat, x <= z
      PROVE  /\ Weight(l, Run(x, z)) = U(z)[1..(z - x)]
             /\ U(z)[1..0] = 0
             /\ \A k \in 0..(z - x) : U(z)[1..k] \in Nat
             /\ \A k \in 1..(z - x) : U(z)[1..k] = U(z)[1..(k-1)] + Bytes(l[x + k])
  <2>1. z - x \in Nat /\ DOMAIN Run(x, z) = 1..(z - x)
        /\ \A k \in 1..(z - x) : Run(x, z)[k] = x + k
    BY <1>1, RunFacts
  <2>2. Weight(l, Run(x, z)) = U(z)[1..(z - x)]
    BY <2>1, WeightUnfold
  <2>3. /\ U(z)[1..0] = 0
        /\ \A k \in 0..(z - x) : U(z)[1..k] \in Nat
        /\ \A k \in 1..(z - x) : U(z)[1..k] = U(z)[1..(k-1)] + Bytes(l[Run(x, z)[k]])
    <3>1. WeightSteps(l, z - x, Run(x, z))
      BY <2>1, WeightRecursion
    <3> QED
      BY <3>1 DEF WeightSteps
  <2> QED
    BY <2>1, <2>2, <2>3
<1> HIDE DEF U
<1>2. Weight(l, Run(x, y)) \in Nat
  <2>1. y - x \in 0..(y - x)
    OBVIOUS
  <2> QED
    BY <1>1, <2>1
<1>3. x = y => Weight(l, Run(x, y)) = 0
  <2> SUFFICES ASSUME x = y PROVE Weight(l, Run(x, y)) = 0
    OBVIOUS
  <2>1. y - x = 0
    OBVIOUS
  <2> QED
    BY <1>1, <2>1
<1>4. ASSUME x < y PROVE Weight(l, Run(x, y)) = Weight(l, Run(x, y - 1)) + Bytes(l[y])
  <2> DEFINE G == {k \in Nat : k <= y - 1 - x => U(y)[1..k] = U(y - 1)[1..k]}
  <2>1. 0 \in G
    BY <1>1, <1>4
  <2>2. ASSUME NEW k \in Nat, k \in G PROVE k + 1 \in G
    <3> SUFFICES ASSUME k + 1 <= y - 1 - x PROVE U(y)[1..(k+1)] = U(y - 1)[1..(k+1)]
      OBVIOUS
    <3>1. k + 1 \in 1..(y - x) /\ k + 1 \in 1..((y - 1) - x) /\ (k + 1) - 1 = k /\ y - 1 \in Nat /\ x <= y - 1
      BY <1>4
    <3>2. U(y)[1..(k+1)] = U(y)[1..k] + Bytes(l[x + (k + 1)])
      BY <1>1, <3>1
    <3>3. U(y - 1)[1..(k+1)] = U(y - 1)[1..k] + Bytes(l[x + (k + 1)])
      BY <1>1, <3>1
    <3> QED
      BY <2>2, <3>1, <3>2, <3>3
  <2>3. y - 1 - x \in G /\ y - 1 \in Nat /\ x <= y - 1
    <3>1. y - 1 - x \in Nat /\ y - 1 \in Nat /\ x <= y - 1
      BY <1>4
    <3> HIDE DEF G
    <3> QED
      BY <2>1, <2>2, <3>1, NatSetInduction
  <2>4. U(y)[1..(y - 1 - x)] = Weight(l, Run(x, y - 1))
    BY <1>1, <2>3
  <2>5. y - x \in 1..(y - x) /\ (y - x) - 1 = y - 1 - x /\ x + (y - x) = y
    BY <1>4
  <2>6. U(y)[1..(y - x)] = U(y)[1..((y - x) - 1)] + Bytes(l[x + (y - x)])
    BY <1>1, <2>5
  <2> QED
    BY <1>1, <2>4, <2>5, <2>6
<1> QED
  BY <1>2, <1>3, <1>4 DEF RunWeighs

\* It is the same in two logs that agree on the run.
LEMMA WeightAgrees ==
  ASSUME NEW l, NEW k, NEW x \in Nat, NEW y \in Nat, x <= y, \A i \in (x+1)..y : l[i] = k[i]
  PROVE  Weight(l, Run(x, y)) = Weight(k, Run(x, y))
<1> DEFINE G == {n \in Nat : x + n <= y => Weight(l, Run(x, x + n)) = Weight(k, Run(x, x + n))}
<1>1. 0 \in G
  <2>1. x + 0 = x /\ x <= x
    OBVIOUS
  <2>2. RunWeighs(l, x, x) /\ RunWeighs(k, x, x)
    BY <2>1, WeightOfRun
  <2> QED
    BY <2>1, <2>2 DEF RunWeighs
<1>2. ASSUME NEW n \in Nat, n \in G PROVE n + 1 \in G
  <2> SUFFICES ASSUME x + (n + 1) <= y
               PROVE  Weight(l, Run(x, x + (n + 1))) = Weight(k, Run(x, x + (n + 1)))
    OBVIOUS
  <2>1. /\ x + (n + 1) \in Nat /\ x < x + (n + 1) /\ x <= x + (n + 1)
        /\ x + (n + 1) - 1 = x + n /\ x + (n + 1) \in (x+1)..y
    OBVIOUS
  <2>2. \A h : Weight(h, Run(x, x + (n + 1))) = Weight(h, Run(x, x + (n + 1) - 1)) + Bytes(h[x + (n + 1)])
    <3>1. \A h : RunWeighs(h, x, x + (n + 1))
      BY <2>1, WeightOfRun
    <3> QED
      BY <2>1, <3>1 DEF RunWeighs
  <2> QED
    BY <1>2, <2>1, <2>2
<1>3. y - x \in G
  <2>1. y - x \in Nat
    OBVIOUS
  <2> HIDE DEF G
  <2>2. \A n \in Nat : n \in G
    BY <1>1, <1>2, NatSetInduction
  <2> QED
    BY <2>1, <2>2
<1>4. x + (y - x) = y /\ y <= y
  OBVIOUS
<1> QED
  BY <1>3, <1>4

-----------------------------------------------------------------------------
(* The division into batches                                                  *)
Folding == [closed : Seq(Seq(Nat)), open : Seq(Nat), bytes : Nat]

SplitRec(m, b, g) ==
  [S \in SUBSET DOMAIN b |->
     IF S = {} THEN SplitState ELSE AddTo(m, g[S \ {Max(S)}], b[Max(S)])]
SplitOn(m, b) == CHOOSE g : g = SplitRec(m, b, g)

\* The division into batches, as the function by which the fold is defined.
LEMMA SplitUnfold ==
  ASSUME NEW m, NEW b
  PROVE  Split(m, b) = Append(SplitOn(m, b)[DOMAIN b].closed, SplitOn(m, b)[DOMAIN b].open)
<1>1. FoldLeft(LAMBDA acc, i : AddTo(m, acc, i), SplitState, b) = SplitOn(m, b)[DOMAIN b]
  BY DEF FoldLeft, MapThenFoldSet, SplitOn, SplitRec
<1> QED
  BY <1>1 DEF Split

\* A record added to a division in progress gives a division in progress.
LEMMA AddToType ==
  ASSUME NEW m, NEW s \in Folding, NEW i \in Nat
  PROVE  AddTo(m, s, i) \in Folding
<1> DEFINE b == Bytes(log[m][i])
<1>1. b \in Nat
  BY BytesNat
<1> HIDE DEF b
<1>2. s.closed \in Seq(Seq(Nat)) /\ s.open \in Seq(Nat) /\ s.bytes \in Nat
  BY DEF Folding
<1>3. Append(s.closed, s.open) \in Seq(Seq(Nat)) /\ Append(s.open, i) \in Seq(Nat) /\ <<i>> \in Seq(Nat)
  BY <1>2
<1>4. [closed |-> Append(s.closed, s.open), open |-> <<i>>, bytes |-> b] \in Folding
  BY <1>1, <1>3 DEF Folding
<1>5. [closed |-> s.closed, open |-> Append(s.open, i), bytes |-> s.bytes + b] \in Folding
  BY <1>1, <1>2, <1>3 DEF Folding
<1> QED
  BY <1>4, <1>5 DEF AddTo, b

SplitSteps(m, n, b) ==
  /\ SplitOn(m, b)[1..0] = SplitState
  /\ \A k \in 0..n : SplitOn(m, b)[1..k] \in Folding
  /\ \A k \in 1..n : SplitOn(m, b)[1..k] = AddTo(m, SplitOn(m, b)[1..(k-1)], b[k])

\* The records of a batch are added one by one.
LEMMA SplitRecursion ==
  ASSUME NEW m, NEW n \in Nat, NEW b, DOMAIN b = 1..n, \A k \in 1..n : b[k] \in Nat
  PROVE  SplitSteps(m, n, b)
<1> DEFINE F == [p \in (1..n) \X Folding |-> AddTo(m, p[2], b[p[1]])]
           W == SplitOn(m, b)
<1>0. SplitState \in Folding
  BY DEF SplitState, Folding
<1>1. Adds(1..n, Folding, F)
  BY AddToType DEF Adds
<1>2. \A k \in 1..n, v \in Folding : F[<<k, v>>] = AddTo(m, v, b[k])
  OBVIOUS
<1> HIDE DEF F
<1>3. PICK h : IsLeftFold(n, Folding, F, SplitState, h)
  BY <1>0, <1>1, LeftFoldExists
<1>4. ASSUME NEW T \in SUBSET (1..n)
      PROVE  h[T] = IF T = {} THEN SplitState ELSE AddTo(m, h[T \ {Max(T)}], b[Max(T)])
  <2>1. T \ {Max(T)} \in SUBSET (1..n)
    OBVIOUS
  <2>2. h[T \ {Max(T)}] \in Folding
    BY <1>3, <2>1 DEF IsLeftFold
  <2> QED
    BY <1>2, <1>3, <2>2 DEF IsLeftFold
<1>5. h = SplitRec(m, b, h)
  BY <1>3, <1>4 DEF SplitRec, IsLeftFold
<1>6. W = SplitRec(m, b, W)
  BY <1>5 DEF SplitOn
<1> HIDE DEF W
<1>7. /\ W = [T \in SUBSET (1..n) |-> W[T]]
      /\ \A T \in SUBSET (1..n) :
            W[T] = IF T = {} THEN SplitState ELSE AddTo(m, W[T \ {Max(T)}], b[Max(T)])
  BY <1>6 DEF SplitRec
<1>8. FoldsLeft(n, Folding, F, SplitState, W)
  BY <1>2, <1>7 DEF FoldsLeft
<1>9. StepByStep(n, Folding, F, SplitState, W)
  BY <1>0, <1>1, <1>8, LeftFold
<1>10. \A k \in 1..n : W[1..(k-1)] \in Folding
  <2>1. \A k \in 1..n : k - 1 \in 0..n
    OBVIOUS
  <2> QED
    BY <1>9, <2>1 DEF StepByStep
<1> QED
  BY <1>2, <1>9, <1>10 DEF W, StepByStep, SplitSteps

-----------------------------------------------------------------------------
\* The batches bs hold the records lo + 1 to hi, batch n those from cut n - 1 to
\* cut n.
Cut(bs, c, lo, hi) ==
  /\ c \in [0..Len(bs) -> Nat] /\ c[0] = lo /\ c[Len(bs)] = hi
  /\ \A i, j \in 0..Len(bs) : i < j => c[i] < c[j]
  /\ \A n \in 1..Len(bs) : bs[n] = Run(c[n-1], c[n])
  /\ \A i \in (lo+1)..hi : \E n \in 1..Len(bs) : c[n-1] < i /\ i <= c[n]

Fits(l, x, y) == y - x <= BatchEvents /\ Weight(l, Run(x, y)) <= BatchBytes
AllFit(l, bs, c) == \A n \in 1..Len(bs) : Fits(l, c[n-1], c[n])

\* One more run at the end of a run divided into batches.
LEMMA CutMore ==
  ASSUME NEW l, NEW bs \in Seq(Seq(Nat)), NEW c, NEW lo \in Nat, NEW x \in Nat, NEW y \in Nat,
         Cut(bs, c, lo, x), AllFit(l, bs, c), x < y, Fits(l, x, y)
  PROVE  \E d : Cut(Append(bs, Run(x, y)), d, lo, y) /\ AllFit(l, Append(bs, Run(x, y)), d)
<1> DEFINE N == Len(bs)
           q == Append(bs, Run(x, y))
           d == [j \in 0..(N + 1) |-> IF j <= N THEN c[j] ELSE y]
<1>0. Run(x, y) \in Seq(Nat)
  BY RunFacts
<1>1. N \in Nat /\ Len(q) = N + 1 /\ q[N + 1] = Run(x, y) /\ \A n \in 1..N : q[n] = bs[n]
  BY <1>0
<1>2. c \in [0..N -> Nat] /\ c[0] = lo /\ c[N] = x /\ \A i, j \in 0..N : i < j => c[i] < c[j]
  BY DEF Cut
<1>3. /\ d \in [0..(N + 1) -> Nat] /\ d[0] = lo /\ d[N + 1] = y
      /\ \A j \in 0..N : d[j] = c[j] /\ c[j] <= x
  <2>1. ASSUME NEW j \in 0..N PROVE d[j] = c[j] /\ c[j] <= x
    <3>1. j \in 0..(N + 1) /\ j <= N /\ N \in 0..N /\ (j = N \/ j < N)
      BY <1>1
    <3>2. c[j] \in Nat /\ (j < N => c[j] < x) /\ (j = N => c[j] = x)
      BY <1>2, <3>1
    <3>3. d[j] = c[j]
      BY <3>1
    <3> QED
      BY <3>1, <3>2, <3>3
  <2>2. d \in [0..(N + 1) -> Nat]
    <3>1. ASSUME NEW j \in 0..(N + 1) PROVE (IF j <= N THEN c[j] ELSE y) \in Nat
      <4>1. j <= N => j \in 0..N
        BY <1>1
      <4> QED
        BY <1>2, <4>1
    <3> QED
      BY <3>1
  <2>3. N + 1 \in 0..(N + 1) /\ 0 \in 0..N /\ ~(N + 1 <= N)
    BY <1>1
  <2>4. d[N + 1] = y
    BY <2>3
  <2> HIDE DEF d
  <2> QED
    BY <1>2, <2>1, <2>2, <2>3, <2>4
<1> HIDE DEF d, q
<1>4. \A i, j \in 0..(N + 1) : i < j => d[i] < d[j]
  <2> SUFFICES ASSUME NEW i \in 0..(N + 1), NEW j \in 0..(N + 1), i < j PROVE d[i] < d[j]
    OBVIOUS
  <2>1. CASE j <= N
    <3>1. i \in 0..N /\ j \in 0..N
      BY <1>1, <2>1
    <3> QED
      BY <1>2, <1>3, <3>1
  <2>2. CASE j = N + 1
    <3>1. i \in 0..N
      BY <1>1, <2>2
    <3>2. d[i] = c[i] /\ c[i] <= x /\ c[i] \in Nat
      BY <1>2, <1>3, <3>1
    <3> QED
      BY <1>3, <2>2, <3>2
  <2> QED
    BY <1>1, <2>1, <2>2
<1>5. ASSUME NEW n \in 1..(N + 1) PROVE q[n] = Run(d[n-1], d[n]) /\ Fits(l, d[n-1], d[n])
  <2>1. CASE n \in 1..N
    <3>1. n - 1 \in 0..N /\ n \in 0..N
      BY <1>1, <2>1
    <3>2. d[n-1] = c[n-1] /\ d[n] = c[n] /\ q[n] = bs[n]
      BY <1>1, <1>3, <2>1, <3>1
    <3>3. bs[n] = Run(c[n-1], c[n]) /\ Fits(l, c[n-1], c[n])
      BY <2>1 DEF Cut, AllFit
    <3> QED
      BY <3>2, <3>3
  <2>2. CASE n = N + 1
    <3>1. n - 1 = N /\ N \in 0..N
      BY <1>1, <2>2
    <3>2. d[n-1] = x /\ d[n] = y /\ q[n] = Run(x, y)
      BY <1>1, <1>2, <1>3, <2>2, <3>1
    <3> QED
      BY <3>2
  <2> QED
    BY <1>1, <2>1, <2>2
<1>6. ASSUME NEW i \in (lo+1)..y PROVE \E n \in 1..(N + 1) : d[n-1] < i /\ i <= d[n]
  <2>1. CASE i <= x
    <3>1. PICK n \in 1..N : c[n-1] < i /\ i <= c[n]
      <4>1. i \in (lo+1)..x
        BY <2>1
      <4> QED
        BY <4>1 DEF Cut
    <3>2. n - 1 \in 0..N /\ n \in 0..N /\ n \in 1..(N + 1)
      BY <1>1, <3>1
    <3>3. d[n-1] = c[n-1] /\ d[n] = c[n]
      BY <1>3, <3>2
    <3> QED
      BY <3>1, <3>2, <3>3
  <2>2. CASE i > x
    <3>1. N + 1 \in 1..(N + 1) /\ (N + 1) - 1 = N /\ N \in 0..N
      BY <1>1
    <3>2. d[(N + 1) - 1] = x
      BY <1>2, <1>3, <3>1
    <3> QED
      BY <1>3, <2>2, <3>1, <3>2
  <2> QED
    BY <2>1, <2>2
<1> QED
  <2>1. Cut(q, d, lo, y)
    BY <1>1, <1>3, <1>4, <1>5, <1>6 DEF Cut, q
  <2>2. AllFit(l, q, d)
    BY <1>1, <1>5 DEF AllFit, q
  <2> QED
    BY <2>1, <2>2 DEF q

\* After records x + 1 to z: the closed batches end with record a, the open one
\* holds the records from there.
Half(l, x, z, s, a, c) ==
  /\ Cut(s.closed, c, x, a) /\ AllFit(l, s.closed, c)
  /\ a <= z /\ (x < z => a < z)
  /\ s.open = Run(a, z) /\ s.bytes = Weight(l, Run(a, z)) /\ Fits(l, a, z)

Halfway(l, x, z, s) == s \in Folding /\ \E a \in Nat : \E c : Half(l, x, z, s, a, c)

\* Sequences with the same elements are the same.
LEMMA SameSeq ==
  ASSUME NEW r \in Seq(Nat), NEW q \in Seq(Nat), Len(r) = Len(q), \A i \in 1..Len(q) : r[i] = q[i]
  PROVE  r = q
OBVIOUS

\* Before the first record, nothing is divided.
LEMMA HalfwayInit ==
  ASSUME NEW l, NEW x \in Nat
  PROVE  Halfway(l, x, x, SplitState)
<1> DEFINE c == [j \in 0..0 |-> x]
<1>1. SplitState \in Folding /\ SplitState.closed = <<>> /\ SplitState.open = <<>> /\ SplitState.bytes = 0
  BY DEF SplitState, Folding
<1>2. RunWeighs(l, x, x) /\ Run(x, x) = <<>>
  BY WeightOfRun, RunFacts
<1>3. Len(<<>>) = 0
  OBVIOUS
<1>4. Cut(<<>>, c, x, x)
  BY <1>3 DEF Cut
<1>5. AllFit(l, <<>>, c)
  BY <1>3 DEF AllFit
<1>6. Fits(l, x, x)
  BY <1>2, UploadAssumption DEF Fits, RunWeighs
<1>7. Half(l, x, x, SplitState, x, c)
  BY <1>1, <1>2, <1>4, <1>5, <1>6 DEF Half, RunWeighs
<1> QED
  BY <1>1, <1>7 DEF Halfway

\* One more record keeps the division halfway through the run.
LEMMA HalfwayStep ==
  ASSUME NEW m, NEW x \in Nat, NEW z \in Nat, x <= z, NEW s,
         Halfway(log[m], x, z, s), Bytes(log[m][z + 1]) <= BatchBytes
  PROVE  Halfway(log[m], x, z + 1, AddTo(m, s, z + 1))
<1> DEFINE l == log[m]
           b == Bytes(l[z + 1])
           t == AddTo(m, s, z + 1)
<1>1. PICK a \in Nat : \E c : Half(l, x, z, s, a, c)
  BY DEF Halfway
<1>2. PICK c : Half(l, x, z, s, a, c)
  BY <1>1
<1>3. s \in Folding /\ t \in Folding /\ b \in Nat
  BY AddToType, BytesNat DEF Halfway
<1>4. /\ s.open = Run(a, z) /\ s.bytes = Weight(l, Run(a, z)) /\ Fits(l, a, z)
      /\ Cut(s.closed, c, x, a) /\ AllFit(l, s.closed, c) /\ a <= z /\ (x < z => a < z)
  BY <1>2 DEF Half
<1>5. RunWeighs(l, a, z) /\ RunWeighs(l, a, z + 1) /\ RunWeighs(l, z, z) /\ RunWeighs(l, z, z + 1)
  <2>1. z + 1 \in Nat /\ a <= z + 1 /\ z <= z + 1 /\ z <= z
    BY <1>4
  <2> QED
    BY <1>4, <2>1, WeightOfRun
<1>6. Len(s.open) = z - a /\ (s.open # <<>> <=> a < z)
  BY <1>4, RunFacts
<1>7. s.closed \in Seq(Seq(Nat)) /\ s.bytes \in Nat
  BY <1>3 DEF Folding
<1>8. CASE s.open # <<>> /\ (s.bytes + b > BatchBytes \/ Len(s.open) >= BatchEvents)
  <2>1. t.closed = Append(s.closed, s.open) /\ t.open = <<z + 1>> /\ t.bytes = b
    BY <1>8 DEF AddTo
  <2>2. PICK d : Cut(Append(s.closed, Run(a, z)), d, x, z) /\ AllFit(l, Append(s.closed, Run(a, z)), d)
    BY <1>4, <1>6, <1>7, <1>8, CutMore
  <2>3. Run(z, z + 1) = <<z + 1>>
    BY DEF Run
  <2>4. Weight(l, Run(z, z + 1)) = b
    BY <1>3, <1>5 DEF RunWeighs
  <2>5. Fits(l, z, z + 1)
    BY <2>4, UploadAssumption DEF Fits
  <2>6. z <= z + 1 /\ z < z + 1
    OBVIOUS
  <2>7. Cut(t.closed, d, x, z) /\ AllFit(l, t.closed, d) /\ t.open = Run(z, z + 1)
        /\ t.bytes = Weight(l, Run(z, z + 1))
    BY <1>4, <2>1, <2>2, <2>3, <2>4
  <2>8. Half(l, x, z + 1, t, z, d)
    <3> HIDE DEF t, l
    <3> QED
      BY <2>5, <2>6, <2>7 DEF Half
  <2> QED
    BY <1>3, <2>8 DEF Halfway
<1>9. CASE ~(s.open # <<>> /\ (s.bytes + b > BatchBytes \/ Len(s.open) >= BatchEvents))
  <2>1. t.closed = s.closed /\ t.open = Append(s.open, z + 1) /\ t.bytes = s.bytes + b
    BY <1>9 DEF AddTo
  <2>2. Append(Run(a, z), z + 1) = Run(a, z + 1)
    <3>1. Run(a, z) \in Seq(Nat) /\ Len(Run(a, z)) = z - a /\ \A i \in 1..(z - a) : Run(a, z)[i] = a + i
      BY <1>4, RunFacts
    <3>2. z + 1 \in Nat /\ a <= z + 1
      BY <1>4
    <3>3. Run(a, z + 1) \in Seq(Nat) /\ Len(Run(a, z + 1)) = (z + 1) - a
            /\ \A i \in 1..((z + 1) - a) : Run(a, z + 1)[i] = a + i
      BY <3>2, RunFacts
    <3> DEFINE p == Run(a, z)
               q == Run(a, z + 1)
    <3> HIDE DEF p, q
    <3>4. Append(p, z + 1) \in Seq(Nat) /\ Len(Append(p, z + 1)) = Len(q)
            /\ \A i \in 1..Len(q) : Append(p, z + 1)[i] = q[i]
      <4>1. a \in Nat /\ z \in Nat /\ a <= z
        BY <1>4
      <4>2. p \in Seq(Nat) /\ Len(p) = z - a /\ \A i \in 1..(z - a) : p[i] = a + i
        BY <3>1 DEF p
      <4>3. Len(q) = (z - a) + 1 /\ \A i \in 1..((z - a) + 1) : q[i] = a + i
        <5>1. (z + 1) - a = (z - a) + 1
          BY <4>1
        <5> QED
          BY <3>3, <5>1 DEF q
      <4> DEFINE n == z - a
      <4>4. n \in Nat /\ a + (n + 1) = z + 1
        BY <4>1
      <4> HIDE DEF n
      <4>5. Len(p) = n /\ Len(q) = n + 1 /\ (\A i \in 1..n : p[i] = a + i)
              /\ \A i \in 1..(n + 1) : q[i] = a + i
        BY <4>2, <4>3 DEF n
      <4>6. Append(p, z + 1) \in Seq(Nat) /\ Len(Append(p, z + 1)) = n + 1
              /\ (\A i \in 1..n : Append(p, z + 1)[i] = p[i]) /\ Append(p, z + 1)[n + 1] = z + 1
        BY <3>2, <4>2, <4>5
      <4>7. ASSUME NEW i \in 1..(n + 1) PROVE Append(p, z + 1)[i] = q[i]
        <5>1. i \in 1..n \/ i = n + 1
          BY <4>4
        <5> QED
          BY <4>4, <4>5, <4>6, <5>1
      <4> QED
        BY <4>5, <4>6, <4>7
    <3>5. q \in Seq(Nat)
      BY <3>3 DEF q
    <3> DEFINE r == Append(p, z + 1)
    <3>6. r \in Seq(Nat) /\ Len(r) = Len(q) /\ \A i \in 1..Len(q) : r[i] = q[i]
      BY <3>4
    <3> HIDE DEF r
    <3>7. r = q
      BY <3>5, <3>6, SameSeq
    <3> QED
      BY <3>7 DEF p, q, r
  <2>3. Weight(l, Run(a, z + 1)) = Weight(l, Run(a, z)) + b
    <3>1. a < z + 1 /\ (z + 1) - 1 = z
      BY <1>4
    <3> QED
      BY <1>5, <3>1 DEF RunWeighs
  <2>4. Fits(l, a, z + 1)
    <3>1. CASE a = z
      <4>1. Weight(l, Run(a, z)) = 0
        BY <1>5, <3>1 DEF RunWeighs
      <4> QED
        BY <1>3, <2>3, <3>1, <4>1, UploadAssumption DEF Fits
    <3>2. CASE a < z
      BY <1>3, <1>4, <1>6, <1>7, <1>9, <2>3, <3>2, UploadAssumption DEF Fits
    <3> QED
      BY <1>4, <3>1, <3>2
  <2>5. Half(l, x, z + 1, t, a, c)
    BY <1>4, <2>1, <2>2, <2>3, <2>4 DEF Half
  <2> QED
    BY <1>3, <2>5 DEF Halfway
<1> QED
  BY <1>8, <1>9

\* What splitting a run gives.
Divided(l, bs, c, x, y) ==
  bs \in Seq(Seq(Nat)) /\ bs # <<>> /\ Cut(bs, c, x, y) /\ AllFit(l, bs, c)

\* A run of records, none too long for a batch, is divided into batches that are
\* runs, follow each other without a gap and keep both limits (splitIngestBatches).
LEMMA SplitOfRun ==
  ASSUME NEW m, NEW x \in Nat, NEW y \in Nat, x < y,
         \A i \in (x+1)..y : Bytes(log[m][i]) <= BatchBytes
  PROVE  \E c : Divided(log[m], Split(m, Run(x, y)), c, x, y)
<1> DEFINE b == Run(x, y)
           n == y - x
           W(k) == SplitOn(m, b)[1..k]
           G == {k \in Nat : k <= n => Halfway(log[m], x, x + k, W(k))}
<1>1. n \in Nat /\ x <= y /\ x + n = y
  OBVIOUS
<1>2. DOMAIN b = 1..n /\ \A k \in 1..n : b[k] = x + k
  BY <1>1, RunFacts
<1>3. SplitSteps(m, n, b)
  <2>1. \A k \in 1..n : b[k] \in Nat
    BY <1>2
  <2> HIDE DEF b, n
  <2> QED
    BY <1>1, <1>2, <2>1, SplitRecursion
<1>4. W(0) = SplitState /\ \A k \in 1..n : W(k) = AddTo(m, W(k - 1), b[k])
  BY <1>3 DEF SplitSteps
<1> HIDE DEF W, b
<1>5. 0 \in G
  <2>1. x + 0 = x
    OBVIOUS
  <2> QED
    BY <1>4, <2>1, HalfwayInit
<1>6. ASSUME NEW k \in Nat, k \in G PROVE k + 1 \in G
  <2> SUFFICES ASSUME k + 1 <= n PROVE Halfway(log[m], x, x + (k + 1), W(k + 1))
    OBVIOUS
  <2>1. k + 1 \in 1..n /\ (k + 1) - 1 = k /\ x + (k + 1) = (x + k) + 1 /\ x + k \in Nat /\ x <= x + k
    OBVIOUS
  <2>2. W(k + 1) = AddTo(m, W(k), (x + k) + 1)
    BY <1>2, <1>4, <2>1
  <2>3. Bytes(log[m][(x + k) + 1]) <= BatchBytes
    BY <2>1
  <2>4. Halfway(log[m], x, (x + k) + 1, AddTo(m, W(k), (x + k) + 1))
    BY <1>6, <2>1, <2>3, HalfwayStep
  <2> QED
    BY <2>1, <2>2, <2>4
<1>7. Halfway(log[m], x, y, W(n))
  <2>1. n \in G
    <3> HIDE DEF G, n
    <3> QED
      BY <1>1, <1>5, <1>6, NatSetInduction
  <2> QED
    BY <1>1, <2>1
<1>8. PICK a \in Nat : \E c : Half(log[m], x, y, W(n), a, c)
  BY <1>7 DEF Halfway
<1>9. PICK c : Half(log[m], x, y, W(n), a, c)
  BY <1>8
<1>10. W(n) \in Folding
  BY <1>7 DEF Halfway
<1>11. Split(m, b) = Append(W(n).closed, Run(a, y))
  BY <1>2, <1>9, SplitUnfold DEF W, Half
<1>12. W(n).closed \in Seq(Seq(Nat)) /\ Run(a, y) \in Seq(Nat)
  BY <1>9, <1>10, RunFacts DEF Folding, Half
<1>13. PICK d : Cut(Append(W(n).closed, Run(a, y)), d, x, y) /\ AllFit(log[m], Append(W(n).closed, Run(a, y)), d)
  BY <1>9, <1>12, CutMore DEF Half
<1>14. Append(W(n).closed, Run(a, y)) \in Seq(Seq(Nat)) /\ Append(W(n).closed, Run(a, y)) # <<>>
  <2>1. Len(Append(W(n).closed, Run(a, y))) = Len(W(n).closed) + 1 /\ Len(W(n).closed) \in Nat
    BY <1>12
  <2>2. Append(W(n).closed, Run(a, y)) \in Seq(Seq(Nat))
    BY <1>12
  <2>3. Len(<<>>) = 0
    OBVIOUS
  <2> DEFINE r == Append(W(n).closed, Run(a, y))
  <2>4. Len(r) # 0
    BY <2>1
  <2> HIDE DEF r
  <2>5. r # <<>>
    BY <2>3, <2>4
  <2> QED
    BY <2>2, <2>5 DEF r
<1> QED
  BY <1>11, <1>13, <1>14 DEF Divided, b

Increasing(s) == \A i, j \in DOMAIN s : i < j => s[i] < s[j]

\* The records of an unbroken run are collected in order.
LEMMA OnlyIncreasing ==
  ASSUME NEW x \in Nat, NEW y \in Nat, x < y,
         NEW s \in [1..(y - x) -> (x+1)..y], Increasing(s)
  PROVE  s = Run(x, y)
<1> DEFINE n == y - x
           Low == {k \in Nat : k + 1 <= n => s[k + 1] >= x + k + 1}
           High == {k \in Nat : k < n => s[n - k] <= y - k}
<1>1. n \in Nat /\ n >= 1 /\ x + n = y /\ DOMAIN s = 1..n
  OBVIOUS
<1>2. \A i \in 1..n : s[i] \in Int /\ s[i] >= x + 1 /\ s[i] <= y
  OBVIOUS
<1>3. \A i, j \in 1..n : i < j => s[i] < s[j]
  BY <1>1 DEF Increasing
<1> HIDE DEF n
<1>4. 0 \in Low /\ 0 \in High
  BY <1>1, <1>2
<1>5. ASSUME NEW k \in Nat, k \in Low PROVE k + 1 \in Low
  <2> SUFFICES ASSUME k + 1 + 1 <= n PROVE s[k + 1 + 1] >= x + (k + 1) + 1
    OBVIOUS
  <2>1. k + 1 \in 1..n /\ k + 1 + 1 \in 1..n /\ k + 1 < k + 1 + 1
    BY <1>1
  <2>2. s[k + 1] < s[k + 1 + 1]
    BY <1>3, <2>1
  <2> QED
    BY <1>2, <1>5, <2>1, <2>2
<1>6. ASSUME NEW k \in Nat, k \in High PROVE k + 1 \in High
  <2> SUFFICES ASSUME k + 1 < n PROVE s[n - (k + 1)] <= y - (k + 1)
    OBVIOUS
  <2>1. n - (k + 1) \in 1..n /\ n - k \in 1..n /\ n - (k + 1) < n - k
    BY <1>1
  <2>2. s[n - (k + 1)] < s[n - k]
    BY <1>3, <2>1
  <2>3. s[n - k] <= y - k
    <3>1. k < n
      BY <1>1
    <3> QED
      BY <1>6, <3>1
  <2>4. s[n - (k + 1)] \in Int /\ s[n - k] \in Int
    BY <1>2, <2>1
  <2> QED
    BY <2>2, <2>3, <2>4
<1>7. Nat \subseteq Low /\ Nat \subseteq High
  <2> HIDE DEF Low, High
  <2> QED
    BY <1>4, <1>5, <1>6, NatSetInduction
<1>8. ASSUME NEW i \in 1..n PROVE s[i] = x + i
  <2>1. i - 1 \in Nat /\ n - i \in Nat /\ (i - 1) + 1 = i /\ n - (n - i) = i /\ i - 1 + 1 <= n /\ n - i < n
    BY <1>1
  <2>2. s[i] >= x + (i - 1) + 1
    BY <1>7, <2>1
  <2>3. s[i] <= y - (n - i)
    BY <1>7, <2>1
  <2>4. s[i] \in Int
    BY <1>2
  <2>5. x + (i - 1) + 1 = x + i /\ y - (n - i) = x + i /\ x + i \in Int
    BY <1>1
  <2> QED
    BY <2>2, <2>3, <2>4, <2>5
<1>9. s = [i \in 1..n |-> x + i]
  BY <1>1, <1>8
<1> QED
  BY <1>9 DEF Run, n

\* What a pass collects of an unbroken run is the run in its order.
LEMMA CollectedIsRun ==
  ASSUME NEW m, NEW x \in Nat, NEW y \in Nat, x < y, Uncommitted(m) = (x+1)..y
  PROVE  Collected(m) = Run(x, y)
<1>1. Cardinality(Uncommitted(m)) = y - x
  BY FS_Interval
<1>2. Run(x, y) \in [1..(y - x) -> (x+1)..y] /\ Increasing(Run(x, y))
  BY DEF Run, Increasing
<1>3. Collected(m) = CHOOSE s \in [1..(y - x) -> (x+1)..y] : Increasing(s)
  BY <1>1 DEF Collected, Increasing
<1>4. Collected(m) \in [1..(y - x) -> (x+1)..y] /\ Increasing(Collected(m))
  BY <1>2, <1>3
<1> QED
  BY <1>4, OnlyIncreasing

-----------------------------------------------------------------------------
(* The state                                                                  *)
UploadStates == [at : {"idle", "send", "read", "stored"}, batches : Seq(Seq(Nat)),
                 index : Nat, prev : Nat, span : SUBSET (1..Len(Thresholds))]

UploadTypes ==
  /\ log \in [Machines -> Seq(RecordKinds)] /\ \A m \in Machines : Len(log[m]) <= MaxLog
  /\ done \in [Machines -> SUBSET Nat]
  /\ upload \in [Machines -> UploadStates]
  /\ stored \subseteq Machines \X (1..MaxLog) /\ IsFiniteSet(stored)
  /\ ahead \in BOOLEAN /\ unheard \in BOOLEAN
  /\ announced \subseteq 1..Len(Thresholds)
  /\ refusals \in 0..UploadFaults

Sendable(k) == ~Sensitive(k) /\ Bytes(k) <= BatchBytes

\* The upload under way holds the records after the d committed ones, and what
\* its answered requests held is among the t records at the hub.
Underway(m, d, t, c) ==
  LET u == upload[m]
      N == Len(u.batches)
  IN /\ Divided(log[m], u.batches, c, d, c[N]) /\ c[N] <= Len(log[m])
     /\ \A i \in (d+1)..c[N] : Sendable(log[m][i])
     /\ u.index \in 1..N
     /\ c[u.index - 1] <= t /\ (u.at = "stored" => c[u.index] <= t)
     /\ u.at = "read" => \A i \in Batch(m) : ~Invalid(log[m][i])

Standing(m, d, t) ==
  /\ d <= t /\ t <= Len(log[m])
  /\ done[m] = 1..d
  /\ \A i \in Nat : <<m, i>> \in stored <=> i \in 1..t
  /\ \A i \in 1..t : Sendable(log[m][i]) /\ ~Invalid(log[m][i])
  /\ upload[m].at = "idle" => upload[m] = NoUpload
  /\ upload[m].at # "idle" => \E c : Underway(m, d, t, c)

MachineInv(m) == \E d, t \in Nat : Standing(m, d, t)

DeliveryInv == UploadTypes /\ \A m \in Machines : MachineInv(m)

\* There are finitely many stages.
LEMMA ThresholdsFinite ==
  /\ Len(Thresholds) \in Nat /\ DOMAIN Thresholds = 1..Len(Thresholds)
  /\ IsFiniteSet(DOMAIN Thresholds) /\ Cardinality(DOMAIN Thresholds) = Len(Thresholds)
<1>1. Len(Thresholds) \in Nat /\ DOMAIN Thresholds = 1..Len(Thresholds)
  BY UploadAssumption
<1>2. \A n \in Nat : IsFiniteSet(1..n) /\ Cardinality(1..n) = n
  BY FS_Interval
<1> QED
  BY <1>1, <1>2

\* A greater total has at least the same stage.
LEMMA StageGrows ==
  ASSUME NEW s \in Nat, NEW t \in Nat, s <= t
  PROVE  Stage(s) \in 0..Len(Thresholds) /\ Stage(s) <= Stage(t)
<1> DEFINE At(n) == {k \in DOMAIN Thresholds : n >= Thresholds[k]}
<1>1. \A k \in DOMAIN Thresholds : Thresholds[k] \in Nat
  BY UploadAssumption
<1>2. At(s) \subseteq At(t) /\ At(t) \subseteq DOMAIN Thresholds
  BY <1>1
<1>3. IsFiniteSet(At(t)) /\ Cardinality(At(t)) <= Len(Thresholds)
  BY <1>2, ThresholdsFinite, FS_Subset
<1>4. Cardinality(At(s)) <= Cardinality(At(t)) /\ IsFiniteSet(At(s))
  BY <1>2, <1>3, FS_Subset
<1>5. Cardinality(At(s)) \in Nat /\ Cardinality(At(t)) \in Nat
  BY <1>3, <1>4, FS_CardinalityType
<1> QED
  BY <1>3, <1>4, <1>5, ThresholdsFinite DEF Stage

\* The lifetime total is a natural number, and its stage is one of the stages.
LEMMA TotalNat ==
  ASSUME UploadTypes
  PROVE  Total \in Nat /\ Stage(Total) \in 0..Len(Thresholds)
<1>1. {e \in stored : Tokens(log[e[1]][e[2]]) = 1} \in SUBSET stored /\ IsFiniteSet(stored)
  BY DEF UploadTypes
<1>2. Total \in Nat
  BY <1>1, FS_Subset, FS_CardinalityType DEF Total
<1> QED
  BY <1>2, StageGrows

\* Whether batches divide a run depends on no record outside it.
LEMMA RunsAgree ==
  ASSUME NEW l, NEW k, NEW bs, NEW c, NEW x \in Nat, NEW y \in Nat, Divided(l, bs, c, x, y),
         \A i \in (x+1)..y : l[i] = k[i]
  PROVE  Divided(k, bs, c, x, y)
<1>1. /\ Len(bs) \in Nat /\ c \in [0..Len(bs) -> Nat] /\ c[0] = x /\ c[Len(bs)] = y
      /\ \A i, j \in 0..Len(bs) : i < j => c[i] < c[j]
  BY DEF Divided, Cut
<1>2. ASSUME NEW n \in 1..Len(bs) PROVE Fits(k, c[n-1], c[n])
  <2>1. n - 1 \in 0..Len(bs) /\ n \in 0..Len(bs) /\ 0 \in 0..Len(bs) /\ Len(bs) \in 0..Len(bs)
    BY <1>1
  <2>2. c[n-1] \in Nat /\ c[n] \in Nat /\ c[n-1] <= c[n] /\ x <= c[n-1] /\ c[n] <= y
    <3>1. n - 1 < n /\ (n - 1 = 0 \/ 0 < n - 1) /\ (n = Len(bs) \/ n < Len(bs))
      BY <1>1, <2>1
    <3> QED
      BY <1>1, <2>1, <3>1
  <2>3. Fits(l, c[n-1], c[n])
    BY DEF Divided, AllFit
  <2>4. \A i \in (c[n-1] + 1)..c[n] : l[i] = k[i]
    BY <2>2
  <2>5. Weight(l, Run(c[n-1], c[n])) = Weight(k, Run(c[n-1], c[n]))
    BY <2>2, <2>4, WeightAgrees
  <2> QED
    BY <2>3, <2>5 DEF Fits
<1> QED
  BY <1>2 DEF Divided, AllFit

\* A machine that takes no part in a step keeps its standing.
LEMMA MachineFrame ==
  ASSUME NEW m \in Machines, MachineInv(m), log'[m] = log[m], done'[m] = done[m],
         upload'[m] = upload[m], \A i \in Nat : <<m, i>> \in stored' <=> <<m, i>> \in stored,
         ahead' => ahead
  PROVE  MachineInv(m)'
<1>1. PICK d \in Nat, t \in Nat : Standing(m, d, t)
  BY DEF MachineInv
<1>2. \A k : Invalid(k)' => Invalid(k)
  BY DEF Invalid
<1>3. Batch(m)' = Batch(m)
  BY DEF Batch
<1>4. \A c : Underway(m, d, t, c) => Underway(m, d, t, c)'
  BY <1>2, <1>3 DEF Underway
<1>5. Standing(m, d, t)'
  BY <1>1, <1>2, <1>4 DEF Standing
<1> QED
  BY <1>5 DEF MachineInv

\* The delivery invariant holds before the first record.
LEMMA DeliveryInit == UploadInit => DeliveryInv
<1> SUFFICES ASSUME UploadInit PROVE DeliveryInv
  OBVIOUS
<1>1. NoUpload \in UploadStates /\ NoUpload.at = "idle"
  BY DEF NoUpload, UploadStates
<1>2. IsFiniteSet({}) /\ Len(<<>>) = 0
  BY FS_EmptySet
<1>3. UploadTypes
  <2>1. <<>> \in Seq(RecordKinds) /\ 0 <= MaxLog /\ 0 \in 0..UploadFaults
    BY UploadAssumption
  <2>2. log \in [Machines -> Seq(RecordKinds)] /\ \A m \in Machines : Len(log[m]) <= MaxLog
    BY <1>2, <2>1 DEF UploadInit
  <2>3. upload \in [Machines -> UploadStates] /\ done \in [Machines -> SUBSET Nat]
    BY <1>1 DEF UploadInit
  <2>4. /\ stored = {} /\ ahead \in BOOLEAN /\ unheard \in BOOLEAN /\ announced = {}
        /\ refusals \in 0..UploadFaults
    BY <2>1 DEF UploadInit
  <2> QED
    BY <1>2, <2>2, <2>3, <2>4 DEF UploadTypes
<1>4. ASSUME NEW m \in Machines PROVE MachineInv(m)
  <2>1. Standing(m, 0, 0)
    BY <1>1, <1>2 DEF UploadInit, Standing
  <2> QED
    BY <2>1 DEF MachineInv
<1> QED
  BY <1>3, <1>4 DEF DeliveryInv

\* What of the batches of an upload a handler works with.
LEMMA BatchIsRun ==
  ASSUME UploadTypes, NEW m \in Machines, NEW d \in Nat, NEW t \in Nat, NEW c, Underway(m, d, t, c)
  PROVE  LET u == upload[m]
             N == Len(u.batches)
         IN /\ N \in Nat /\ c \in [0..N -> Nat] /\ u.index \in 1..N
            /\ d <= c[u.index - 1] /\ c[u.index - 1] < c[u.index] /\ c[u.index] <= c[N]
            /\ c[N] <= Len(log[m]) /\ Len(log[m]) \in Nat /\ Len(log[m]) <= MaxLog
            /\ Batch(m) = (c[u.index - 1] + 1)..c[u.index]
<1> DEFINE u == upload[m]
           N == Len(u.batches)
           x == u.index
<1>1. /\ N \in Nat /\ c \in [0..N -> Nat] /\ c[0] = d
      /\ \A i, j \in 0..N : i < j => c[i] < c[j]
      /\ \A n \in 1..N : u.batches[n] = Run(c[n-1], c[n])
  <2>1. Divided(log[m], u.batches, c, d, c[N])
    BY DEF Underway
  <2>2. u.batches \in Seq(Seq(Nat)) /\ Cut(u.batches, c, d, c[N])
    BY <2>1 DEF Divided
  <2>3. N \in Nat
    BY <2>2
  <2> QED
    BY <2>2, <2>3 DEF Cut
<1>2. x \in 1..N /\ c[N] <= Len(log[m])
  BY DEF Underway
<1>3. Len(log[m]) \in Nat /\ Len(log[m]) <= MaxLog
  BY DEF UploadTypes
<1> HIDE DEF u, N, x
<1>4. x - 1 \in 0..N /\ x \in 0..N /\ 0 \in 0..N /\ N \in 0..N /\ x - 1 < x
      /\ (x - 1 = 0 \/ 0 < x - 1) /\ (x = N \/ x < N)
  BY <1>1, <1>2
<1>5. c[x-1] \in Nat /\ c[x] \in Nat /\ c[N] \in Nat /\ d <= c[x-1] /\ c[x-1] < c[x] /\ c[x] <= c[N]
  BY <1>1, <1>4
<1>6. Batch(m) = (c[x-1] + 1)..c[x]
  <2>1. Batch(m) = Range(Run(c[x-1], c[x]))
    BY <1>1, <1>2 DEF Batch, u, x
  <2> DEFINE y == c[x-1]
             z == c[x]
  <2>2. y \in Nat /\ z \in Nat /\ y <= z
    BY <1>5
  <2> HIDE DEF y, z
  <2>3. Range(Run(y, z)) = (y + 1)..z
    BY <2>2, RunFacts
  <2> QED
    BY <2>1, <2>3 DEF y, z
<1> QED
  BY <1>1, <1>2, <1>3, <1>5, <1>6 DEF u, N, x

\* The upload of machine m after a step that leaves the others alone.
Changed(m, u) == upload' = [upload EXCEPT ![m] = u] /\ u \in UploadStates

\* A step of one machine's upload leaves the other uploads alone.
LEMMA UploadTyped ==
  ASSUME UploadTypes, NEW m \in Machines, NEW u, Changed(m, u)
  PROVE  /\ upload' \in [Machines -> UploadStates] /\ upload'[m] = u
         /\ \A n \in Machines : n # m => upload'[n] = upload[n]
BY DEF UploadTypes, Changed

\* The forms the upload of a machine takes.
LEMMA UploadForms ==
  ASSUME UploadTypes, NEW m \in Machines
  PROVE  LET u == upload[m] IN
         /\ u \in UploadStates
         /\ NoUpload \in UploadStates
         /\ ReadBefore(m) => Changed(m, [u EXCEPT !.at = "read", !.prev = Stage(Total)])
         /\ StoreBatch(m) => Changed(m, [u EXCEPT !.at = "stored"])
         /\ Combined(m) \subseteq 1..Len(Thresholds)
         /\ Answer(m) /\ u.index < Len(u.batches) =>
              Changed(m, [u EXCEPT !.at = "send", !.index = u.index + 1, !.span = Combined(m)])
         /\ Answer(m) /\ ~(u.index < Len(u.batches)) => Changed(m, NoUpload)
         /\ Refuse(m) \/ UploadFails(m) => Changed(m, NoUpload)
<1> DEFINE u == upload[m]
<1>1. u \in UploadStates /\ upload \in [Machines -> UploadStates]
  BY DEF UploadTypes
<1>2. NoUpload \in UploadStates
  BY DEF NoUpload, UploadStates
<1>3. Stage(Total) \in 0..Len(Thresholds) /\ Len(Thresholds) \in Nat
  BY TotalNat, ThresholdsFinite
<1>4. Combined(m) \subseteq 1..Len(Thresholds)
  BY <1>1, <1>3 DEF Combined, UploadStates
<1>5. ReadBefore(m) => Changed(m, [u EXCEPT !.at = "read", !.prev = Stage(Total)])
  <2> SUFFICES ASSUME ReadBefore(m) PROVE Changed(m, [u EXCEPT !.at = "read", !.prev = Stage(Total)])
    OBVIOUS
  <2>1. upload' = [upload EXCEPT ![m] = [u EXCEPT !.at = "read", !.prev = Stage(Total)]]
    BY <1>1 DEF ReadBefore
  <2> DEFINE v == Stage(Total)
  <2>2. v \in Nat
    BY <1>3
  <2> HIDE DEF v
  <2>3. [u EXCEPT !.at = "read", !.prev = v] \in UploadStates
    BY <1>1, <2>2 DEF UploadStates
  <2> QED
    BY <2>1, <2>3 DEF Changed, v
<1>6. StoreBatch(m) => Changed(m, [u EXCEPT !.at = "stored"])
  <2> SUFFICES ASSUME StoreBatch(m) PROVE Changed(m, [u EXCEPT !.at = "stored"])
    OBVIOUS
  <2>1. upload' = [upload EXCEPT ![m] = [u EXCEPT !.at = "stored"]]
    BY <1>1 DEF StoreBatch, Advance
  <2>2. [u EXCEPT !.at = "stored"] \in UploadStates
    BY <1>1 DEF UploadStates
  <2> QED
    BY <2>1, <2>2 DEF Changed
<1>7. ASSUME Answer(m), u.index < Len(u.batches)
      PROVE  Changed(m, [u EXCEPT !.at = "send", !.index = u.index + 1, !.span = Combined(m)])
  <2>1. upload' = [upload EXCEPT ![m].at = "send", ![m].index = @ + 1, ![m].span = Combined(m)]
    BY <1>7 DEF Answer
  <2>2. upload' = [upload EXCEPT ![m] = [u EXCEPT !.at = "send", !.index = u.index + 1, !.span = Combined(m)]]
    BY <1>1, <2>1
  <2> DEFINE n == u.index + 1
             v == Combined(m)
  <2>3. n \in Nat /\ v \in SUBSET (1..Len(Thresholds))
    BY <1>1, <1>4 DEF UploadStates
  <2> HIDE DEF n, v
  <2>4. [u EXCEPT !.at = "send", !.index = n, !.span = v] \in UploadStates
    BY <1>1, <2>3 DEF UploadStates
  <2> QED
    BY <2>2, <2>4 DEF Changed, n, v
<1>8. Answer(m) /\ ~(u.index < Len(u.batches)) => Changed(m, NoUpload)
  BY <1>2 DEF Answer, Changed
<1>9. Refuse(m) \/ UploadFails(m) => Changed(m, NoUpload)
  BY <1>2 DEF Refuse, UploadFails, Changed
<1> QED
  BY <1>1, <1>2, <1>4, <1>5, <1>6, <1>7, <1>8, <1>9

\* A step of machine m leaves the rest of the others as it was.
Apart(m) ==
  /\ \A n \in Machines : n # m => log'[n] = log[n] /\ done'[n] = done[n] /\ upload'[n] = upload[n]
  /\ \A n \in Machines : n # m => \A i \in Nat : <<n, i>> \in stored' <=> <<n, i>> \in stored
  /\ ahead' => ahead

\* A step of machine m that leaves the rest alone has to keep the standing of m.
LEMMA OneMachine ==
  ASSUME DeliveryInv, NEW m \in Machines, UploadTypes', Apart(m), MachineInv(m)'
  PROVE  DeliveryInv'
<1>1. ASSUME NEW n \in Machines, n # m PROVE MachineInv(n)'
  <2>1. MachineInv(n)
    BY DEF DeliveryInv
  <2>2. /\ log'[n] = log[n] /\ done'[n] = done[n] /\ upload'[n] = upload[n] /\ (ahead' => ahead)
        /\ \A i \in Nat : <<n, i>> \in stored' <=> <<n, i>> \in stored
    BY <1>1 DEF Apart
  <2> QED
    BY <2>1, <2>2, MachineFrame
<1>2. \A n \in Machines : MachineInv(n)'
  BY <1>1
<1> QED
  BY <1>2 DEF DeliveryInv

\* A record that is written while an upload is under way is not part of it.
LEMMA RecordStep ==
  ASSUME DeliveryInv, NEW m \in Machines, Record(m)
  PROVE  DeliveryInv'
<1>1. PICK k \in Written[m] : log' = [log EXCEPT ![m] = Append(@, k)]
  BY DEF Record
<1>2. /\ Len(log[m]) < MaxLog
      /\ UNCHANGED <<done, upload, stored, ahead, announced, unheard, refusals>>
  BY DEF Record
<1>3. k \in RecordKinds /\ UploadTypes /\ log[m] \in Seq(RecordKinds)
  BY UploadAssumption DEF DeliveryInv, UploadTypes
<1>4. /\ log'[m] = Append(log[m], k)
      /\ \A n \in Machines : n # m => log'[n] = log[n]
  BY <1>1, <1>3 DEF UploadTypes
<1>5. /\ Append(log[m], k) \in Seq(RecordKinds)
      /\ Len(Append(log[m], k)) = Len(log[m]) + 1 /\ Len(log[m]) \in Nat
      /\ \A i \in 1..Len(log[m]) : Append(log[m], k)[i] = log[m][i]
  BY <1>3
<1>6. UploadTypes'
  <2>1. log' \in [Machines -> Seq(RecordKinds)]
    BY <1>1, <1>3, <1>5 DEF UploadTypes
  <2>2. MaxLog \in Nat
    BY UploadAssumption
  <2>3. \A n \in Machines : Len(log'[n]) <= MaxLog
    BY <1>2, <1>3, <1>4, <1>5, <2>2 DEF UploadTypes
  <2> QED
    BY <1>2, <1>3, <2>1, <2>3 DEF UploadTypes
<1>7. MachineInv(m)'
  <2>1. PICK d \in Nat, t \in Nat : Standing(m, d, t)
    BY DEF DeliveryInv, MachineInv
  <2>2. \A i \in 1..Len(log[m]) : log'[m][i] = log[m][i]
    BY <1>4, <1>5
  <2>3. d <= t /\ t <= Len(log[m]) /\ Len(log'[m]) = Len(log[m]) + 1
    BY <1>4, <1>5, <2>1 DEF Standing
  <2>4. \A i \in 1..t : Sendable(log'[m][i]) /\ ~(log'[m][i] = "ahead" /\ ahead')
    <3>1. \A i \in 1..t : i \in 1..Len(log[m])
      BY <1>5, <2>3
    <3>2. \A i \in 1..t : Sendable(log[m][i]) /\ ~(log[m][i] = "ahead" /\ ahead)
      BY <2>1 DEF Standing, Invalid
    <3> QED
      BY <1>2, <2>2, <3>1, <3>2
  <2>5. ASSUME NEW c, Underway(m, d, t, c) PROVE Underway(m, d, t, c)'
    <3> DEFINE u == upload[m]
               N == Len(u.batches)
    <3>1. /\ N \in Nat /\ c \in [0..N -> Nat] /\ u.index \in 1..N
          /\ d <= c[u.index - 1] /\ c[u.index - 1] < c[u.index] /\ c[u.index] <= c[N]
          /\ c[N] <= Len(log[m])
          /\ Batch(m) = (c[u.index - 1] + 1)..c[u.index]
      BY <1>3, <2>5, BatchIsRun
    <3>2. c[N] \in Nat /\ c[u.index - 1] \in Nat /\ c[u.index] \in Nat
      <4>1. N \in 0..N /\ u.index - 1 \in 0..N /\ u.index \in 0..N
        BY <3>1
      <4> QED
        BY <3>1, <4>1
    <3>3. \A i \in (d+1)..c[N] : log'[m][i] = log[m][i]
      BY <1>5, <2>2, <3>1, <3>2
    <3>4. Divided(log[m], u.batches, c, d, c[N])
      BY <2>5 DEF Underway
    <3>5. Divided(log'[m], u.batches, c, d, c[N])
      BY <3>2, <3>3, <3>4, RunsAgree
    <3>6. \A i \in (d+1)..c[N] : Sendable(log'[m][i])
      BY <2>5, <3>3 DEF Underway
    <3>7. u.at = "read" => \A i \in Batch(m) : ~(log'[m][i] = "ahead" /\ ahead')
      <4> SUFFICES ASSUME u.at = "read", NEW i \in Batch(m) PROVE ~(log'[m][i] = "ahead" /\ ahead')
        OBVIOUS
      <4>1. i \in (d+1)..c[N]
        <5>1. i \in (c[u.index - 1] + 1)..c[u.index]
          BY <3>1
        <5>2. i \in Int /\ c[u.index - 1] + 1 <= i /\ i <= c[u.index]
          BY <3>2, <5>1
        <5>3. d <= c[u.index - 1] /\ c[u.index] <= c[N]
          BY <3>1
        <5> HIDE DEF N
        <5> QED
          BY <3>2, <5>2, <5>3
      <4>2. ~(log[m][i] = "ahead" /\ ahead)
        BY <2>5 DEF Underway, Invalid
      <4> QED
        BY <1>2, <3>3, <4>1, <4>2
    <3>8. upload'[m] = u /\ Batch(m)' = Batch(m)
      BY <1>2 DEF Batch
    <3>9. c[N] <= Len(log'[m])
      BY <1>5, <2>3, <3>1, <3>2
    <3>10. /\ u.index \in 1..N /\ c[u.index - 1] <= t /\ (u.at = "stored" => c[u.index] <= t)
      BY <2>5 DEF Underway
    <3> HIDE DEF u
    <3> QED
      BY <3>5, <3>6, <3>7, <3>8, <3>9, <3>10 DEF Underway, Invalid
  <2>6. (upload[m].at # "idle" => \E c : Underway(m, d, t, c))'
    BY <1>2, <2>1, <2>5 DEF Standing
  <2>7. d <= t /\ t <= Len(log'[m])
    BY <1>5, <2>1, <2>3
  <2>8. /\ done'[m] = 1..d /\ \A i \in Nat : <<m, i>> \in stored' <=> i \in 1..t
        /\ upload'[m].at = "idle" => upload'[m] = NoUpload
    BY <1>2, <2>1 DEF Standing
  <2>9. Standing(m, d, t)'
    BY <2>4, <2>6, <2>7, <2>8 DEF Standing, Invalid
  <2> QED
    BY <2>9 DEF MachineInv
<1>8. Apart(m)
  BY <1>2, <1>4 DEF Apart
<1> QED
  BY <1>6, <1>7, <1>8, OneMachine

\* The clock of the hub only makes more records valid.
LEMMA HubClockStep ==
  ASSUME DeliveryInv, HubClock
  PROVE  DeliveryInv'
<1>1. ahead' = FALSE /\ UNCHANGED <<log, done, upload, stored, announced, unheard, refusals>>
  BY DEF HubClock
<1>2. UploadTypes'
  BY <1>1 DEF DeliveryInv, UploadTypes
<1>3. ASSUME NEW m \in Machines PROVE MachineInv(m)'
  <2>1. MachineInv(m)
    BY DEF DeliveryInv
  <2> QED
    BY <1>1, <2>1, MachineFrame
<1> QED
  BY <1>2, <1>3 DEF DeliveryInv

\* A pass divides what is not committed, an unbroken run, into batches.
LEMMA BeginUploadStep ==
  ASSUME DeliveryInv, NEW m \in Machines, BeginUpload(m)
  PROVE  DeliveryInv'
<1> DEFINE L == Len(log[m])
           w == [NoUpload EXCEPT !.at = "send", !.index = 1, !.batches = Split(m, Collected(m))]
<1>1. /\ upload[m].at = "idle" /\ Uncommitted(m) # {} /\ ~Withheld(m, Collected(m))
      /\ upload' = [upload EXCEPT ![m] = w]
      /\ UNCHANGED <<log, done, stored, ahead, announced, unheard, refusals>>
  BY DEF BeginUpload
<1>2. UploadTypes /\ L \in Nat
  BY DEF DeliveryInv, UploadTypes
<1>3. PICK d \in Nat, t \in Nat : Standing(m, d, t)
  BY DEF DeliveryInv, MachineInv
<1>4. d <= t /\ t <= L /\ done[m] = 1..d
  BY <1>3 DEF Standing
<1>5. Uncommitted(m) = (d+1)..L
  BY <1>2, <1>4 DEF Uncommitted
<1>6. d < L
  BY <1>1, <1>2, <1>5
<1>7. Collected(m) = Run(d, L)
  <2> HIDE DEF L
  <2> QED
    BY <1>2, <1>5, <1>6, CollectedIsRun
<1>8. \A i \in (d+1)..L : Sendable(log[m][i])
  <2> SUFFICES ASSUME NEW i \in (d+1)..L PROVE Sendable(log[m][i])
    OBVIOUS
  <2>1. i - d \in 1..(L - d) /\ d + (i - d) = i
    BY <1>2, <1>6
  <2>2. DOMAIN Run(d, L) = 1..(L - d) /\ Run(d, L)[i - d] = i
    BY <1>2, <2>1 DEF Run
  <2>3. ~Sensitive(log[m][i]) /\ ~(Bytes(log[m][i]) > BatchBytes)
    BY <1>1, <1>7, <2>1, <2>2 DEF Withheld
  <2>4. Bytes(log[m][i]) \in Nat
    BY BytesNat
  <2> QED
    BY <2>3, <2>4, UploadAssumption DEF Sendable
<1>9. PICK c : Divided(log[m], Split(m, Run(d, L)), c, d, L)
  <2>1. \A i \in (d+1)..L : Bytes(log[m][i]) <= BatchBytes
    BY <1>8 DEF Sendable
  <2> HIDE DEF L
  <2> QED
    BY <1>2, <1>6, <2>1, SplitOfRun
<1> DEFINE bs == Split(m, Run(d, L))
<1>10. bs \in Seq(Seq(Nat)) /\ bs # <<>> /\ c[0] = d /\ c[Len(bs)] = L
  BY <1>9 DEF Divided, Cut
<1> HIDE DEF bs
<1>11. Len(bs) \in Nat /\ 1 \in 1..Len(bs)
  BY <1>10
<1>12. w \in UploadStates /\ w.at = "send" /\ w.index = 1 /\ w.batches = bs
  <2>1. w = [NoUpload EXCEPT !.at = "send", !.index = 1, !.batches = bs]
    BY <1>7 DEF bs
  <2>2. NoUpload \in UploadStates
    BY DEF NoUpload, UploadStates
  <2> HIDE DEF w
  <2> QED
    BY <1>10, <2>1, <2>2 DEF UploadStates
<1> HIDE DEF w
<1>13. Changed(m, w)
  BY <1>1, <1>12 DEF Changed
<1>14. /\ upload' \in [Machines -> UploadStates] /\ upload'[m] = w
       /\ \A n \in Machines : n # m => upload'[n] = upload[n]
  BY <1>2, <1>13, UploadTyped
<1>15. UploadTypes'
  BY <1>1, <1>2, <1>14 DEF UploadTypes
<1>16. Underway(m, d, t, c)'
  <2>1. Divided(log[m], bs, c, d, c[Len(bs)]) /\ c[Len(bs)] <= Len(log[m])
    BY <1>2, <1>9, <1>10 DEF bs
  <2>2. c[1 - 1] <= t
    BY <1>4, <1>10
  <2>3. \A i \in (d+1)..c[Len(bs)] : Sendable(log[m][i])
    BY <1>8, <1>10
  <2> QED
    BY <1>1, <1>11, <1>12, <1>14, <2>1, <2>2, <2>3 DEF Underway
<1>17. Standing(m, d, t)'
  BY <1>1, <1>3, <1>12, <1>14, <1>16 DEF Standing, Invalid
<1>18. MachineInv(m)'
  BY <1>17 DEF MachineInv
<1>19. Apart(m)
  BY <1>1, <1>14 DEF Apart
<1> QED
  BY <1>15, <1>18, <1>19, OneMachine

\* The total read before the transaction changes no row.
LEMMA ReadBeforeStep ==
  ASSUME DeliveryInv, NEW m \in Machines, ReadBefore(m)
  PROVE  DeliveryInv'
<1> DEFINE w == [upload[m] EXCEPT !.at = "read", !.prev = Stage(Total)]
<1>1. /\ upload[m].at = "send" /\ \A i \in Batch(m) : ~Invalid(log[m][i])
      /\ UNCHANGED <<log, done, stored, ahead, announced, unheard, refusals>>
  BY DEF ReadBefore
<1>2. UploadTypes
  BY DEF DeliveryInv
<1>3. PICK d \in Nat, t \in Nat : Standing(m, d, t)
  BY DEF DeliveryInv, MachineInv
<1>4. Changed(m, w)
  BY <1>2, UploadForms
<1>5. upload[m] \in UploadStates
  BY <1>2 DEF UploadTypes
<1>6. w.at = "read" /\ w.index = upload[m].index /\ w.batches = upload[m].batches
  BY <1>5 DEF UploadStates
<1> HIDE DEF w
<1>7. /\ upload' \in [Machines -> UploadStates] /\ upload'[m] = w
      /\ \A n \in Machines : n # m => upload'[n] = upload[n]
  BY <1>2, <1>4, UploadTyped
<1>8. UploadTypes'
  BY <1>1, <1>2, <1>7 DEF UploadTypes
<1>9. PICK c : Underway(m, d, t, c)
  BY <1>1, <1>3 DEF Standing
<1>10. Batch(m)' = Batch(m)
  BY <1>6, <1>7 DEF Batch
<1>11. Underway(m, d, t, c)'
  BY <1>1, <1>6, <1>7, <1>9, <1>10 DEF Underway, Invalid
<1>12. Standing(m, d, t)'
  BY <1>1, <1>3, <1>6, <1>7, <1>11 DEF Standing, Invalid
<1>13. MachineInv(m)'
  BY <1>12 DEF MachineInv
<1>14. Apart(m)
  BY <1>1, <1>7 DEF Apart
<1> QED
  BY <1>8, <1>13, <1>14, OneMachine

\* A refused or failed request ends the upload and leaves what was stored.
LEMMA GiveUpStep ==
  ASSUME DeliveryInv, NEW m \in Machines, Refuse(m) \/ UploadFails(m)
  PROVE  DeliveryInv'
<1>1. UNCHANGED <<log, done, stored, ahead, announced>>
  BY DEF Refuse, UploadFails
<1>2. UploadTypes
  BY DEF DeliveryInv
<1>3. PICK d \in Nat, t \in Nat : Standing(m, d, t)
  BY DEF DeliveryInv, MachineInv
<1>4. Changed(m, NoUpload)
  BY <1>2, UploadForms
<1>5. /\ upload' \in [Machines -> UploadStates] /\ upload'[m] = NoUpload
      /\ \A n \in Machines : n # m => upload'[n] = upload[n]
  BY <1>2, <1>4, UploadTyped
<1>6. unheard' \in BOOLEAN /\ refusals' \in 0..UploadFaults
  <2>1. unheard' \in BOOLEAN
    BY <1>2 DEF Refuse, UploadFails, UploadTypes
  <2>2. CASE Refuse(m)
    BY <1>2, <2>1, <2>2 DEF Refuse, UploadTypes
  <2>3. CASE UploadFails(m)
    <3>1. refusals \in 0..UploadFaults /\ refusals < UploadFaults /\ refusals' = refusals + 1
      BY <1>2, <2>3 DEF UploadFails, UploadTypes
    <3>2. UploadFaults \in Nat
      BY UploadAssumption
    <3> QED
      BY <2>1, <3>1, <3>2
  <2> QED
    BY <2>2, <2>3
<1>7. UploadTypes'
  BY <1>1, <1>2, <1>5, <1>6 DEF UploadTypes
<1>8. NoUpload.at = "idle"
  BY DEF NoUpload
<1>9. Standing(m, d, t)'
  BY <1>1, <1>3, <1>5, <1>8 DEF Standing, Invalid
<1>10. MachineInv(m)'
  BY <1>9 DEF MachineInv
<1>11. Apart(m)
  BY <1>1, <1>5 DEF Apart
<1> QED
  BY <1>7, <1>10, <1>11, OneMachine

\* A batch is stored behind the ones before it.
LEMMA StoreBatchStep ==
  ASSUME DeliveryInv, NEW m \in Machines, StoreBatch(m)
  PROVE  DeliveryInv'
<1> DEFINE u == upload[m]
           w == [upload[m] EXCEPT !.at = "stored"]
           N == Len(u.batches)
           New == {<<m, i>> : i \in Batch(m)}
<1>1. /\ u.at = "read" /\ stored' = stored \cup New
      /\ UNCHANGED <<log, done, ahead, announced, unheard, refusals>>
  BY DEF StoreBatch
<1>2. UploadTypes /\ u \in UploadStates
  BY DEF DeliveryInv, UploadTypes
<1>3. PICK d \in Nat, t \in Nat : Standing(m, d, t)
  BY DEF DeliveryInv, MachineInv
<1>4. Changed(m, w)
  BY <1>1, <1>2, UploadForms
<1>5. w.at = "stored" /\ w.index = u.index /\ w.batches = u.batches
  BY <1>2 DEF UploadStates
<1> HIDE DEF w
<1>6. /\ upload' \in [Machines -> UploadStates] /\ upload'[m] = w
      /\ \A n \in Machines : n # m => upload'[n] = upload[n]
  BY <1>2, <1>4, UploadTyped
<1>7. PICK c : Underway(m, d, t, c)
  BY <1>1, <1>3 DEF Standing
<1>8. /\ N \in Nat /\ c \in [0..N -> Nat] /\ u.index \in 1..N
      /\ d <= c[u.index - 1] /\ c[u.index - 1] < c[u.index] /\ c[u.index] <= c[N]
      /\ c[N] <= Len(log[m]) /\ Len(log[m]) \in Nat /\ Len(log[m]) <= MaxLog
      /\ Batch(m) = (c[u.index - 1] + 1)..c[u.index]
  BY <1>2, <1>7, BatchIsRun
<1>9. u.index - 1 \in 0..N /\ u.index \in 0..N /\ N \in 0..N
  BY <1>8
<1> DEFINE x == c[u.index - 1]
           y == c[u.index]
<1>10. /\ x \in Nat /\ y \in Nat /\ c[N] \in Nat /\ MaxLog \in Nat
       /\ d <= x /\ x < y /\ y <= c[N] /\ c[N] <= Len(log[m]) /\ x <= t /\ Batch(m) = (x+1)..y
  BY <1>7, <1>8, <1>9, UploadAssumption DEF Underway
<1>11. PICK z \in Nat : /\ t <= z /\ y <= z /\ (z = t \/ z = y)
                        /\ d <= t /\ t <= Len(log[m])
  <2>1. d <= t /\ t <= Len(log[m])
    BY <1>3 DEF Standing
  <2> HIDE DEF y
  <2>2. CASE t < y
    BY <1>10, <2>1, <2>2
  <2>3. CASE ~(t < y)
    BY <1>10, <2>1, <2>3
  <2> QED
    BY <2>2, <2>3
<1>12. c[u.index - 1] <= z /\ c[u.index] <= z
  BY <1>10, <1>11
<1> DEFINE top == c[N]
           len == Len(log[m])
<1>13. /\ x \in Nat /\ y \in Nat /\ top \in Nat /\ len \in Nat /\ z \in Nat /\ MaxLog \in Nat
       /\ d <= x /\ x < y /\ y <= top /\ top <= len /\ len <= MaxLog /\ x <= t
       /\ d <= t /\ t <= len /\ t <= z /\ y <= z /\ (z = t \/ z = y) /\ Batch(m) = (x+1)..y
  BY <1>8, <1>10, <1>11
<1>14. /\ stored' = stored \cup New /\ New = {<<m, i>> : i \in Batch(m)}
       /\ (\A i \in Nat : <<m, i>> \in stored <=> i \in 1..t)
       /\ (\A i \in 1..t : Sendable(log[m][i]) /\ ~Invalid(log[m][i]))
       /\ (\A i \in (d+1)..top : Sendable(log[m][i]))
       /\ (\A i \in Batch(m) : ~Invalid(log[m][i]))
  BY <1>1, <1>3, <1>7 DEF Standing, Underway
<1> HIDE DEF x, y, top, len, New
<1>15. Batch(m) \subseteq 1..MaxLog /\ Batch(m) \subseteq (d+1)..top /\ Batch(m) \subseteq Nat
  BY <1>13
<1>16. IsFiniteSet(stored') /\ stored' \subseteq Machines \X (1..MaxLog)
  <2>1. New \subseteq {m} \X (1..MaxLog)
    BY <1>14, <1>15
  <2>2. IsFiniteSet({m}) /\ IsFiniteSet(1..MaxLog)
    <3>1. \A e : IsFiniteSet({e})
      BY FS_Singleton
    <3>2. \A i, j \in Int : IsFiniteSet(i..j)
      BY FS_Interval
    <3>3. 1 \in Int /\ MaxLog \in Int
      BY <1>13
    <3> QED
      BY <3>1, <3>2, <3>3
  <2>3. IsFiniteSet({m} \X (1..MaxLog))
    BY <2>2, FS_Product
  <2>4. IsFiniteSet(New)
    BY <2>1, <2>3, FS_Subset
  <2>5. IsFiniteSet(stored) /\ stored \subseteq Machines \X (1..MaxLog)
    BY <1>2 DEF UploadTypes
  <2>6. IsFiniteSet(stored \cup New)
    BY <2>4, <2>5, FS_Union
  <2> QED
    BY <1>14, <2>1, <2>5, <2>6
<1>17. UploadTypes'
  BY <1>1, <1>2, <1>6, <1>16 DEF UploadTypes
<1>18. Apart(m)
  BY <1>1, <1>6, <1>14 DEF Apart
<1>19. \A i \in Nat : <<m, i>> \in stored' <=> i \in 1..z
  <2> SUFFICES ASSUME NEW i \in Nat PROVE <<m, i>> \in stored' <=> i \in 1..z
    OBVIOUS
  <2>1. <<m, i>> \in New <=> i \in Batch(m)
    BY <1>14
  <2>2. <<m, i>> \in stored' <=> i \in 1..t \/ i \in Batch(m)
    BY <1>14, <2>1
  <2>3. i \in 1..t \/ i \in (x+1)..y <=> i \in 1..z
    BY <1>13
  <2> QED
    BY <1>13, <2>2, <2>3
<1>20. \A i \in 1..z : Sendable(log[m][i]) /\ ~Invalid(log[m][i])
  <2> SUFFICES ASSUME NEW i \in 1..z PROVE Sendable(log[m][i]) /\ ~Invalid(log[m][i])
    OBVIOUS
  <2>1. CASE i \in 1..t
    BY <1>14, <2>1
  <2>2. CASE i \notin 1..t
    <3>1. i \in Batch(m)
      BY <1>13, <2>2
    <3> QED
      BY <1>14, <1>15, <3>1
  <2> QED
    BY <2>1, <2>2
<1>21. d <= z /\ z <= Len(log[m])
  BY <1>13 DEF len
<1>22. Underway(m, d, z, c)'
  <2>1. /\ Divided(log[m], u.batches, c, d, c[N]) /\ c[N] <= Len(log[m])
        /\ \A i \in (d+1)..c[N] : Sendable(log[m][i])
        /\ u.index \in 1..N
    BY <1>7 DEF Underway
  <2>2. log' = log /\ upload'[m] = w /\ w.at = "stored" /\ w.index = u.index /\ w.batches = u.batches
    BY <1>1, <1>5, <1>6
  <2> QED
    BY <1>12, <2>1, <2>2 DEF Underway
<1>23. Standing(m, d, z)'
  <2>1. upload'[m].at # "idle"
    BY <1>5, <1>6
  <2>2. done'[m] = 1..d
    BY <1>1, <1>3 DEF Standing
  <2>3. \E e : Underway(m, d, z, e)'
    BY <1>22
  <2>4. log' = log /\ ahead' = ahead
    BY <1>1
  <2> QED
    BY <1>19, <1>20, <1>21, <2>1, <2>2, <2>3, <2>4 DEF Standing, Invalid
<1>24. MachineInv(m)'
  BY <1>13, <1>23 DEF MachineInv
<1> QED
  BY <1>17, <1>18, <1>24, OneMachine

\* An answered batch makes way for the next one; the last one commits the run.
LEMMA AnswerStep ==
  ASSUME DeliveryInv, NEW m \in Machines, Answer(m)
  PROVE  DeliveryInv'
<1> DEFINE u == upload[m]
           N == Len(u.batches)
<1>1. u.at = "stored" /\ UNCHANGED <<log, stored, ahead, unheard, refusals>>
  BY DEF Answer
<1>2. UploadTypes /\ u \in UploadStates
  BY DEF DeliveryInv, UploadTypes
<1>3. PICK d \in Nat, t \in Nat : Standing(m, d, t)
  BY DEF DeliveryInv, MachineInv
<1>4. PICK c : Underway(m, d, t, c)
  BY <1>1, <1>3 DEF Standing
<1>5. /\ N \in Nat /\ c \in [0..N -> Nat] /\ u.index \in 1..N
      /\ d <= c[u.index - 1] /\ c[u.index - 1] < c[u.index] /\ c[u.index] <= c[N]
      /\ c[N] <= Len(log[m]) /\ Len(log[m]) \in Nat /\ Len(log[m]) <= MaxLog
  BY <1>2, <1>4, BatchIsRun
<1>6. /\ Divided(log[m], u.batches, c, d, c[N]) /\ c[N] <= Len(log[m])
      /\ \A i \in (d+1)..c[N] : Sendable(log[m][i])
      /\ c[u.index] <= t
  BY <1>1, <1>4 DEF Underway
<1>7. CASE u.index < N
  <2> DEFINE w == [u EXCEPT !.at = "send", !.index = u.index + 1, !.span = Combined(m)]
  <2>1. Changed(m, w)
    BY <1>2, <1>7, UploadForms
  <2>2. w.at = "send" /\ w.index = u.index + 1 /\ w.batches = u.batches
    BY <1>2 DEF UploadStates
  <2> HIDE DEF w
  <2>3. /\ upload' \in [Machines -> UploadStates] /\ upload'[m] = w
        /\ \A n \in Machines : n # m => upload'[n] = upload[n]
    BY <1>2, <2>1, UploadTyped
  <2>4. done' = done /\ announced' = announced
    BY <1>7 DEF Answer
  <2>5. UploadTypes'
    BY <1>1, <1>2, <2>3, <2>4 DEF UploadTypes
  <2>6. u.index + 1 \in 1..N /\ (u.index + 1) - 1 = u.index
    BY <1>5, <1>7
  <2>7. Underway(m, d, t, c)'
    BY <1>1, <1>6, <2>2, <2>3, <2>6 DEF Underway
  <2>8. Standing(m, d, t)'
    BY <1>1, <1>3, <2>2, <2>3, <2>4, <2>7 DEF Standing, Invalid
  <2>9. MachineInv(m)'
    BY <2>8 DEF MachineInv
  <2>10. Apart(m)
    BY <1>1, <2>3, <2>4 DEF Apart
  <2> QED
    BY <2>5, <2>9, <2>10, OneMachine
<1>8. CASE ~(u.index < N)
  <2> DEFINE Sent == UNION {Range(u.batches[n]) : n \in DOMAIN u.batches}
  <2>1. Changed(m, NoUpload)
    BY <1>2, <1>8, UploadForms
  <2>2. /\ upload' \in [Machines -> UploadStates] /\ upload'[m] = NoUpload
        /\ \A n \in Machines : n # m => upload'[n] = upload[n]
    BY <1>2, <2>1, UploadTyped
  <2>3. done' = [done EXCEPT ![m] = @ \cup Sent] /\ announced' = announced \cup Combined(m)
    BY <1>8 DEF Answer
  <2>4. done[m] = 1..d /\ done \in [Machines -> SUBSET Nat] /\ d <= t /\ t <= Len(log[m])
    BY <1>2, <1>3 DEF Standing, UploadTypes
  <2>5. Sent = (d+1)..c[N]
    <3>1. /\ u.batches \in Seq(Seq(Nat)) /\ DOMAIN u.batches = 1..N /\ c[0] = d
          /\ \A i, j \in 0..N : i < j => c[i] < c[j]
          /\ \A n \in 1..N : u.batches[n] = Run(c[n-1], c[n])
          /\ \A i \in (d+1)..c[N] : \E n \in 1..N : c[n-1] < i /\ i <= c[n]
      <4> DEFINE y == c[N]
                 bs == u.batches
      <4>1. Divided(log[m], bs, c, d, y) /\ Len(bs) = N
        BY <1>6
      <4> HIDE DEF y, bs, N
      <4>2. /\ bs \in Seq(Seq(Nat)) /\ DOMAIN bs = 1..N /\ c[0] = d
            /\ \A i, j \in 0..N : i < j => c[i] < c[j]
            /\ \A n \in 1..N : bs[n] = Run(c[n-1], c[n])
            /\ \A i \in (d+1)..y : \E n \in 1..N : c[n-1] < i /\ i <= c[n]
        BY <4>1 DEF Divided, Cut
      <4> QED
        BY <4>2 DEF y, bs
    <3>2. ASSUME NEW n \in 1..N
          PROVE  /\ Range(u.batches[n]) = (c[n-1] + 1)..c[n]
                 /\ c[n-1] \in Nat /\ c[n] \in Nat /\ d <= c[n-1] /\ c[n] <= c[N]
      <4> HIDE DEF N
      <4>1. n - 1 \in 0..N /\ n \in 0..N /\ N \in 0..N /\ 0 \in 0..N /\ n - 1 < n
            /\ (n - 1 = 0 \/ 0 < n - 1) /\ (n = N \/ n < N)
        BY <1>5
      <4>0. c \in [0..N -> Nat] /\ c[0] = d /\ \A i, j \in 0..N : i < j => c[i] < c[j]
        BY <1>5, <3>1
      <4>2. /\ c[n-1] \in Nat /\ c[n] \in Nat /\ c[N] \in Nat
            /\ d <= c[n-1] /\ c[n] <= c[N] /\ c[n-1] <= c[n]
        BY <4>0, <4>1
      <4> DEFINE x == c[n-1]
                 y == c[n]
      <4>3. x \in Nat /\ y \in Nat /\ x <= y
        BY <4>2
      <4> HIDE DEF x, y
      <4>4. Range(Run(x, y)) = (x + 1)..y
        BY <4>3, RunFacts
      <4> QED
        BY <3>1, <4>2, <4>4 DEF x, y
    <3>3. Sent \subseteq (d+1)..c[N]
      <4> SUFFICES ASSUME NEW n \in 1..N, NEW i \in Range(u.batches[n]) PROVE i \in (d+1)..c[N]
        BY <3>1
      <4>1. i \in (c[n-1] + 1)..c[n] /\ c[N] \in Nat
        <5>1. N \in 0..N
          BY <1>5
        <5> QED
          BY <1>5, <3>2, <5>1
      <4> QED
        BY <3>2, <4>1
    <3>4. (d+1)..c[N] \subseteq Sent
      <4> SUFFICES ASSUME NEW i \in (d+1)..c[N] PROVE i \in Sent
        OBVIOUS
      <4>1. PICK n \in 1..N : c[n-1] < i /\ i <= c[n]
        BY <3>1
      <4>2. i \in (c[n-1] + 1)..c[n]
        BY <3>2, <4>1
      <4> QED
        BY <3>1, <3>2, <4>2
    <3> QED
      BY <3>3, <3>4
  <2> HIDE DEF Sent
  <2>6. N \in 0..N /\ u.index = N
    BY <1>5, <1>8
  <2>7. c[N] \in Nat /\ d <= c[N] /\ c[N] <= t
    <3>1. u.index - 1 \in 0..N
      BY <1>5
    <3>2. c[N] \in Nat /\ c[u.index - 1] \in Nat
      BY <1>5, <2>6, <3>1
    <3> QED
      BY <1>5, <1>6, <2>6, <3>2
  <2>8. done'[m] = 1..c[N] /\ done' \in [Machines -> SUBSET Nat]
        /\ \A n \in Machines : n # m => done'[n] = done[n]
    <3>1. (1..d) \cup ((d+1)..c[N]) = 1..c[N]
      BY <2>7
    <3>2. (1..d) \cup Sent \in SUBSET Nat
      BY <2>5, <2>7
    <3> QED
      BY <2>3, <2>4, <2>5, <3>1, <3>2
  <2>9. announced' \subseteq 1..Len(Thresholds)
    BY <1>2, <2>3, UploadForms DEF UploadTypes
  <2>10. UploadTypes'
    BY <1>1, <1>2, <2>2, <2>8, <2>9 DEF UploadTypes
  <2>11. NoUpload.at = "idle"
    BY DEF NoUpload
  <2>12. PICK e \in Nat : e = c[N]
    BY <2>7
  <2>13. MachineInv(m)'
    <3>1. e <= t /\ done'[m] = 1..e
      BY <2>7, <2>8, <2>12
    <3>2. /\ t <= Len(log[m])
          /\ \A i \in Nat : <<m, i>> \in stored <=> i \in 1..t
          /\ \A i \in 1..t : Sendable(log[m][i]) /\ ~Invalid(log[m][i])
      BY <1>3 DEF Standing
    <3>3. log' = log /\ stored' = stored /\ ahead' = ahead /\ upload'[m] = NoUpload
          /\ upload'[m].at = "idle"
      BY <1>1, <2>2, <2>11
    <3>4. Standing(m, e, t)'
      BY <3>1, <3>2, <3>3 DEF Standing, Invalid
    <3> QED
      BY <3>4 DEF MachineInv
  <2>14. Apart(m)
    BY <1>1, <2>2, <2>8 DEF Apart
  <2> QED
    BY <2>10, <2>13, <2>14, OneMachine
<1> QED
  BY <1>7, <1>8

-----------------------------------------------------------------------------
\* Every step keeps the delivery invariant.
LEMMA DeliveryNext == DeliveryInv /\ [UploadNext]_upvars => DeliveryInv'
<1> SUFFICES ASSUME DeliveryInv, [UploadNext]_upvars PROVE DeliveryInv'
  OBVIOUS
<1>1. CASE UNCHANGED upvars
  <2>1. /\ log' = log /\ done' = done /\ upload' = upload /\ stored' = stored /\ ahead' = ahead
        /\ announced' = announced /\ unheard' = unheard /\ refusals' = refusals
    BY <1>1 DEF upvars
  <2>2. UploadTypes'
    BY <2>1 DEF DeliveryInv, UploadTypes
  <2>3. \A m \in Machines : MachineInv(m)'
    BY <2>1, MachineFrame DEF DeliveryInv
  <2> QED
    BY <2>2, <2>3 DEF DeliveryInv
<1>2. CASE HubClock
  BY <1>2, HubClockStep
<1>3. ASSUME NEW m \in Machines,
             \/ Record(m) \/ BeginUpload(m) \/ ReadBefore(m) \/ StoreBatch(m)
             \/ Answer(m) \/ Refuse(m) \/ UploadFails(m)
      PROVE  DeliveryInv'
  BY <1>3, RecordStep, BeginUploadStep, ReadBeforeStep, StoreBatchStep, AnswerStep, GiveUpStep
<1> QED
  BY <1>1, <1>2, <1>3 DEF UploadNext

\* The delivery invariant always holds.
LEMMA DeliveryInvariant == UploadSpec => []DeliveryInv
BY DeliveryInit, DeliveryNext, PTL DEF UploadSpec

\* The batches of an upload under way are not empty and keep both limits.
LEMMA BatchesFit ==
  ASSUME UploadTypes, NEW m \in Machines, NEW d \in Nat, NEW t \in Nat, NEW c, Underway(m, d, t, c),
         NEW n \in DOMAIN upload[m].batches
  PROVE  LET batch == upload[m].batches[n] IN
         batch # <<>> /\ Len(batch) <= BatchEvents /\ Weight(log[m], batch) <= BatchBytes
<1> DEFINE bs == upload[m].batches
           N == Len(bs)
           x == c[n-1]
           y == c[n]
<1>1. /\ bs \in Seq(Seq(Nat)) /\ c \in [0..N -> Nat]
      /\ \A i, j \in 0..N : i < j => c[i] < c[j]
      /\ \A k \in 1..N : bs[k] = Run(c[k-1], c[k])
      /\ \A k \in 1..N : Fits(log[m], c[k-1], c[k])
  BY DEF Underway, Divided, Cut, AllFit
<1>2. N \in Nat /\ n \in 1..N /\ n - 1 \in 0..N /\ n \in 0..N /\ n - 1 < n
  BY SMTT(40), <1>1
<1>3. x \in Nat /\ y \in Nat /\ x < y /\ bs[n] = Run(x, y) /\ Fits(log[m], x, y)
  BY <1>1, <1>2
<1> HIDE DEF x, y, bs
<1>4. Run(x, y) # <<>> /\ Len(Run(x, y)) = y - x
  <2>1. x <= y
    BY <1>3
  <2> QED
    BY <1>3, <2>1, RunFacts
<1> QED
  BY <1>3, <1>4 DEF bs, Fits

\* Logs, uploads and rows have the shape the code gives them, and no batch
\* exceeds the limit of events or of bytes (splitIngestBatches), for any machines,
\* records, limits and failures.
THEOREM UploadTypeCorrect == UploadSpec => []UploadTypeOK
<1>1. DeliveryInv => UploadTypeOK
  <2> SUFFICES ASSUME DeliveryInv PROVE UploadTypeOK
    OBVIOUS
  <2>1. UploadTypes
    BY DEF DeliveryInv
  <2>2. ASSUME NEW m \in Machines
        PROVE  /\ done[m] \subseteq 1..Len(log[m])
               /\ upload[m].at \in {"idle", "send", "read", "stored"}
               /\ \A n \in DOMAIN upload[m].batches :
                     LET batch == upload[m].batches[n] IN
                     batch # <<>> /\ Len(batch) <= BatchEvents /\ Weight(log[m], batch) <= BatchBytes
    <3>1. PICK d \in Nat, t \in Nat : Standing(m, d, t)
      BY DEF DeliveryInv, MachineInv
    <3>2. Len(log[m]) \in Nat /\ upload[m] \in UploadStates
      BY <2>1 DEF UploadTypes
    <3>3. done[m] \subseteq 1..Len(log[m])
      BY <3>1, <3>2 DEF Standing
    <3>4. upload[m].at \in {"idle", "send", "read", "stored"}
      BY <3>2 DEF UploadStates
    <3>5. CASE upload[m].at = "idle"
      <4>1. upload[m].batches = <<>>
        BY <3>1, <3>5 DEF Standing, NoUpload
      <4> QED
        BY <3>3, <3>4, <4>1
    <3>6. CASE upload[m].at # "idle"
      <4>1. PICK c : Underway(m, d, t, c)
        BY <3>1, <3>6 DEF Standing
      <4> QED
        BY <2>1, <3>3, <3>4, <4>1, BatchesFit
    <3> QED
      BY <3>5, <3>6
  <2>3. \A m \in Machines : \A n \in DOMAIN upload[m].batches :
           LET batch == upload[m].batches[n] IN
           /\ batch # <<>> /\ Len(batch) <= BatchEvents
           /\ FoldLeft(LAMBDA s, i : s + Bytes(log[m][i]), 0, batch) <= BatchBytes
    BY <2>2 DEF Weight
  <2> QED
    BY <2>1, <2>2, <2>3 DEF UploadTypeOK, UploadTypes
<1> QED
  BY <1>1, DeliveryInvariant, PTL

\* What a machine has at the hub is an unbroken beginning of its log, nothing
\* withheld or invalid is among it, and what is committed is there (Client.Ingest,
\* RunOnce, Store.Ingest), for any number of machines, records and failed requests.
THEOREM RecordsStoredInOrder == UploadSpec => []StoredInOrder
<1>1. DeliveryInv => StoredInOrder
  <2> SUFFICES ASSUME DeliveryInv, NEW m \in Machines
               PROVE  LET there == {i \in 1..Len(log[m]) : <<m, i>> \in stored} IN
                      /\ \A i \in there : 1..i \subseteq there
                      /\ \A i \in there : ~Withheld(m, <<i>>) /\ ~Invalid(log[m][i])
                      /\ done[m] \subseteq there
    BY DEF StoredInOrder
  <2> DEFINE there == {i \in 1..Len(log[m]) : <<m, i>> \in stored}
  <2>1. PICK d \in Nat, t \in Nat : Standing(m, d, t)
    BY DEF DeliveryInv, MachineInv
  <2>2. Len(log[m]) \in Nat
    BY DEF DeliveryInv, UploadTypes
  <2>3. there = 1..t
    BY <2>1, <2>2 DEF Standing
  <2>4. ASSUME NEW i \in 1..t PROVE ~Withheld(m, <<i>>) /\ ~Invalid(log[m][i])
    <3>1. Sendable(log[m][i]) /\ ~Invalid(log[m][i])
      BY <2>1 DEF Standing
    <3>2. DOMAIN <<i>> = {1} /\ <<i>>[1] = i
      OBVIOUS
    <3>3. Bytes(log[m][i]) \in Nat
      BY BytesNat
    <3> QED
      BY <3>1, <3>2, <3>3, UploadAssumption DEF Sendable, Withheld
  <2>5. done[m] = 1..d /\ d <= t
    BY <2>1 DEF Standing
  <2> HIDE DEF there
  <2>6. \A i \in there : 1..i \subseteq there
    BY <2>3
  <2>7. done[m] \subseteq there
    BY <2>3, <2>5
  <2>8. \A i \in there : ~Withheld(m, <<i>>) /\ ~Invalid(log[m][i])
    BY <2>3, <2>4
  <2> QED
    BY <2>6, <2>7, <2>8 DEF there
<1> QED
  BY <1>1, DeliveryInvariant, PTL

-----------------------------------------------------------------------------
(* The stages.  Whoever stored last before the total reached a stage has not  *)
(* yet been answered, or has the stage in what it will report.                *)
Reached == Stage(Total)

Pending(m, k) ==
  /\ upload[m].at # "idle"
  /\ k \in upload[m].span \/ (upload[m].at = "stored" /\ upload[m].prev < k)

Consistent(m) ==
  /\ upload[m].at \in {"read", "stored"} => upload[m].prev <= Reached
  /\ upload[m].span # {} => upload[m].index > 1

StageInv ==
  /\ \A m \in Machines : Consistent(m)
  /\ unheard \/ \A k \in 1..Reached : k \in announced \/ \E m \in Machines : Pending(m, k)

\* The lifetime total never falls.
LEMMA TotalGrows ==
  ASSUME UploadTypes, UploadTypes', stored \subseteq stored',
         \A e \in stored : log'[e[1]][e[2]] = log[e[1]][e[2]]
  PROVE  /\ Reached \in Nat /\ Reached' \in Nat /\ Reached <= Reached'
         /\ stored' = stored => Reached' = Reached
<1> DEFINE Counted == {e \in stored : Tokens(log[e[1]][e[2]]) = 1}
           Later == {e \in stored' : Tokens(log'[e[1]][e[2]]) = 1}
<1>1. Counted \subseteq Later /\ Later \subseteq stored' /\ (stored' = stored => Later = Counted)
  OBVIOUS
<1>2. IsFiniteSet(Later)
  <2>1. IsFiniteSet(stored')
    BY DEF UploadTypes
  <2> HIDE DEF Later
  <2> QED
    BY <1>1, <2>1, FS_Subset
<1>3. Total = Cardinality(Counted) /\ Total' = Cardinality(Later)
  BY DEF Total, Tokens
<1> HIDE DEF Counted, Later
<1>4. Cardinality(Counted) <= Cardinality(Later) /\ IsFiniteSet(Counted)
  BY <1>1, <1>2, FS_Subset
<1> DEFINE a == Cardinality(Counted)
           b == Cardinality(Later)
<1>5. a \in Nat /\ b \in Nat /\ a <= b
  BY <1>2, <1>4, FS_CardinalityType
<1>6. Reached = Stage(a) /\ Reached' = Stage(b) /\ (stored' = stored => a = b)
  BY <1>1, <1>3 DEF Reached, Stage
<1> HIDE DEF a, b
<1>7. Stage(a) \in Nat /\ Stage(b) \in Nat /\ Stage(a) <= Stage(b)
  <2>1. Stage(a) \in 0..Len(Thresholds) /\ Stage(a) <= Stage(b)
    BY <1>5, StageGrows
  <2>2. Stage(b) \in 0..Len(Thresholds)
    <3>1. b <= b
      BY <1>5
    <3> QED
      BY <1>5, <3>1, StageGrows
  <2> QED
    BY <2>1, <2>2, ThresholdsFinite
<1> QED
  BY <1>6, <1>7

\* What a step of machine m has to do with the stages.
Reports(m) ==
  /\ \A n \in Machines : n # m => upload'[n] = upload[n]
  /\ announced \subseteq announced' /\ (unheard => unheard')
  /\ Reached \in Nat /\ Reached' \in Nat /\ Reached <= Reached'
  /\ Consistent(m)'
  /\ unheard' \/ \A k \in 1..Reached : Pending(m, k) => k \in announced' \/ Pending(m, k)'
  /\ unheard' \/ \A k \in (Reached + 1)..Reached' : Pending(m, k)'

\* A step of one machine leaves what the others will report alone.
LEMMA OneStage ==
  ASSUME StageInv, NEW m \in Machines, UploadTypes, UploadTypes', Reports(m)
  PROVE  StageInv'
<1>1. ASSUME NEW n \in Machines PROVE Consistent(n)'
  <2>1. CASE n = m
    BY <2>1 DEF Reports
  <2>2. CASE n # m
    <3>1. upload'[n] = upload[n] /\ Reached \in Nat /\ Reached' \in Nat /\ Reached <= Reached'
      BY <2>2 DEF Reports
    <3>2. Consistent(n) /\ upload[n].prev \in Nat
      BY DEF StageInv, UploadTypes, UploadStates
    <3> QED
      BY <3>1, <3>2 DEF Consistent
  <2> QED
    BY <2>1, <2>2
<1>2. ASSUME ~unheard', NEW k \in 1..Reached'
      PROVE  k \in announced' \/ \E n \in Machines : Pending(n, k)'
  <2>1. /\ ~unheard /\ Reached \in Nat /\ Reached' \in Nat /\ Reached <= Reached'
        /\ \A j \in 1..Reached : Pending(m, j) => j \in announced' \/ Pending(m, j)'
        /\ \A j \in (Reached + 1)..Reached' : Pending(m, j)'
        /\ announced \subseteq announced'
        /\ \A n \in Machines : n # m => upload'[n] = upload[n]
    BY <1>2 DEF Reports
  <2>2. CASE k <= Reached
    <3>1. k \in 1..Reached
      BY <2>1, <2>2
    <3>2. CASE k \in announced
      BY <2>1, <3>2
    <3>3. CASE k \notin announced
      <4>1. PICK n \in Machines : Pending(n, k)
        BY <2>1, <3>1, <3>3 DEF StageInv
      <4>2. CASE n = m
        BY <2>1, <3>1, <4>1, <4>2
      <4>3. CASE n # m
        <5>1. Pending(n, k)'
          BY <2>1, <4>1, <4>3 DEF Pending
        <5> QED
          BY <5>1
      <4> QED
        BY <4>2, <4>3
    <3> QED
      BY <3>2, <3>3
  <2>3. CASE ~(k <= Reached)
    <3>1. k \in (Reached + 1)..Reached'
      BY <2>1, <2>3
    <3> QED
      BY <2>1, <3>1
  <2> QED
    BY <2>2, <2>3
<1> QED
  BY <1>1, <1>2 DEF StageInv

\* Before the first record no stage is reached.
LEMMA StageInit == UploadInit => StageInv
<1> SUFFICES ASSUME UploadInit PROVE StageInv
  OBVIOUS
<1>1. \A m \in Machines : Consistent(m)
  BY DEF UploadInit, Consistent, NoUpload
<1>2. Total = 0
  <2>1. {e \in stored : Tokens(log[e[1]][e[2]]) = 1} = {}
    BY DEF UploadInit
  <2> QED
    BY <2>1, FS_EmptySet DEF Total
<1>3. Stage(0) = 0
  <2>1. {k \in DOMAIN Thresholds : 0 >= Thresholds[k]} = {}
    BY UploadAssumption
  <2> QED
    BY <2>1, FS_EmptySet DEF Stage
<1>4. 1..Reached = {}
  BY <1>2, <1>3 DEF Reached
<1> QED
  BY <1>1, <1>4 DEF StageInv

\* A step that stores nothing leaves the total alone.
LEMMA SameTotal ==
  ASSUME UploadTypes, UploadTypes', stored' = stored,
         \A e \in stored : log'[e[1]][e[2]] = log[e[1]][e[2]]
  PROVE  /\ Reached \in Nat /\ Reached' = Reached /\ Reached <= Reached'
         /\ (Reached + 1)..Reached' = {}
<1>1. Reached \in Nat /\ Reached' = Reached
  BY TotalGrows
<1> DEFINE r == Reached
           q == Reached'
<1>2. r \in Nat /\ q = r
  BY <1>1
<1> HIDE DEF r, q
<1>3. r <= q /\ (r + 1)..q = {}
  BY <1>2
<1> QED
  BY <1>1, <1>3 DEF r, q

\* The log keeps what the hub has counted.
LEMMA CountedStays ==
  ASSUME DeliveryInv, NEW m \in Machines, Record(m)
  PROVE  \A e \in stored : log'[e[1]][e[2]] = log[e[1]][e[2]]
<1> SUFFICES ASSUME NEW e \in stored PROVE log'[e[1]][e[2]] = log[e[1]][e[2]]
  OBVIOUS
<1>1. UploadTypes
  BY DEF DeliveryInv
<1>2. PICK n \in Machines, i \in 1..MaxLog : e = <<n, i>>
  BY <1>1 DEF UploadTypes
<1>3. PICK k \in Written[m] : log' = [log EXCEPT ![m] = Append(@, k)]
  BY DEF Record
<1>4. i \in 1..Len(log[n])
  <2>1. PICK d \in Nat, t \in Nat : Standing(n, d, t)
    BY DEF DeliveryInv, MachineInv
  <2>2. i \in Nat /\ Len(log[n]) \in Nat
    BY <1>1, UploadAssumption DEF UploadTypes
  <2>3. i \in 1..t /\ t <= Len(log[n])
    BY <1>2, <2>1, <2>2 DEF Standing
  <2> QED
    BY <2>2, <2>3
<1>5. log \in [Machines -> Seq(RecordKinds)]
  BY <1>1 DEF UploadTypes
<1>6. CASE n = m
  <2>1. log'[n] = Append(log[n], k) /\ log[n] \in Seq(RecordKinds)
    BY <1>3, <1>5, <1>6
  <2>2. Append(log[n], k)[i] = log[n][i]
    BY <1>4, <2>1
  <2> QED
    BY <1>2, <2>1, <2>2
<1>7. CASE n # m
  BY <1>2, <1>3, <1>5, <1>7
<1> QED
  BY <1>6, <1>7

\* Every step keeps each stage reached announced, pending, or lost to a failure.
LEMMA StageNext ==
  ASSUME DeliveryInv, DeliveryInv', StageInv, [UploadNext]_upvars
  PROVE  StageInv'
<1>1. UploadTypes /\ UploadTypes'
  BY DEF DeliveryInv
<1>2. NoUpload.at = "idle" /\ NoUpload.span = {} /\ NoUpload.index = 0
  BY DEF NoUpload
<1>3. CASE UNCHANGED upvars \/ HubClock
  <2>1. log' = log /\ upload' = upload /\ stored' = stored /\ announced' = announced /\ unheard' = unheard
    BY <1>3 DEF upvars, HubClock
  <2>2. Reached' = Reached
    BY <2>1 DEF Reached, Total
  <2> QED
    BY <2>1, <2>2 DEF StageInv, Consistent, Pending
<1>4. ASSUME NEW m \in Machines, Record(m) PROVE StageInv'
  <2>1. upload' = upload /\ stored' = stored /\ announced' = announced /\ unheard' = unheard
    BY <1>4 DEF Record
  <2>2. Reached' = Reached
    BY <1>1, <1>4, <2>1, CountedStays, SameTotal
  <2> QED
    BY <2>1, <2>2 DEF StageInv, Consistent, Pending
<1>5. ASSUME NEW m \in Machines, BeginUpload(m) PROVE StageInv'
  <2> DEFINE w == [NoUpload EXCEPT !.at = "send", !.index = 1, !.batches = Split(m, Collected(m))]
  <2>1. /\ upload[m].at = "idle" /\ upload' = [upload EXCEPT ![m] = w]
        /\ log' = log /\ stored' = stored /\ announced' = announced /\ unheard' = unheard
    BY <1>5 DEF BeginUpload
  <2>2. w.at = "send" /\ w.span = {}
    BY DEF NoUpload
  <2> HIDE DEF w
  <2>3. upload'[m] = w /\ \A n \in Machines : n # m => upload'[n] = upload[n]
    BY <1>1, <2>1 DEF UploadTypes
  <2>4. /\ Reached \in Nat /\ Reached' = Reached /\ Reached <= Reached'
        /\ (Reached + 1)..Reached' = {}
    BY <1>1, <2>1, SameTotal
  <2>5. Consistent(m)' /\ \A k : ~Pending(m, k)
    BY <2>1, <2>2, <2>3 DEF Consistent, Pending
  <2>6. Reports(m)
    BY <2>1, <2>3, <2>4, <2>5 DEF Reports
  <2> QED
    BY <1>1, <2>6, OneStage
<1>6. ASSUME NEW m \in Machines, ReadBefore(m) PROVE StageInv'
  <2> DEFINE w == [upload[m] EXCEPT !.at = "read", !.prev = Stage(Total)]
  <2>1. /\ upload[m].at = "send" /\ Changed(m, w)
        /\ log' = log /\ stored' = stored /\ announced' = announced /\ unheard' = unheard
    BY <1>1, <1>6, UploadForms DEF ReadBefore
  <2>2. w.at = "read" /\ w.span = upload[m].span /\ w.prev = Reached /\ w.index = upload[m].index
    BY <1>1 DEF UploadTypes, UploadStates, Reached
  <2> HIDE DEF w
  <2>3. upload'[m] = w /\ \A n \in Machines : n # m => upload'[n] = upload[n]
    BY <1>1, <2>1, UploadTyped
  <2>4. /\ Reached \in Nat /\ Reached' = Reached /\ Reached <= Reached'
        /\ (Reached + 1)..Reached' = {}
    BY <1>1, <2>1, SameTotal
  <2>5. Consistent(m)'
    BY <2>2, <2>3, <2>4 DEF Consistent, StageInv
  <2>6. \A k : Pending(m, k) => Pending(m, k)'
    BY <2>1, <2>2, <2>3 DEF Pending
  <2>7. Reports(m)
    BY <2>1, <2>3, <2>4, <2>5, <2>6 DEF Reports
  <2> QED
    BY <1>1, <2>7, OneStage
<1>7. ASSUME NEW m \in Machines, StoreBatch(m) PROVE StageInv'
  <2> DEFINE w == [upload[m] EXCEPT !.at = "stored"]
  <2>1. /\ upload[m].at = "read" /\ Changed(m, w) /\ stored \subseteq stored'
        /\ log' = log /\ announced' = announced /\ unheard' = unheard
    BY <1>1, <1>7, UploadForms DEF StoreBatch
  <2>2. /\ w.at = "stored" /\ w.span = upload[m].span /\ w.prev = upload[m].prev
        /\ w.index = upload[m].index /\ w.prev \in Nat
    BY <1>1 DEF UploadTypes, UploadStates
  <2> HIDE DEF w
  <2>3. upload'[m] = w /\ \A n \in Machines : n # m => upload'[n] = upload[n]
    BY <1>1, <2>1, UploadTyped
  <2>4. Reached \in Nat /\ Reached' \in Nat /\ Reached <= Reached'
    BY <1>1, <2>1, TotalGrows
  <2>5. w.prev <= Reached /\ (w.span # {} => w.index > 1)
    BY <2>1, <2>2 DEF StageInv, Consistent
  <2>6. Consistent(m)'
    BY <2>2, <2>3, <2>4, <2>5 DEF Consistent
  <2>7. \A k : Pending(m, k) => Pending(m, k)'
    BY <2>1, <2>2, <2>3 DEF Pending
  <2>8. \A k \in (Reached + 1)..Reached' : Pending(m, k)'
    <3>1. \A k \in (Reached + 1)..Reached' : w.prev < k
      BY <2>2, <2>4, <2>5
    <3> QED
      BY <2>2, <2>3, <3>1 DEF Pending
  <2>9. Reports(m)
    BY <2>1, <2>3, <2>4, <2>6, <2>7, <2>8 DEF Reports
  <2> QED
    BY <1>1, <2>9, OneStage
<1>8. ASSUME NEW m \in Machines, Answer(m) PROVE StageInv'
  <2>1. /\ upload[m].at = "stored" /\ log' = log /\ stored' = stored /\ unheard' = unheard
    BY <1>8 DEF Answer
  <2>2. /\ Reached \in Nat /\ Reached' = Reached /\ Reached <= Reached'
        /\ (Reached + 1)..Reached' = {}
    BY <1>1, <2>1, SameTotal
  <2>3. upload[m] \in UploadStates
    BY <1>1 DEF UploadTypes
  <2>4. \A k \in 1..Reached : Pending(m, k) => k \in Combined(m)
    <3>1. upload[m].prev \in Nat
      BY <2>3 DEF UploadStates
    <3> DEFINE p == upload[m].prev
               r == Reached
    <3>2. p \in Nat /\ r \in Nat
      BY <2>2, <3>1
    <3> HIDE DEF p, r
    <3>3. \A k \in 1..r : p < k => k \in (p + 1)..r
      BY <3>2
    <3> QED
      BY <3>3 DEF p, r, Pending, Combined, Reached
  <2>5. CASE upload[m].index < Len(upload[m].batches)
    <3> DEFINE w == [upload[m] EXCEPT !.at = "send", !.index = upload[m].index + 1, !.span = Combined(m)]
    <3>1. Changed(m, w) /\ announced' = announced
      BY <1>1, <1>8, <2>5, UploadForms DEF Answer
    <3>2. w.at = "send" /\ w.span = Combined(m) /\ w.index = upload[m].index + 1
      BY <2>3 DEF UploadStates
    <3> HIDE DEF w
    <3>3. upload'[m] = w /\ \A n \in Machines : n # m => upload'[n] = upload[n]
      BY <1>1, <3>1, UploadTyped
    <3>4. w.index > 1
      <4>1. PICK d \in Nat, t \in Nat : Standing(m, d, t)
        BY DEF DeliveryInv, MachineInv
      <4>2. PICK c : Underway(m, d, t, c)
        BY <2>1, <4>1 DEF Standing
      <4>3. upload[m].index \in Nat /\ upload[m].index >= 1
        BY <1>1, <4>2, BatchIsRun
      <4> QED
        BY <3>2, <4>3
    <3>5. Consistent(m)'
      BY <3>2, <3>3, <3>4 DEF Consistent
    <3>6. \A k \in 1..Reached : Pending(m, k) => Pending(m, k)'
      BY <2>4, <3>2, <3>3 DEF Pending
    <3>7. Reports(m)
      BY <2>1, <2>2, <3>1, <3>3, <3>5, <3>6 DEF Reports
    <3> QED
      BY <1>1, <3>7, OneStage
  <2>6. CASE ~(upload[m].index < Len(upload[m].batches))
    <3>1. Changed(m, NoUpload) /\ announced' = announced \cup Combined(m)
      BY <1>1, <1>8, <2>6, UploadForms DEF Answer
    <3>2. upload'[m] = NoUpload /\ \A n \in Machines : n # m => upload'[n] = upload[n]
      BY <1>1, <3>1, UploadTyped
    <3>3. Consistent(m)'
      BY <1>2, <3>2 DEF Consistent
    <3>4. \A k \in 1..Reached : Pending(m, k) => k \in announced'
      BY <2>4, <3>1
    <3>5. Reports(m)
      BY <2>1, <2>2, <3>1, <3>2, <3>3, <3>4 DEF Reports
    <3> QED
      BY <1>1, <3>5, OneStage
  <2> QED
    BY <2>5, <2>6
<1>9. ASSUME NEW m \in Machines, Refuse(m) \/ UploadFails(m) PROVE StageInv'
  <2>1. /\ log' = log /\ stored' = stored /\ announced' = announced /\ Changed(m, NoUpload)
        /\ unheard => unheard'
        /\ unheard' \/ (~(upload[m].index > 1) /\ upload[m].at # "stored")
    <3>1. Changed(m, NoUpload)
      BY <1>1, <1>9, UploadForms
    <3>2. CASE Refuse(m)
      BY <3>1, <3>2 DEF Refuse
    <3>3. CASE UploadFails(m)
      BY <3>1, <3>3 DEF UploadFails
    <3> QED
      BY <1>9, <3>2, <3>3
  <2>2. upload'[m] = NoUpload /\ \A n \in Machines : n # m => upload'[n] = upload[n]
    BY <1>1, <2>1, UploadTyped
  <2>3. /\ Reached \in Nat /\ Reached' = Reached /\ Reached <= Reached'
        /\ (Reached + 1)..Reached' = {}
    BY <1>1, <2>1, SameTotal
  <2>4. Consistent(m)'
    BY <1>2, <2>2 DEF Consistent
  <2>5. unheard' \/ \A k : ~Pending(m, k)
    BY <2>1 DEF StageInv, Consistent, Pending
  <2>6. Reports(m)
    BY <2>1, <2>2, <2>3, <2>4, <2>5 DEF Reports
  <2> QED
    BY <1>1, <2>6, OneStage
<1> QED
  BY <1>3, <1>4, <1>5, <1>6, <1>7, <1>8, <1>9 DEF UploadNext

\* Every stage the lifetime total has reached was announced, once all uploads have
\* ended and none failed after it had stored something (crossedStages and the
\* combined result of Client.Ingest), however the uploads of several machines
\* interleave.
THEOREM EvolutionIsAnnounced == UploadSpec => []EvolutionAnnounced
<1>1. StageInv => EvolutionAnnounced
  BY DEF StageInv, EvolutionAnnounced, Pending, Reached
<1>2. DeliveryInv /\ DeliveryInv' /\ StageInv /\ [UploadNext]_upvars => StageInv'
  BY StageNext
<1> QED
  BY <1>1, <1>2, StageInit, DeliveryInvariant, PTL DEF UploadSpec

------------------------------------------------------------------------------
(*****************************************************************************)
(* The recap. A kept output is grounded in the evidence it is kept under,    *)
(* and the evidence of a page in its cards.                                  *)
(*****************************************************************************)

(* What holds of one page being served.                                       *)
PageInv(s) ==
    /\ s.phase \in {"idle", "cards", "asking", "shown"}
    /\ s.phase # "idle" => s.page \in CardSets
    /\ s.phase = "asking" => s.body = Aggregate(s.page)
    /\ s.phase = "shown" /\ s.text # NoRecap =>
          /\ s.text.refs \subseteq DOMAIN s.page
          /\ s.text.figures \subseteq FiguresOf(s.page)
          /\ s.age = 0 \/ s.age < TTL

(* What holds of the output kept under some evidence.                         *)
KeptInv(e, k) ==
    /\ k.output.refs \subseteq DOMAIN e
    /\ k.output.figures \subseteq FiguresOf(e)
    /\ k.expires \in Nat

RecapInv ==
    /\ moment \in Nat /\ cards \in CardSets
    /\ DOMAIN serving = Pages
    /\ \A p \in Pages : PageInv(serving[p])
    /\ \A e \in DOMAIN kept : KeptInv(e, kept[e])

-----------------------------------------------------------------------------
(* The evidence sent for a page names the same cards and has no figure the    *)
(* page has not.                                                              *)
LEMMA EvidenceOfPage ==
    ASSUME NEW given
    PROVE  /\ DOMAIN Aggregate(given) = DOMAIN given
           /\ FiguresOf(Aggregate(given)) \subseteq FiguresOf(given)
<1>1. DOMAIN Aggregate(given) = DOMAIN given
    BY DEF Aggregate
<1>2. ASSUME NEW x \in FiguresOf(Aggregate(given))
      PROVE  x \in FiguresOf(given)
    <2>1. PICK id \in DOMAIN given : x = Aggregate(given)[id]
        BY <1>1 DEF FiguresOf
    <2>2. x \in Figures
        BY DEF FiguresOf
    <2>3. id # "concentration"
        BY <2>1, <2>2, RecapAssumption DEF Aggregate
    <2>4. x = given[id]
        BY <2>1, <2>3 DEF Aggregate
    <2> QED BY <2>2, <2>4 DEF FiguresOf
<1> QED BY <1>1, <1>2

(* No evidence contains the label of the concentration card.                  *)
LEMMA EvidenceRedacted ==
    ASSUME NEW given \in CardSets, NEW id \in DOMAIN Aggregate(given)
    PROVE  Aggregate(given)[id] # Label
<1>1. id \in DOMAIN given
    BY EvidenceOfPage
<1>2. CASE id = "concentration"
    BY <1>1, <1>2, RecapAssumption DEF Aggregate
<1>3. CASE id # "concentration"
    <2>1. given[id] \in Figures
        BY <1>1, <1>3, RecapAssumption
    <2>2. Aggregate(given)[id] = given[id]
        BY <1>1, <1>3 DEF Aggregate
    <2> QED BY <2>1, <2>2, RecapAssumption
<1> QED BY <1>2, <1>3

LEMMA RecapInitially == RecapInit => RecapInv
BY RecapAssumption DEF RecapInit, RecapInv, PageInv, Unserved

(* A change of one page that leaves the rest alone.                           *)
LEMMA PageChanges ==
    ASSUME RecapInv, NEW p \in Pages, NEW s, PageInv(s),
           serving' = [serving EXCEPT ![p] = s], UNCHANGED <<cards, moment>>,
           \A e \in DOMAIN kept' : KeptInv(e, kept'[e])
    PROVE  RecapInv'
<1>1. DOMAIN serving' = Pages
    BY DEF RecapInv
<1>2. \A q \in Pages : PageInv(serving'[q])
    BY DEF RecapInv
<1> QED BY <1>1, <1>2 DEF RecapInv

LEMMA RecapStep == RecapInv /\ [RecapNext]_recap => RecapInv'
<1> SUFFICES ASSUME RecapInv, [RecapNext]_recap PROVE RecapInv'
    OBVIOUS
<1>k. \A e \in DOMAIN kept : KeptInv(e, kept[e])
    BY DEF RecapInv
<1>1. CASE CardsMove
    BY <1>1 DEF CardsMove, RecapInv
<1>2. CASE TimePasses
    BY <1>2 DEF TimePasses, RecapInv
<1>3. ASSUME NEW p \in Pages, ReadCards(p) PROVE RecapInv'
    <2>1. PageInv([phase |-> "cards", page |-> cards])
        BY DEF PageInv, RecapInv
    <2> QED BY <1>3, <1>k, <2>1, PageChanges DEF ReadCards
<1>4. ASSUME NEW p \in Pages, NoSynthesis(p) PROVE RecapInv'
    <2> DEFINE s == [phase |-> "shown", page |-> serving[p].page,
                     text |-> NoRecap, age |-> 0]
    <2>1. PageInv(s)
        BY <1>4 DEF NoSynthesis, PageInv, RecapInv
    <2>2. serving' = [serving EXCEPT ![p] = s] /\ UNCHANGED <<cards, kept, moment>>
        BY <1>4 DEF NoSynthesis, Finished
    <2> HIDE DEF s
    <2> QED BY <1>k, <2>1, <2>2, PageChanges
<1>5. ASSUME NEW p \in Pages, UseKept(p) PROVE RecapInv'
    <2> DEFINE evidence == Aggregate(serving[p].page)
               k == kept[evidence]
               s == [phase |-> "shown", page |-> serving[p].page,
                     text |-> k.output, age |-> moment - (k.expires - TTL)]
    <2>1. serving[p].page \in CardSets
        BY <1>5 DEF UseKept, PageInv, RecapInv
    <2>2. KeptInv(evidence, k)
        BY <1>5, <1>k DEF UseKept
    <2>3. /\ k.output.refs \subseteq DOMAIN serving[p].page
          /\ k.output.figures \subseteq FiguresOf(serving[p].page)
        BY <2>2, EvidenceOfPage DEF KeptInv
    <2>4. moment - (k.expires - TTL) < TTL
        <3>1. moment < k.expires
            BY <1>5 DEF UseKept, Alive
        <3>2. moment \in Nat /\ k.expires \in Nat /\ TTL \in Nat
            BY <2>2, RecapAssumption DEF KeptInv, RecapInv
        <3> QED BY <3>1, <3>2
    <2>5. PageInv(s)
        BY <2>1, <2>3, <2>4 DEF PageInv
    <2>6. serving' = [serving EXCEPT ![p] = s] /\ UNCHANGED <<cards, kept, moment>>
        BY <1>5 DEF UseKept, Finished
    <2> HIDE DEF s
    <2> QED BY <1>k, <2>5, <2>6, PageChanges
<1>6. ASSUME NEW p \in Pages, Ask(p) PROVE RecapInv'
    <2> DEFINE s == [phase |-> "asking", page |-> serving[p].page,
                     body |-> Aggregate(serving[p].page),
                     deadline |-> moment + Timeout]
    <2>1. PageInv(s)
        BY <1>6 DEF Ask, PageInv, RecapInv
    <2>2. serving' = [serving EXCEPT ![p] = s] /\ UNCHANGED <<cards, moment>>
        BY <1>6 DEF Ask
    <2>3. \A e \in DOMAIN kept' : KeptInv(e, kept'[e])
        BY <1>6, <1>k DEF Ask
    <2> HIDE DEF s
    <2> QED BY <2>1, <2>2, <2>3, PageChanges
<1>7. ASSUME NEW p \in Pages, ModelAnswers(p) PROVE RecapInv'
    <2> DEFINE evidence == serving[p].body
               s(text) == [phase |-> "shown", page |-> serving[p].page,
                           text |-> text, age |-> 0]
    <2>1. evidence = Aggregate(serving[p].page) /\ serving[p].page \in CardSets
        BY <1>7 DEF ModelAnswers, PageInv, RecapInv
    <2>2. CASE Finished(p, NoRecap, 0) /\ UNCHANGED kept
        <3>1. PageInv(s(NoRecap))
            BY <2>1 DEF PageInv
        <3>2. serving' = [serving EXCEPT ![p] = s(NoRecap)]
              /\ UNCHANGED <<cards, kept, moment>>
            BY <1>7, <2>2 DEF ModelAnswers, Finished
        <3> HIDE DEF s
        <3> QED BY <1>k, <3>1, <3>2, PageChanges
    <2>3. ASSUME NEW output \in Outputs, ValidOutput(output, evidence),
                 Finished(p, output, 0),
                 kept' = IF TTL = 0 THEN kept ELSE
                     [e \in DOMAIN kept \cup {evidence} |->
                         IF e = evidence
                         THEN [output |-> output, expires |-> moment + TTL]
                         ELSE kept[e]]
          PROVE  RecapInv'
        <3>1. /\ output.refs \subseteq DOMAIN evidence
              /\ output.figures \subseteq FiguresOf(evidence)
            BY <2>3 DEF ValidOutput
        <3>2. PageInv(s(output))
            BY <2>1, <3>1, EvidenceOfPage DEF PageInv
        <3>3. KeptInv(evidence, [output |-> output, expires |-> moment + TTL])
            BY <3>1, RecapAssumption DEF KeptInv, RecapInv
        <3>4. \A e \in DOMAIN kept' : KeptInv(e, kept'[e])
            <4> HIDE DEF evidence
            <4> QED BY <1>k, <2>3, <3>3
        <3>5. serving' = [serving EXCEPT ![p] = s(output)] /\ UNCHANGED <<cards, moment>>
            BY <1>7, <2>3 DEF ModelAnswers, Finished
        <3> HIDE DEF s, evidence
        <3> QED BY <3>2, <3>4, <3>5, PageChanges
    <2> QED BY <1>7, <2>2, <2>3 DEF ModelAnswers
<1>8. ASSUME NEW p \in Pages, NoAnswer(p) PROVE RecapInv'
    <2> DEFINE s == [phase |-> "shown", page |-> serving[p].page,
                     text |-> NoRecap, age |-> 0]
    <2>1. PageInv(s)
        BY <1>8 DEF NoAnswer, PageInv, RecapInv
    <2>2. serving' = [serving EXCEPT ![p] = s] /\ UNCHANGED <<cards, kept, moment>>
        BY <1>8 DEF NoAnswer, Finished
    <2> HIDE DEF s
    <2> QED BY <1>k, <2>1, <2>2, PageChanges
<1>9. ASSUME NEW p \in Pages, LeavePage(p) PROVE RecapInv'
    <2>1. PageInv(Unserved)
        BY DEF PageInv, Unserved
    <2> QED BY <1>9, <1>k, <2>1, PageChanges DEF LeavePage
<1>10. CASE UNCHANGED recap
    BY <1>10 DEF recap, RecapInv
<1> QED BY <1>1, <1>2, <1>3, <1>4, <1>5, <1>6, <1>7, <1>8, <1>9, <1>10 DEF RecapNext

LEMMA RecapInvGrounds == RecapInv => RecapGrounded
<1> SUFFICES ASSUME RecapInv PROVE RecapGrounded
    OBVIOUS
<1>1. ASSUME NEW p \in Pages, serving[p].phase = "shown", serving[p].text # NoRecap
      PROVE  /\ serving[p].text.refs \subseteq DOMAIN serving[p].page
             /\ serving[p].text.figures \subseteq FiguresOf(serving[p].page)
             /\ serving[p].age = 0 \/ serving[p].age < TTL
    BY <1>1 DEF RecapInv, PageInv
<1>2. ASSUME NEW p \in Pages, serving[p].phase = "asking",
             NEW id \in DOMAIN serving[p].body
      PROVE  serving[p].body[id] # Label
    <2>1. serving[p].page \in CardSets /\ serving[p].body = Aggregate(serving[p].page)
        BY <1>2 DEF RecapInv, PageInv
    <2> QED BY <2>1, EvidenceRedacted
<1> QED BY <1>1, <1>2 DEF RecapGrounded

(* A recap refers to no card and states no figure its page does not show, is  *)
(* no older than the time to live, and was asked for without the label of the *)
(* concentration card (ValidateOutput, cached, aggregateAIInput), for every   *)
(* set of pages and cards, every answer of the model and every time to live.  *)
THEOREM RecapsGrounded == RecapSpec => []RecapGrounded
<1>1. RecapInit => RecapInv
    BY RecapInitially
<1>2. RecapInv /\ [RecapNext]_recap => RecapInv'
    BY RecapStep
<1>3. RecapInv => RecapGrounded
    BY RecapInvGrounds
<1> QED BY <1>1, <1>2, <1>3, PTL DEF RecapSpec
\* What of the type a step of the recap could break beside what RecapInv says.
RecapBounds ==
    /\ enabled \in {"off", "broken", "on"} /\ moment \in 0 .. MaxTime
    /\ \A e \in DOMAIN kept : kept[e].output \in Outputs /\ kept[e].expires \in Nat

\* They hold before the first page.
LEMMA RecapBoundsInit == RecapInit => RecapBounds
BY RecapAssumption DEF RecapInit, RecapBounds

\* Every step keeps them.
LEMMA RecapBoundsStep == RecapInv /\ RecapBounds /\ [RecapNext]_recap => RecapBounds'
<1> SUFFICES ASSUME RecapInv, RecapBounds, [RecapNext]_recap PROVE RecapBounds'
    OBVIOUS
<1>0. ASSUME UNCHANGED <<enabled, kept, moment>> PROVE RecapBounds'
    BY <1>0 DEF RecapBounds
<1>1. CASE CardsMove
    BY <1>0, <1>1 DEF CardsMove
<1>2. CASE TimePasses
    BY <1>2, RecapAssumption DEF TimePasses, RecapBounds
<1>3. ASSUME NEW p \in Pages,
             ReadCards(p) \/ NoSynthesis(p) \/ UseKept(p) \/ NoAnswer(p) \/ LeavePage(p)
      PROVE  RecapBounds'
    BY <1>0, <1>3 DEF ReadCards, NoSynthesis, UseKept, NoAnswer, LeavePage
<1>4. ASSUME NEW p \in Pages, Ask(p) PROVE RecapBounds'
    BY <1>4 DEF Ask, RecapBounds
<1>5. ASSUME NEW p \in Pages, ModelAnswers(p) PROVE RecapBounds'
    <2> DEFINE evidence == serving[p].body
    <2>1. moment + TTL \in Nat
        BY RecapAssumption DEF RecapBounds
    <2>2. CASE UNCHANGED kept
        BY <1>0, <1>5, <2>2 DEF ModelAnswers
    <2>3. ASSUME NEW output \in Outputs,
                 kept' = [e \in DOMAIN kept \cup {evidence} |->
                             IF e = evidence
                             THEN [output |-> output, expires |-> moment + TTL]
                             ELSE kept[e]]
          PROVE  RecapBounds'
        <3> HIDE DEF evidence
        <3>1. \A e \in DOMAIN kept' : kept'[e].output \in Outputs /\ kept'[e].expires \in Nat
            BY <2>1, <2>3 DEF RecapBounds
        <3> QED BY <1>5, <3>1 DEF ModelAnswers, RecapBounds
    <2> QED BY <1>5, <2>2, <2>3 DEF ModelAnswers
<1>6. CASE UNCHANGED recap
    BY <1>0, <1>6 DEF recap
<1> QED BY <1>1, <1>2, <1>3, <1>4, <1>5, <1>6 DEF RecapNext

\* The pages, the cards and the kept answers have the shape the code gives
\* them (Client, cacheEntry), for every set of pages, cards and figures.
THEOREM RecapTypeCorrect == RecapSpec => []RecapTypeOK
<1>1. RecapInit => RecapInv /\ RecapBounds
    BY RecapInitially, RecapBoundsInit
<1>2. RecapInv /\ RecapBounds /\ [RecapNext]_recap => RecapInv' /\ RecapBounds'
    BY RecapStep, RecapBoundsStep
<1>3. RecapInv /\ RecapBounds => RecapTypeOK
    BY DEF RecapInv, PageInv, RecapBounds, RecapTypeOK
<1> QED BY <1>1, <1>2, <1>3, PTL DEF RecapSpec

-----------------------------------------------------------------------------
(***************************************************************************)
(* The reports                                                             *)
(***************************************************************************)

\* The rows have distinct ids, which are at most as many as there may be rows.
LedgerTyped(listing) ==
    /\ IsFiniteSet(listing) /\ Cardinality(listing) <= MaxEvents
    /\ \A r \in listing : r.id \in 1 .. MaxEvents /\ r.at \in Moments /\ r.name \in Names
    /\ \A r, o \in listing : r.id = o.id => r = o

ReportSteps == {"none", "summary", "previous", "points", "breakdown", "share",
                "aggregate", "today", "week", "activity", "shown"}

\* A page tells its kind from the first query on.
PageTyped ==
    /\ step \in ReportSteps /\ "kind" \in DOMAIN page
    /\ (step = "none") = (page.kind = "none")

AnalyticsInv ==
    /\ LedgerTyped(ledger) /\ PageTyped
    /\ clock \in Clocks /\ steady \in BOOLEAN

\* The least element is one.
LEMMA LeastExists ==
    ASSUME NEW S \in SUBSET Nat, S # {}
    PROVE  Min(S) \in S /\ \A n \in S : Min(S) <= n
<1>1. \E x \in S : \A n \in S : x <= n
    BY LeastNatural
<1> QED BY <1>1 DEF Min

\* A row that arrives gets an id that no stored row has.
LEMMA FreshId ==
    ASSUME NEW listing, LedgerTyped(listing), Cardinality(listing) < MaxEvents
    PROVE  LET i == Min((1 .. MaxEvents) \ {r.id : r \in listing})
           IN  i \in 1 .. MaxEvents /\ \A r \in listing : r.id # i
<1> DEFINE ids == {r.id : r \in listing}
           free == (1 .. MaxEvents) \ ids
<1>1. IsFiniteSet(ids) /\ Cardinality(ids) <= Cardinality(listing)
    <2> DEFINE f == [r \in listing |-> r.id]
    <2>1. f \in Surjection(listing, ids)
        BY DEF Surjection
    <2> HIDE DEF f, ids
    <2> QED BY <2>1, FS_Surjection DEF LedgerTyped
<1>2. MaxEvents \in Nat
    BY AnalyticsAssumption
<1>3. Cardinality(1 .. MaxEvents) = MaxEvents
    <2>1. \A a, b \in Int : a <= b => Cardinality(a .. b) = b - a + 1
        BY FS_Interval
    <2>2. CASE MaxEvents = 0
        <3>1. 1 .. MaxEvents = {}
            BY <2>2
        <3> QED BY <2>2, <3>1, FS_EmptySet
    <2>3. CASE MaxEvents > 0
        <3>1. Cardinality(1 .. MaxEvents) = MaxEvents - 1 + 1
            BY <1>2, <2>1, <2>3
        <3> QED BY <1>2, <3>1
    <2> QED BY <1>2, <2>2, <2>3
<1>4. free # {}
    <2> SUFFICES ASSUME free = {} PROVE FALSE
        OBVIOUS
    <2>1. 1 .. MaxEvents \subseteq ids
        OBVIOUS
    <2>2. Cardinality(1 .. MaxEvents) <= Cardinality(ids)
        BY <1>1, <2>1, FS_Subset
    <2>3. Cardinality(ids) \in Nat /\ Cardinality(listing) \in Nat
        BY <1>1, FS_CardinalityType DEF LedgerTyped
    <2> QED BY <1>1, <1>2, <1>3, <2>2, <2>3
<1>5. free \in SUBSET Nat
    OBVIOUS
<1>6. Min(free) \in free
    BY <1>4, <1>5, LeastExists
<1> QED BY <1>6

\* The invariant holds of an empty database.
LEMMA AnalyticsInitially == AnalyticsInit => AnalyticsInv
<1> SUFFICES ASSUME AnalyticsInit PROVE AnalyticsInv
    OBVIOUS
<1>1. LedgerTyped(ledger)
    BY FS_EmptySet, AnalyticsAssumption DEF AnalyticsInit, LedgerTyped
<1>2. PageTyped
    BY DEF AnalyticsInit, PageTyped, ReportSteps, Blank
<1>3. clock \in Clocks
    BY LeastExists, AnalyticsAssumption DEF AnalyticsInit
<1> QED BY <1>1, <1>2, <1>3 DEF AnalyticsInit, AnalyticsInv

\* Rows may be removed.
LEMMA FewerRows ==
    ASSUME NEW listing, LedgerTyped(listing), NEW less \in SUBSET listing
    PROVE  LedgerTyped(less)
<1>1. IsFiniteSet(less) /\ Cardinality(less) <= Cardinality(listing)
    BY FS_Subset DEF LedgerTyped
<1>2. Cardinality(less) \in Nat /\ Cardinality(listing) \in Nat /\ MaxEvents \in Nat
    BY <1>1, FS_CardinalityType, AnalyticsAssumption DEF LedgerTyped
<1> QED BY <1>1, <1>2 DEF LedgerTyped

\* A row may be added under a fresh id.
LEMMA OneRowMore ==
    ASSUME NEW listing, LedgerTyped(listing), Cardinality(listing) < MaxEvents,
           NEW row, row.id = Min((1 .. MaxEvents) \ {r.id : r \in listing}),
           row.at \in Moments, row.name \in Names
    PROVE  LedgerTyped(listing \cup {row})
<1>1. row.id \in 1 .. MaxEvents /\ \A r \in listing : r.id # row.id
    BY FreshId
<1>2. IsFiniteSet(listing \cup {row}) /\ Cardinality(listing \cup {row}) <= MaxEvents
    <2>1. row \notin listing
        BY <1>1
    <2>2. Cardinality(listing \cup {row}) = Cardinality(listing) + 1
          /\ IsFiniteSet(listing \cup {row})
        BY <2>1, FS_AddElement DEF LedgerTyped
    <2>3. Cardinality(listing) \in Nat /\ MaxEvents \in Nat
        BY FS_CardinalityType, AnalyticsAssumption DEF LedgerTyped
    <2> QED BY <2>2, <2>3
<1> QED BY <1>1, <1>2 DEF LedgerTyped

\* A query's answer adds fields to the page and keeps its kind.
LEMMA AnswerKeeps ==
    ASSUME PageTyped, NEW now, NEW next \in ReportSteps \ {"none"}, NEW fields,
           Answered(now, next, fields), now # "none", "kind" \notin DOMAIN fields
    PROVE  PageTyped'
<1>1. page' = [x \in DOMAIN fields \cup DOMAIN page |->
                  IF x \in DOMAIN fields THEN fields[x] ELSE page[x]]
    BY DEF Answered, With
<1>2. "kind" \in DOMAIN page' /\ page'["kind"] = page["kind"]
    BY <1>1 DEF PageTyped
<1> QED BY <1>2 DEF Answered, PageTyped

\* The first query of a page gives it its kind.
LEMMA FirstAnswer ==
    ASSUME PageTyped, NEW next \in ReportSteps \ {"none"}, NEW fields,
           Answered("none", next, fields), "kind" \in DOMAIN fields, fields["kind"] # "none"
    PROVE  PageTyped'
<1>1. page' = [x \in DOMAIN fields \cup DOMAIN page |->
                  IF x \in DOMAIN fields THEN fields[x] ELSE page[x]]
    BY DEF Answered, With
<1>2. "kind" \in DOMAIN page' /\ page'["kind"] = fields["kind"]
    BY <1>1
<1> QED BY <1>2 DEF Answered, PageTyped

\* The queries leave the rows, the clock and the history alone.
LEMMA AnswerFrames ==
    ASSUME AnalyticsInv, PageTyped', UNCHANGED <<ledger, clock, steady>>
    PROVE  AnalyticsInv'
BY DEF AnalyticsInv

\* No query of a page breaks the invariant.
LEMMA QueriesKeep ==
    ASSUME AnalyticsInv,
           \/ BeginReport \/ ReadSummary \/ ReadPrevious \/ ReadPoints \/ ReadBreakdown
           \/ ReadShare \/ ReadAggregate \/ BeginOverview \/ ReadToday \/ ReadWeek
           \/ ReadActivity
    PROVE  AnalyticsInv'
<1>p. PageTyped
    BY DEF AnalyticsInv
<1>a. ASSUME NEW now, NEW next \in ReportSteps \ {"none"}, NEW fields,
             Answered(now, next, fields), now # "none", "kind" \notin DOMAIN fields
      PROVE  AnalyticsInv'
    BY <1>p, <1>a, AnswerKeeps, AnswerFrames DEF Answered
<1>b. ASSUME NEW next \in ReportSteps \ {"none"}, NEW fields,
             Answered("none", next, fields), "kind" \in DOMAIN fields,
             fields["kind"] # "none"
      PROVE  AnalyticsInv'
    BY <1>p, <1>b, FirstAnswer, AnswerFrames DEF Answered
<1>s. {"summary", "previous", "points", "breakdown", "share", "aggregate", "today",
       "week", "activity", "shown"} \subseteq ReportSteps \ {"none"}
    BY DEF ReportSteps
<1>f. ASSUME NEW v
      PROVE  /\ "kind" \notin DOMAIN [summary |-> v]
             /\ "kind" \notin DOMAIN [previous |-> v]
             /\ "kind" \notin DOMAIN [points |-> v]
             /\ "kind" \notin DOMAIN [breakdown |-> v]
             /\ "kind" \notin DOMAIN [week |-> v]
    OBVIOUS
<1>1. CASE BeginReport
    <2>1. PICK period \in Periods :
            Answered("none", "summary",
                [kind |-> "report", period |-> period, from |-> StartOf(period, clock),
                 to |-> EndOf(period, clock), lifetime |-> TokensOf(ledger)])
        BY <1>1 DEF BeginReport
    <2> DEFINE fields == [kind |-> "report", period |-> period,
                          from |-> StartOf(period, clock),
                          to |-> EndOf(period, clock), lifetime |-> TokensOf(ledger)]
    <2>2. "kind" \in DOMAIN fields /\ fields["kind"] # "none"
        OBVIOUS
    <2> HIDE DEF fields
    <2>3. Answered("none", "summary", fields)
        BY <2>1 DEF fields
    <2> QED BY <1>b, <1>s, <2>2, <2>3
<1>2. CASE ReadSummary
    BY <1>2, <1>a, <1>f, <1>s DEF ReadSummary
<1>3. CASE ReadPrevious
    <2> DEFINE v == IF page.from = NoStart THEN NoTotals
                    ELSE TotalsOf(Within(ledger, 2 * page.from - page.to, page.from))
    <2>1. Answered("previous", "points", [previous |-> v])
        BY <1>3 DEF ReadPrevious
    <2> HIDE DEF v
    <2> QED BY <2>1, <1>a, <1>f, <1>s
<1>4. CASE ReadPoints
    <2> DEFINE v == Filled(Selected(ledger), page.period, page.from, page.to, TotalsOf)
    <2>1. Answered("points", "breakdown", [points |-> v])
        BY <1>4 DEF ReadPoints
    <2> HIDE DEF v
    <2> QED BY <2>1, <1>a, <1>f, <1>s
<1>5. CASE ReadBreakdown
    BY <1>5, <1>a, <1>f, <1>s DEF ReadBreakdown
<1>6. CASE ReadShare
    <2>1. PICK v, w : Answered("share", "aggregate", [series |-> v, share |-> w])
        BY <1>6 DEF ReadShare
    <2>2. "kind" \notin DOMAIN [series |-> v, share |-> w]
        OBVIOUS
    <2> QED BY <2>1, <2>2, <1>a, <1>s
<1>7. CASE ReadAggregate
    <2>1. PICK v, w, c : Answered("aggregate", "shown",
                             With([aggregate |-> v, known |-> w], [cards |-> c]))
        BY <1>7 DEF ReadAggregate
    <2>2. "kind" \notin DOMAIN With([aggregate |-> v, known |-> w], [cards |-> c])
        BY DEF With
    <2> QED BY <2>1, <2>2, <1>a, <1>s
<1>8. CASE BeginOverview
    <2> DEFINE fields == [kind |-> "overview", lifetime |-> TokensOf(ledger)]
    <2>1. "kind" \in DOMAIN fields /\ fields["kind"] # "none"
        OBVIOUS
    <2>2. Answered("none", "today", fields)
        BY <1>8 DEF BeginOverview
    <2> HIDE DEF fields
    <2> QED BY <1>b, <1>s, <2>1, <2>2
<1>9. CASE ReadToday
    <2>1. PICK v, w : Answered("today", "week", [date |-> v, today |-> w])
        BY <1>9 DEF ReadToday
    <2>2. "kind" \notin DOMAIN [date |-> v, today |-> w]
        OBVIOUS
    <2> QED BY <2>1, <2>2, <1>a, <1>s
<1>10. CASE ReadWeek
    BY <1>10, <1>a, <1>f, <1>s DEF ReadWeek
<1>11. CASE ReadActivity
    <2>1. PICK v, w : Answered("activity", "shown", [heatmap |-> v, daily |-> w])
        BY <1>11 DEF ReadActivity
    <2>2. "kind" \notin DOMAIN [heatmap |-> v, daily |-> w]
        OBVIOUS
    <2> QED BY <2>1, <2>2, <1>a, <1>s
<1> QED BY <1>1, <1>2, <1>3, <1>4, <1>5, <1>6, <1>7, <1>8, <1>9, <1>10, <1>11

\* No step breaks the invariant.
LEMMA AnalyticsStep == AnalyticsInv /\ [AnalyticsNext]_analytics => AnalyticsInv'
<1> SUFFICES ASSUME AnalyticsInv, [AnalyticsNext]_analytics PROVE AnalyticsInv'
    OBVIOUS
<1>1. CASE EventArrives
    <2>1. PICK at \in Moments, shape \in Shapes, name \in Names :
            ledger' = ledger \cup
               {[id |-> Min((1 .. MaxEvents) \ {r.id : r \in ledger}), at |-> at,
                 total |-> shape.total, parts |-> shape.parts, name |-> name]}
        BY <1>1 DEF EventArrives
    <2>2. LedgerTyped(ledger')
        BY <1>1, <2>1, OneRowMore DEF EventArrives, AnalyticsInv
    <2>3. steady' \in BOOLEAN /\ PageTyped'
        BY <1>1 DEF EventArrives, AnalyticsInv, PageTyped
    <2> QED BY <1>1, <2>2, <2>3 DEF EventArrives, AnalyticsInv
<1>2. CASE ClockMoves
    BY <1>2 DEF ClockMoves, AnalyticsInv, PageTyped
<1>3. CASE Purge
    <2>1. ledger' \in SUBSET ledger
        BY <1>3 DEF Purge
    <2>2. LedgerTyped(ledger')
        BY <2>1, FewerRows DEF AnalyticsInv
    <2> QED BY <1>3, <2>2 DEF Purge, AnalyticsInv, PageTyped
<1>4. CASE \/ BeginReport \/ ReadSummary \/ ReadPrevious \/ ReadPoints \/ ReadBreakdown
           \/ ReadShare \/ ReadAggregate \/ BeginOverview \/ ReadToday \/ ReadWeek
           \/ ReadActivity
    BY <1>4, QueriesKeep
<1>5. CASE Leave
    BY <1>5 DEF Leave, AnalyticsInv, PageTyped, ReportSteps, Blank
<1>6. CASE UNCHANGED analytics
    BY <1>6 DEF analytics, AnalyticsInv, PageTyped
<1> QED BY <1>1, <1>2, <1>3, <1>4, <1>5, <1>6 DEF AnalyticsNext

\* The rows, the clock and the report in progress have the shape the code gives
\* them, whichever query a row arrives before (Analytics, Insights, Overview).
THEOREM AnalyticsTypeCorrect == AnalyticsSpec => []AnalyticsTypeOK
<1>1. AnalyticsInit => AnalyticsInv
    BY AnalyticsInitially
<1>2. AnalyticsInv /\ [AnalyticsNext]_analytics => AnalyticsInv'
    BY AnalyticsStep
<1>3. AnalyticsInv => AnalyticsTypeOK
    BY DEF AnalyticsInv, LedgerTyped, PageTyped, ReportSteps, AnalyticsTypeOK
<1> QED BY <1>1, <1>2, <1>3, PTL DEF AnalyticsSpec

-----------------------------------------------------------------------------
Multiple(a, n) == \E q \in Int : a = q * n

\* Multiples of one number lie apart by at least that number.
LEMMA Multiples ==
    ASSUME NEW n \in Nat, n > 0, NEW a, NEW b, Multiple(a, n), Multiple(b, n)
    PROVE  /\ a \in Int /\ b \in Int
           /\ a % n = 0
           /\ Multiple(a + b, n) /\ Multiple(a - b, n) /\ Multiple(a + n, n)
           /\ a < b => a + n <= b
<1>1. PICK p \in Int : a = p * n
    BY DEF Multiple
<1>2. PICK q \in Int : b = q * n
    BY DEF Multiple
<1>3. a \in Int /\ b \in Int
    BY <1>1, <1>2
<1>4. p + q \in Int /\ a + b = (p + q) * n
    BY <1>1, <1>2
<1>5. p - q \in Int /\ a - b = (p - q) * n
    BY <1>1, <1>2
<1>6. p + 1 \in Int /\ a + n = (p + 1) * n
    BY <1>1
<1>7. ASSUME a < b PROVE a + n <= b
    <2>1. p < q
        <3> SUFFICES ASSUME q <= p PROVE FALSE
            OBVIOUS
        <3>1. q * n <= p * n
            BY <1>1, <1>2
        <3> QED BY <1>1, <1>2, <1>7, <3>1
    <2>2. p + 1 <= q
        BY <2>1
    <2>3. (p + 1) * n <= q * n
        BY <2>2
    <2> QED BY <1>2, <1>6, <2>3
<1>8. a % n = 0
    BY <1>1
<1> QED BY <1>3, <1>4, <1>5, <1>6, <1>7, <1>8 DEF Multiple

\* A moment is rounded down to the multiple before it.
LEMMA DownIs ==
    ASSUME NEW n \in Nat, n > 0, NEW t \in Int
    PROVE  Multiple(Down(t, n), n) /\ Down(t, n) \in Int /\ Down(t, n) <= t /\ t < Down(t, n) + n
<1>1. t % n \in 0 .. (n - 1) /\ \E q \in Int : t = q * n + (t % n)
    OBVIOUS
<1>2. PICK q \in Int : t = q * n + (t % n)
    BY <1>1
<1>3. Down(t, n) = q * n
    BY <1>1, <1>2 DEF Down
<1> QED BY <1>1, <1>2, <1>3 DEF Multiple

\* There is one such multiple.
LEMMA DownTo ==
    ASSUME NEW n \in Nat, n > 0, NEW t \in Int, NEW a, Multiple(a, n), a <= t, t < a + n
    PROVE  Down(t, n) = a
<1> DEFINE d == Down(t, n)
<1>1. Multiple(d, n) /\ d \in Int /\ d <= t /\ t < d + n /\ a \in Int
    BY DownIs, Multiples
<1> HIDE DEF d
<1>2. a < d => a + n <= d
    BY <1>1, Multiples
<1>3. d < a => d + n <= a
    BY <1>1, Multiples
<1> QED BY <1>1, <1>2, <1>3 DEF d

\* A later moment is not rounded to an earlier multiple.
LEMMA DownGrows ==
    ASSUME NEW n \in Nat, n > 0, NEW s \in Int, NEW t \in Int, s <= t
    PROVE  Down(s, n) <= Down(t, n)
<1> DEFINE c == Down(s, n)
           d == Down(t, n)
<1>1. /\ Multiple(d, n) /\ d \in Int /\ d <= t /\ t < d + n
      /\ Multiple(c, n) /\ c \in Int /\ c <= s /\ s < c + n
    BY DownIs
<1> HIDE DEF c, d
<1>2. d < c => d + n <= c
    BY <1>1, Multiples
<1> QED BY <1>1, <1>2 DEF c, d

\* A moment after zero is rounded to one after zero.
LEMMA DownNat ==
    ASSUME NEW n \in Nat, n > 0, NEW t \in Nat
    PROVE  Down(t, n) \in Nat
<1>1. Down(0, n) <= Down(t, n) /\ Down(t, n) \in Int
    <2>1. 0 \in Int /\ t \in Int /\ 0 <= t
        OBVIOUS
    <2>2. Down(0, n) <= Down(t, n)
        BY <2>1, DownGrows
    <2>3. Down(t, n) \in Int
        BY <2>1, DownIs
    <2> QED BY <2>2, <2>3
<1>2. Multiple(0, n)
    <2>1. 0 \in Int /\ 0 = 0 * n
        OBVIOUS
    <2> QED BY <2>1 DEF Multiple
<1>3. Down(0, n) = 0
    BY <1>2, DownTo
<1> QED BY <1>1, <1>3

\* A multiple of a multiple is one.
LEMMA MultipleOf ==
    ASSUME NEW n \in Nat, n > 0, NEW m \in Nat, m % n = 0
    PROVE  Multiple(m, n) /\ \A a : Multiple(a, m) => Multiple(a, n)
<1>1. \E q \in Int : m = q * n + (m % n)
    OBVIOUS
<1>2. PICK q \in Int : m = q * n
    BY <1>1
<1>3. ASSUME NEW a, Multiple(a, m) PROVE Multiple(a, n)
    <2>1. PICK p \in Int : a = p * m
        BY <1>3 DEF Multiple
    <2>2. p * q \in Int /\ a = (p * q) * n
        BY <1>2, <2>1
    <2> QED BY <2>2 DEF Multiple
<1> QED BY <1>2, <1>3 DEF Multiple

\* Rounding to a multiple of a unit that was rounded to the unit before.
LEMMA DownDown ==
    ASSUME NEW n \in Nat, n > 0, NEW m \in Nat, m > 0, m % n = 0, NEW t \in Int
    PROVE  Down(Down(t, n), m) = Down(t, m)
<1> DEFINE d == Down(t, n)
           e == Down(t, m)
<1>1. /\ Multiple(d, n) /\ d \in Int /\ d <= t /\ t < d + n
      /\ Multiple(e, m) /\ e \in Int /\ e <= t /\ t < e + m
    BY DownIs
<1> HIDE DEF d, e
<1>2. Multiple(e, n)
    BY <1>1, MultipleOf
<1>3. d < e => d + n <= e
    BY <1>1, <1>2, Multiples
<1>4. e <= d /\ d < e + m
    BY <1>1, <1>3
<1>5. Down(d, m) = e
    BY <1>1, <1>4, DownTo
<1> QED BY <1>5 DEF d, e

-----------------------------------------------------------------------------
RowsTyped(L) ==
    IsFiniteSet(L) /\ \A r \in L : /\ r.at \in Nat /\ r.name \in Nat
                                   /\ r.total \in Nat \cup {NoTotal}

TokenWeight(L) == [r \in L |-> IF r.total = NoTotal THEN 0 ELSE r.total]

\* The tokens of rows are a sum over them, to which unknown totals add nothing.
LEMMA TokensAre ==
    ASSUME NEW L, RowsTyped(L)
    PROVE  /\ Weighs(TokenWeight(L), L)
           /\ \A T \in SUBSET L : TokensOf(T) = Sum(TokenWeight(L), T) /\ TokensOf(T) \in Nat
<1> DEFINE w == TokenWeight(L)
<1>1. \A r \in L : w[r] = IF r.total = NoTotal THEN 0 ELSE r.total
    BY DEF TokenWeight
<1>2. Weighs(w, L)
    BY <1>1 DEF RowsTyped, Weighs
<1> HIDE DEF w
<1>3. ASSUME NEW T \in SUBSET L
      PROVE  TokensOf(T) = Sum(w, T) /\ TokensOf(T) \in Nat
    <2> DEFINE S == Known(T)
               v == [r \in S |-> r.total]
    <2>1. S \in SUBSET T /\ (\A r \in T \ S : w[r] = 0) /\ \A r \in S : w[r] = v[r]
        BY <1>1 DEF Known
    <2>2. IsFiniteSet(T) /\ IsFiniteSet(S)
        <3>1. IsFiniteSet(T)
            BY FS_Subset DEF RowsTyped
        <3> QED BY <2>1, <3>1, FS_Subset
    <2>3. Weighs(w, T) /\ Weighs(w, S)
        BY <1>2, <2>1 DEF Weighs
    <2> HIDE DEF S
    <2>4. MapThenSumSet(LAMBDA r : r.total, S) = Sum(v, S)
        <3>1. \A U \in SUBSET S : U # {} => v[OneOf(U)] = OneOf(U).total
            BY DEF OneOf
        <3>2. \A g : SumRec(v, S, g) =
                [U \in SUBSET S |-> IF U = {} THEN 0 ELSE OneOf(U).total + g[U \ {OneOf(U)}]]
            BY <3>1 DEF SumRec
        <3>3. SumOn(v, S) = CHOOSE g : g =
                [U \in SUBSET S |-> IF U = {} THEN 0 ELSE OneOf(U).total + g[U \ {OneOf(U)}]]
            <4> HIDE DEF v
            <4> QED BY <3>2 DEF SumOn
        <3>4. MapThenSumSet(LAMBDA r : r.total, S) = (CHOOSE g : g =
                [U \in SUBSET S |-> IF U = {} THEN 0
                                    ELSE OneOf(U).total + g[U \ {OneOf(U)}]])[S]
            BY DEF MapThenSumSet, MapThenFoldSet, OneOf
        <3> QED BY <3>3, <3>4, SumUnfold
    <2> HIDE DEF v
    <2>5. Sum(w, S) = Sum(v, S)
        BY <2>1, <2>2, <2>3, SumSame
    <2>6. Sum(w, S) = Sum(w, T)
        BY <2>1, <2>2, <2>3, SumOfSome
    <2>7. Sum(w, T) \in Nat
        BY <2>2, <2>3, SumSteps DEF SumFacts
    <2>8. TokensOf(T) = MapThenSumSet(LAMBDA r : r.total, S)
        BY DEF TokensOf, S
    <2> QED BY <2>4, <2>5, <2>6, <2>7, <2>8
<1> QED BY <1>2, <1>3 DEF w

\* The rows of one group.
Group(listed, key, b) == {r \in listed : key[r] = b}

\* The groups into which the rows are divided have their tokens, and their number.
LEMMA GroupsAdd ==
    ASSUME NEW L, RowsTyped(L), NEW listed \in SUBSET L, NEW B, IsFiniteSet(B), NEW key,
           \A r \in listed : key[r] \in B, NEW v
    PROVE  /\ (\A b \in B : v[b] = TokensOf(Group(listed, key, b))) => Sum(v, B) = TokensOf(listed)
           /\ (\A b \in B : v[b] = Cardinality(Group(listed, key, b)))
                => Sum(v, B) = Cardinality(listed)
<1> DEFINE w == TokenWeight(L)
<1>1. Weighs(w, L) /\ \A T \in SUBSET L : TokensOf(T) = Sum(w, T) /\ TokensOf(T) \in Nat
    BY TokensAre
<1> HIDE DEF w
<1>2. IsFiniteSet(listed) /\ Weighs(w, listed)
    BY <1>1, FS_Subset DEF RowsTyped, Weighs
<1>3. \A b \in B : Group(listed, key, b) \in SUBSET L /\ Group(listed, key, b) \in SUBSET listed
    BY DEF Group
<1>4. ASSUME \A b \in B : v[b] = TokensOf(Group(listed, key, b))
      PROVE  Sum(v, B) = TokensOf(listed)
    <2> DEFINE u == Shares(w, key, listed, B)
    <2>1. Weighs(u, B) /\ Sum(u, B) = Sum(w, listed)
        BY <1>2, SumOfParts
    <2>2. \A b \in B : u[b] = Sum(w, Group(listed, key, b))
        BY DEF Shares, Group
    <2> HIDE DEF u
    <2>3. \A b \in B : u[b] = v[b]
        BY <1>1, <1>3, <1>4, <2>2
    <2>4. Sum(u, B) = Sum(v, B)
        BY <2>1, <2>3, SumSame
    <2> QED BY <1>1, <2>1, <2>4
<1>5. ASSUME \A b \in B : v[b] = Cardinality(Group(listed, key, b))
      PROVE  Sum(v, B) = Cardinality(listed)
    <2> DEFINE o == Ones(listed)
               u == Shares(o, key, listed, B)
    <2>1. Weighs(o, listed) /\ \A T \in SUBSET listed : Sum(o, T) = Cardinality(T)
        BY <1>2, SumOfOnes
    <2> HIDE DEF o
    <2>2. Weighs(u, B) /\ Sum(u, B) = Sum(o, listed)
        BY <1>2, <2>1, SumOfParts
    <2>3. \A b \in B : u[b] = Sum(o, Group(listed, key, b))
        BY DEF Shares, Group
    <2> HIDE DEF u
    <2>4. \A b \in B : u[b] = v[b]
        BY <1>3, <1>5, <2>1, <2>3
    <2>5. Sum(u, B) = Sum(v, B)
        BY <2>2, <2>4, SumSame
    <2> QED BY <2>1, <2>2, <2>5
<1> QED BY <1>4, <1>5

\* The sums of the properties, as sums of functions.
LEMMA SumsAre ==
    ASSUME NEW f, NEW S
    PROVE  /\ MapThenSumSet(LAMBDA n : f[n].tokens, S) = Sum([n \in S |-> f[n].tokens], S)
           /\ MapThenSumSet(LAMBDA n : f[n].events, S) = Sum([n \in S |-> f[n].events], S)
           /\ MapThenSumSet(LAMBDA n : f[n], S) = Sum(f, S)
<1>t. MapThenSumSet(LAMBDA n : f[n].tokens, S) = Sum([n \in S |-> f[n].tokens], S)
    <2> DEFINE v == [n \in S |-> f[n].tokens]
    <2>1. \A U \in SUBSET S : U # {} => v[OneOf(U)] = f[OneOf(U)].tokens
        BY DEF OneOf
    <2>2. \A g : SumRec(v, S, g) =
            [U \in SUBSET S |-> IF U = {} THEN 0 ELSE f[OneOf(U)].tokens + g[U \ {OneOf(U)}]]
        BY <2>1 DEF SumRec
    <2>3. SumOn(v, S) = CHOOSE g : g =
            [U \in SUBSET S |-> IF U = {} THEN 0 ELSE f[OneOf(U)].tokens + g[U \ {OneOf(U)}]]
        <3> HIDE DEF v
        <3> QED BY <2>2 DEF SumOn
    <2>4. MapThenSumSet(LAMBDA n : f[n].tokens, S) = (CHOOSE g : g =
            [U \in SUBSET S |-> IF U = {} THEN 0
                                ELSE f[OneOf(U)].tokens + g[U \ {OneOf(U)}]])[S]
        BY DEF MapThenSumSet, MapThenFoldSet, OneOf
    <2> QED BY <2>3, <2>4, SumUnfold
<1>e. MapThenSumSet(LAMBDA n : f[n].events, S) = Sum([n \in S |-> f[n].events], S)
    <2> DEFINE v == [n \in S |-> f[n].events]
    <2>1. \A U \in SUBSET S : U # {} => v[OneOf(U)] = f[OneOf(U)].events
        BY DEF OneOf
    <2>2. \A g : SumRec(v, S, g) =
            [U \in SUBSET S |-> IF U = {} THEN 0 ELSE f[OneOf(U)].events + g[U \ {OneOf(U)}]]
        BY <2>1 DEF SumRec
    <2>3. SumOn(v, S) = CHOOSE g : g =
            [U \in SUBSET S |-> IF U = {} THEN 0 ELSE f[OneOf(U)].events + g[U \ {OneOf(U)}]]
        <3> HIDE DEF v
        <3> QED BY <2>2 DEF SumOn
    <2>4. MapThenSumSet(LAMBDA n : f[n].events, S) = (CHOOSE g : g =
            [U \in SUBSET S |-> IF U = {} THEN 0
                                ELSE f[OneOf(U)].events + g[U \ {OneOf(U)}]])[S]
        BY DEF MapThenSumSet, MapThenFoldSet, OneOf
    <2> QED BY <2>3, <2>4, SumUnfold
<1>s. MapThenSumSet(LAMBDA n : f[n], S) = Sum(f, S)
    BY SumUnfold DEF MapThenSumSet, MapThenFoldSet, SumOn, SumRec, OneOf
<1> QED BY <1>t, <1>e, <1>s

\* So is the sum of one series over the points of a timeline.
LEMMA ValuesSum ==
    ASSUME NEW f, NEW S, NEW i
    PROVE  MapThenSumSet(LAMBDA n : f[n].values[i], S) = Sum([n \in S |-> f[n].values[i]], S)
<1> DEFINE v == [n \in S |-> f[n].values[i]]
<1>1. \A U \in SUBSET S : U # {} => v[OneOf(U)] = f[OneOf(U)].values[i]
    BY DEF OneOf
<1>2. \A g : SumRec(v, S, g) =
        [U \in SUBSET S |-> IF U = {} THEN 0
                            ELSE f[OneOf(U)].values[i] + g[U \ {OneOf(U)}]]
    BY <1>1 DEF SumRec
<1>3. SumOn(v, S) = CHOOSE g : g =
        [U \in SUBSET S |-> IF U = {} THEN 0
                            ELSE f[OneOf(U)].values[i] + g[U \ {OneOf(U)}]]
    <2> HIDE DEF v
    <2> QED BY <1>2 DEF SumOn
<1>4. MapThenSumSet(LAMBDA n : f[n].values[i], S) = (CHOOSE g : g =
        [U \in SUBSET S |-> IF U = {} THEN 0
                            ELSE f[OneOf(U)].values[i] + g[U \ {OneOf(U)}]])[S]
    BY DEF MapThenSumSet, MapThenFoldSet, OneOf
<1> QED BY <1>3, <1>4, SumUnfold

-----------------------------------------------------------------------------
\* Every length is even and positive, and they divide each other.
LEMMA Lengths ==
    /\ \A n \in {Hour, Day, Month, Week} : n \in Nat /\ n > 0 /\ n % 2 = 0
    /\ Day % Hour = 0 /\ Month % Day = 0 /\ Week % Day = 0
    /\ \A period \in Periods : Size(period) \in {Hour, Day, Month}
BY AnalyticsAssumption DEF Periods, Size

\* A bound is compared by the whole second it lies in.
LEMMA TextOrder ==
    ASSUME NEW s \in Int, NEW b \in Int
    PROVE  /\ Down(b, 2) \in Int /\ Down(b, 2) <= b /\ Multiple(Down(b, 2), 2)
           /\ TextBefore(s, b) => s <= Down(b, 2) + 1
           /\ ~TextBefore(s, b) => Down(b, 2) <= s
           /\ Multiple(b, 2) => (TextBefore(s, b) <=> s < b \/ s = b + 1)
<1> DEFINE d == Down(b, 2)
<1>1. 2 \in Nat /\ 2 > 0
    OBVIOUS
<1>2. d \in Int /\ d <= b /\ Multiple(d, 2)
    BY <1>1, DownIs
<1>3. TextBefore(s, b) <=> s < d \/ s = d + 1
    BY DEF TextBefore
<1>4. Multiple(b, 2) => d = b
    <2> SUFFICES ASSUME Multiple(b, 2) PROVE d = b
        OBVIOUS
    <2>1. b <= b /\ b < b + 2
        OBVIOUS
    <2> QED BY <1>1, <2>1, DownTo
<1> HIDE DEF d
<1>5. (s < d \/ s = d + 1) => s <= d + 1
    BY <1>2
<1>6. ~(s < d \/ s = d + 1) => d <= s
    BY <1>2
<1>7. /\ d \in Int /\ d <= b /\ Multiple(d, 2)
      /\ TextBefore(s, b) => s <= d + 1
      /\ ~TextBefore(s, b) => d <= s
      /\ Multiple(b, 2) => (TextBefore(s, b) <=> s < b \/ s = b + 1)
    BY <1>2, <1>3, <1>4, <1>5, <1>6
<1> QED BY <1>7 DEF d

\* The window of a report begun at some moment.
Window(period, from, to) ==
    \E t \in Clocks : from = StartOf(period, t) /\ to = EndOf(period, t)

\* The first bucket that a walk goes through, and the end of the last.
FirstBucket(found, period, from) ==
    IF period = "all" THEN Min(found) ELSE Down(from, Size(period))
LastBucket(period, to) ==
    CASE period = "24h" -> Down(to, Size(period)) + Size(period)
      [] period = "days" -> to
      [] period = "all" -> Down(to - 1, Size(period)) + Size(period)

\* The rows of a window lie between its ends, the second before it included.
LEMMA RowsBetween ==
    ASSUME NEW period \in Periods, NEW from, NEW to, Window(period, from, to),
           NEW L, RowsTyped(L), NEW r \in Within(L, from, to),
           period = "24h" \/ \A o \in L : o.at # to + 1
    PROVE  /\ to \in Int
           /\ period # "all" => from \in Int /\ Down(from, Size(period)) <= Down(r.at, Size(period))
           /\ LastBucket(period, to) \in Int
           /\ Down(r.at, Size(period)) < LastBucket(period, to)
<1> DEFINE width == Size(period)
           b == Down(r.at, width)
<1>a. width \in Nat /\ width > 0 /\ width % 2 = 0
    BY Lengths
<1>b. r \in L /\ r.at \in Nat /\ r.at \in Int
    BY DEF Within, RowsTyped
<1>c. b \in Int /\ b <= r.at
    BY <1>a, <1>b, DownIs
<1>d. TextBefore(r.at, to)
    BY DEF Within
<1>e. PICK t \in Clocks : from = StartOf(period, t) /\ to = EndOf(period, t)
    BY DEF Window
<1>f. t \in Nat /\ t \in Int
    BY AnalyticsAssumption
<1>g. Day \in Nat /\ Day > 0 /\ Day % 2 = 0 /\ Day \in Int
    BY Lengths
<1>h. Midnight(t) \in Int /\ Multiple(Midnight(t), Day)
    BY <1>f, <1>g, DownIs DEF Midnight
<1>2. 2 \in Nat /\ 2 > 0
    OBVIOUS
<1> HIDE DEF width, b
<1>i. period # "all" => from \in Int
    <2>1. CASE period = "24h"
        BY <2>1, <1>e, <1>f, <1>g DEF StartOf
    <2>2. CASE period = "days"
        <3>1. PeriodDays \in Nat
            BY AnalyticsAssumption
        <3>2. from = Midnight(t) - (PeriodDays - 1) * Day
            BY <1>e, <2>2 DEF StartOf
        <3> QED BY <3>1, <3>2, <1>g, <1>h
    <2> QED BY <2>1, <2>2 DEF Periods
<1>j. period # "all" => Down(from, width) <= b
    <2> SUFFICES ASSUME period # "all" PROVE Down(from, width) <= b
        OBVIOUS
    <2>1. from \in Int /\ from # NoStart
        BY <1>i, AnalyticsAssumption
    <2>2. ~TextBefore(r.at, from)
        BY <2>1 DEF Within
    <2>3. Down(from, 2) \in Int /\ Down(from, 2) <= r.at
        BY <2>1, <2>2, <1>b, TextOrder
    <2>4. Down(Down(from, 2), width) = Down(from, width)
        BY <2>1, <1>a, <1>2, DownDown
    <2>5. Down(Down(from, 2), width) <= Down(r.at, width)
        BY <2>3, <1>a, <1>b, DownGrows
    <2> QED BY <2>4, <2>5 DEF b
<1>4. CASE period = "24h"
    <2>1. to = t /\ to \in Int
        BY <1>e, <1>f, <1>4 DEF EndOf
    <2> DEFINE d == Down(to, width)
               c == Down(to, 2)
    <2>2. d \in Int /\ Multiple(d, width) /\ to < d + width
        BY <2>1, <1>a, DownIs
    <2>3. c \in Int /\ c <= to /\ Multiple(c, 2) /\ r.at <= c + 1
        BY <2>1, <1>b, <1>d, TextOrder
    <2>4. LastBucket(period, to) = d + width
        BY <1>4 DEF LastBucket, width
    <2> HIDE DEF c, d
    <2>5. Multiple(d + width, 2)
        <3>1. Multiple(d + width, width)
            BY <2>2, <1>a, Multiples
        <3> QED BY <3>1, <1>2, <1>a, MultipleOf
    <2>6. c < d + width
        BY <2>2, <2>3, <2>1, <1>a
    <2>7. c + 2 <= d + width
        BY <2>3, <2>5, <2>6, <1>2, Multiples
    <2>8. b < d + width /\ d + width \in Int
        BY <1>a, <1>b, <1>c, <2>2, <2>3, <2>7
    <2> QED BY <1>4, <1>i, <1>j, <2>1, <2>4, <2>8 DEF b, width
<1>5. CASE period # "24h"
    <2>1. to = Midnight(t) + Day
        BY <1>e, <1>5 DEF EndOf
    <2>2. to \in Int /\ Multiple(to, Day)
        BY <2>1, <1>g, <1>h, Multiples
    <2>3. Multiple(to, 2)
        BY <2>2, <1>2, <1>g, MultipleOf
    <2>4. r.at < to
        BY <2>2, <2>3, <1>5, <1>b, <1>d, TextOrder
    <2>5. CASE period = "days"
        <3>1. LastBucket(period, to) = to
            BY <2>5 DEF LastBucket
        <3>2. b < to
            BY <1>b, <1>c, <2>2, <2>4
        <3> QED BY <1>i, <1>j, <2>2, <3>1, <3>2 DEF b, width
    <2>6. CASE period = "all"
        <3> DEFINE d == Down(to - 1, width)
        <3>1. LastBucket(period, to) = d + width
            BY <2>6 DEF LastBucket, width
        <3>2. to - 1 \in Int /\ r.at <= to - 1
            BY <1>b, <2>2, <2>4
        <3>3. d \in Int /\ b <= d
            BY <3>2, <1>a, <1>b, DownIs, DownGrows DEF b
        <3> HIDE DEF d
        <3>4. d + width \in Int /\ b < d + width
            BY <3>3, <1>a, <1>c
        <3> QED BY <2>2, <2>6, <3>1, <3>4 DEF b, width
    <2> QED BY <1>5, <2>5, <2>6 DEF Periods
<1> QED BY <1>4, <1>5

\* The bucket a row falls into.
BucketKey(listed, period) == [r \in listed |-> Down(r.at, Size(period))]

\* The buckets that are shown, those of the axis if there are rows.
Buckets(listed, period, from, to) ==
    IF listed = {} THEN {} ELSE Axis(DOMAIN Bucketed(listed, period), period, from, to)

\* The rows that are shown in a bucket are those that fall into it.
LEMMA BucketIs ==
    ASSUME NEW listed, NEW period, NEW b
    PROVE  LET found == Bucketed(listed, period)
           IN  (IF b \in DOMAIN found THEN found[b] ELSE {})
                   = Group(listed, BucketKey(listed, period), b)
<1> DEFINE found == Bucketed(listed, period)
           key == BucketKey(listed, period)
<1>1. \A r \in listed : key[r] = Down(r.at, Size(period))
    BY DEF BucketKey
<1>2. DOMAIN found = {Down(r.at, Size(period)) : r \in listed}
    BY DEF Bucketed
<1>3. \A c \in DOMAIN found : found[c] = {r \in listed : Down(r.at, Size(period)) = c}
    BY DEF Bucketed
<1> HIDE DEF found, key
<1>4. Group(listed, key, b) = {r \in listed : Down(r.at, Size(period)) = b}
    BY <1>1 DEF Group
<1>5. b \notin DOMAIN found => {r \in listed : Down(r.at, Size(period)) = b} = {}
    BY <1>2
<1>6. (IF b \in DOMAIN found THEN found[b] ELSE {}) = Group(listed, key, b)
    BY <1>3, <1>4, <1>5
<1> QED BY <1>6 DEF found, key

\* Every row of a window falls into one of the buckets that are shown.
LEMMA BucketsCover ==
    ASSUME NEW period \in Periods, NEW from, NEW to, Window(period, from, to),
           NEW L, RowsTyped(L), period = "24h" \/ \A o \in L : o.at # to + 1,
           NEW listed, listed = Within(L, from, to)
    PROVE  LET B == Buckets(listed, period, from, to)
           IN  IsFiniteSet(B) /\ \A r \in listed : BucketKey(listed, period)[r] \in B
<1> DEFINE width == Size(period)
           B == Buckets(listed, period, from, to)
           found == DOMAIN Bucketed(listed, period)
           first == FirstBucket(found, period, from)
           last == LastBucket(period, to)
<1>1. CASE listed = {}
    <2>1. Buckets(listed, period, from, to) = {}
        BY <1>1 DEF Buckets
    <2> QED BY <1>1, <2>1, FS_EmptySet
<1>2. CASE listed # {}
    <2>0. PICK o \in listed : TRUE
        BY <1>2
    <2>a. width \in Nat /\ width > 0
        BY Lengths
    <2>b. found = {Down(r.at, width) : r \in listed}
        BY DEF Bucketed
    <2>c. \A r \in listed : r \in L /\ r.at \in Nat /\ r.at \in Int
        BY DEF Within, RowsTyped
    <2>d. B = {b \in first .. last : b < last /\ (b - first) % width = 0}
        <3>1. Buckets(listed, period, from, to)
                  = Axis(DOMAIN Bucketed(listed, period), period, from, to)
            BY <1>2 DEF Buckets
        <3> QED BY <3>1 DEF Axis, FirstBucket, LastBucket
    <2> HIDE DEF B, width, found, first, last
    <2>e. \A r \in listed : Down(r.at, width) \in Nat /\ Multiple(Down(r.at, width), width)
        BY <2>a, <2>c, DownNat, DownIs
    <2>f. found \in SUBSET Nat /\ found # {}
        BY <2>0, <2>b, <2>e
    <2>g. period = "all" => first \in found /\ \A b \in found : first <= b
        BY <2>f, LeastExists DEF first, FirstBucket
    <2>h. \A r \in listed :
              /\ period # "all" => from \in Int /\ Down(from, width) <= Down(r.at, width)
              /\ last \in Int /\ Down(r.at, width) < last
        BY RowsBetween DEF width, last
    <2>i. period # "all" => first = Down(from, width)
        BY DEF first, FirstBucket, width
    <2>j. first \in Int /\ Multiple(first, width)
        <3>1. CASE period = "all"
            BY <3>1, <2>b, <2>e, <2>g
        <3>2. CASE period # "all"
            <4>1. from \in Int
                BY <2>0, <2>h, <3>2
            <4> QED BY <3>2, <4>1, <2>a, <2>i, DownIs
        <3> QED BY <3>1, <3>2
    <2>k. \A r \in listed : first <= Down(r.at, width)
        <3>1. CASE period = "all"
            BY <3>1, <2>b, <2>g
        <3>2. CASE period # "all"
            BY <3>2, <2>h, <2>i
        <3> QED BY <3>1, <3>2
    <2>l. \A r \in listed : (Down(r.at, width) - first) % width = 0
        <3> SUFFICES ASSUME NEW r \in listed PROVE (Down(r.at, width) - first) % width = 0
            OBVIOUS
        <3> DEFINE a == Down(r.at, width)
        <3>1. Multiple(a, width)
            BY <2>e
        <3> HIDE DEF a
        <3>2. Multiple(a - first, width)
            BY <3>1, <2>a, <2>j, Multiples
        <3>3. (a - first) % width = 0
            BY <3>2, <2>a, Multiples
        <3> QED BY <3>3 DEF a
    <2>m. last \in Int
        BY <2>0, <2>h
    <2>n. \A r \in listed : Down(r.at, width) \in B
        <3> SUFFICES ASSUME NEW r \in listed PROVE Down(r.at, width) \in B
            OBVIOUS
        <3> DEFINE a == Down(r.at, width)
        <3>1. a \in Int /\ first <= a /\ a < last /\ (a - first) % width = 0
            BY <2>e, <2>h, <2>k, <2>l
        <3> HIDE DEF a
        <3>2. a \in first .. last
            BY <3>1, <2>j, <2>m
        <3>3. a \in B
            BY <3>1, <3>2, <2>d
        <3> QED BY <3>3 DEF a
    <2>o. IsFiniteSet(B)
        <3>1. IsFiniteSet(first .. last)
            BY <2>j, <2>m, FS_Interval
        <3>2. B \subseteq first .. last
            BY <2>d
        <3> QED BY <3>1, <3>2, FS_Subset
    <2>p. \A r \in listed : BucketKey(listed, period)[r] = Down(r.at, width)
        BY DEF BucketKey, width
    <2> QED BY <2>n, <2>o, <2>p DEF B
<1> QED BY <1>1, <1>2

-----------------------------------------------------------------------------
\* Buckets that take every row.
Covers(B, listed, key) == IsFiniteSet(B) /\ \A r \in listed : key[r] \in B

\* What the totals of rows tell.
LEMMA TotalsAre ==
    ASSUME NEW listed
    PROVE  /\ TotalsOf(listed).tokens = TokensOf(listed)
           /\ TotalsOf(listed).events = Cardinality(listed)
           /\ TotalsOf(listed).unknown = Cardinality(listed \ Known(listed))
BY DEF TotalsOf

\* The rows shown in a bucket.
ShownIn(listed, period, b) ==
    LET found == Bucketed(listed, period) IN IF b \in DOMAIN found THEN found[b] ELSE {}

PointsOf(listed, period, from, to) ==
    [b \in Buckets(listed, period, from, to) |-> TotalsOf(ShownIn(listed, period, b))]

IsPoints(points, listed, period, from, to) == points = PointsOf(listed, period, from, to)

\* The points of a report are the totals of its buckets.
LEMMA PointsAre ==
    ASSUME NEW listed, NEW period, NEW from, NEW to
    PROVE  Filled(listed, period, from, to, TotalsOf) = PointsOf(listed, period, from, to)
BY DEF Filled, PointsOf, Buckets, ShownIn

\* The points of a report add up to what their rows have.
LEMMA PointsAdd ==
    ASSUME NEW L, RowsTyped(L), NEW listed \in SUBSET L, NEW period, NEW from, NEW to,
           Covers(Buckets(listed, period, from, to), listed, BucketKey(listed, period)),
           NEW points, IsPoints(points, listed, period, from, to)
    PROVE  /\ SumOf(points, TokensIn) = TokensOf(listed)
           /\ SumOf(points, EventsIn) = Cardinality(listed)
<1> DEFINE B == Buckets(listed, period, from, to)
           key == BucketKey(listed, period)
<1>1. points = [b \in B |-> TotalsOf(ShownIn(listed, period, b))]
    BY DEF IsPoints, PointsOf
<1>2. IsFiniteSet(B) /\ \A r \in listed : key[r] \in B
    BY DEF Covers
<1>3. \A b \in B : ShownIn(listed, period, b) = Group(listed, key, b)
    BY BucketIs DEF ShownIn
<1> HIDE DEF B, key
<1>4. DOMAIN points = B /\ \A b \in B : points[b] = TotalsOf(Group(listed, key, b))
    BY <1>1, <1>3
<1>5. \A b \in B : /\ points[b].tokens = TokensOf(Group(listed, key, b))
                   /\ points[b].events = Cardinality(Group(listed, key, b))
    <2> SUFFICES ASSUME NEW b \in B
                 PROVE  /\ points[b].tokens = TokensOf(Group(listed, key, b))
                        /\ points[b].events = Cardinality(Group(listed, key, b))
        OBVIOUS
    <2>1. points[b] = TotalsOf(Group(listed, key, b))
        BY <1>4
    <2> QED BY <2>1, TotalsAre
<1>6. SumOf(points, TokensIn) = TokensOf(listed)
    <2> DEFINE v == [n \in B |-> points[n].tokens]
    <2>1. SumOf(points, TokensIn) = MapThenSumSet(LAMBDA b : points[b].tokens, B)
        BY <1>4 DEF SumOf, TokensIn
    <2>2. MapThenSumSet(LAMBDA b : points[b].tokens, B) = Sum(v, B)
        BY SumsAre
    <2>3. \A b \in B : v[b] = TokensOf(Group(listed, key, b))
        BY <1>5
    <2> HIDE DEF v
    <2>4. Sum(v, B) = TokensOf(listed)
        BY <1>2, <2>3, GroupsAdd
    <2> QED BY <2>1, <2>2, <2>4
<1>7. SumOf(points, EventsIn) = Cardinality(listed)
    <2> DEFINE v == [n \in B |-> points[n].events]
    <2>1. SumOf(points, EventsIn) = MapThenSumSet(LAMBDA b : points[b].events, B)
        BY <1>4 DEF SumOf, EventsIn
    <2>2. MapThenSumSet(LAMBDA b : points[b].events, B) = Sum(v, B)
        BY SumsAre
    <2>3. \A b \in B : v[b] = Cardinality(Group(listed, key, b))
        BY <1>5
    <2> HIDE DEF v
    <2>4. Sum(v, B) = Cardinality(listed)
        BY <1>2, <2>3, GroupsAdd
    <2> QED BY <2>1, <2>2, <2>4
<1> QED BY <1>6, <1>7

NameKey(listed) == [r \in listed |-> r.name]

\* The names of rows are finitely many, and each row is under its own.
LEMMA NamesFinite ==
    ASSUME NEW listed, IsFiniteSet(listed)
    PROVE  /\ IsFiniteSet({r.name : r \in listed})
           /\ \A r \in listed : NameKey(listed)[r] \in {o.name : o \in listed}
           /\ \A n : Named(listed, n) = Group(listed, NameKey(listed), n)
<1>1. IsFiniteSet({r.name : r \in listed})
    <2> DEFINE names == {r.name : r \in listed}
               f == [r \in listed |-> r.name]
    <2>1. f \in Surjection(listed, names)
        BY DEF Surjection
    <2> HIDE DEF f, names
    <2>2. IsFiniteSet(names)
        BY <2>1, FS_Surjection
    <2> QED BY <2>2 DEF names
<1>2. \A r \in listed : NameKey(listed)[r] = r.name
    BY DEF NameKey
<1>3. \A n : Named(listed, n) = Group(listed, NameKey(listed), n)
    BY <1>2 DEF Named, Group
<1> QED BY <1>1, <1>2, <1>3

\* The breakdown adds up to its rows.
LEMMA BreakdownAdds ==
    ASSUME NEW L, RowsTyped(L), NEW listed \in SUBSET L
    PROVE  SumOf(Breakdown(listed), TokensIn) = TokensOf(listed)
<1> DEFINE bd == Breakdown(listed)
           B == {r.name : r \in listed}
           key == NameKey(listed)
           v == [n \in B |-> bd[n].tokens]
<1>1. IsFiniteSet(listed)
    BY FS_Subset DEF RowsTyped
<1>2. IsFiniteSet(B) /\ (\A r \in listed : key[r] \in B)
      /\ \A n : Named(listed, n) = Group(listed, key, n)
    BY <1>1, NamesFinite
<1>3. DOMAIN bd = B /\ \A n \in B : bd[n].tokens = TokensOf(Named(listed, n))
    BY DEF Breakdown
<1> HIDE DEF bd, B, key
<1>4. SumOf(bd, TokensIn) = MapThenSumSet(LAMBDA b : bd[b].tokens, B)
    BY <1>3 DEF SumOf, TokensIn
<1>5. MapThenSumSet(LAMBDA b : bd[b].tokens, B) = Sum(v, B)
    BY SumsAre
<1>6. \A b \in B : v[b] = TokensOf(Group(listed, key, b))
    BY <1>2, <1>3
<1> HIDE DEF v
<1>7. Sum(v, B) = TokensOf(listed)
    BY <1>2, <1>6, GroupsAdd
<1>8. SumOf(bd, TokensIn) = TokensOf(listed)
    BY <1>4, <1>5, <1>7
<1> QED BY <1>8 DEF bd

-----------------------------------------------------------------------------
IsBreakdown(bd, listed) == bd = Breakdown(listed)

\* The series a row is plotted in.
PlotKey(listed, bd) == [r \in listed |-> Plotted(bd, r.name)]

\* Each row of a breakdown is plotted in one of its series, and a series has the
\* tokens of the rows plotted in it.
LEMMA SeriesAre ==
    ASSUME NEW L, RowsTyped(L), NEW listed \in SUBSET L, NEW bd, IsBreakdown(bd, listed)
    PROVE  /\ IsFiniteSet(DOMAIN SeriesTokens(bd))
           /\ \A r \in listed : PlotKey(listed, bd)[r] \in DOMAIN SeriesTokens(bd)
           /\ \A i \in DOMAIN SeriesTokens(bd) :
                 SeriesTokens(bd)[i] = TokensOf(Group(listed, PlotKey(listed, bd), i))
<1> DEFINE B == {r.name : r \in listed}
           series == SeriesTokens(bd)
           plot == PlotKey(listed, bd)
           In(i) == {n \in B : Series(bd, n) = i}
<1>1. IsFiniteSet(listed)
    BY FS_Subset DEF RowsTyped
<1>2. IsFiniteSet(B)
    BY <1>1, NamesFinite
<1>3. DOMAIN bd = B /\ \A n \in B : bd[n].tokens = TokensOf(Named(listed, n))
    BY DEF IsBreakdown, Breakdown
<1>4. DOMAIN series = SeriesOf(bd)
      /\ \A i \in SeriesOf(bd) : series[i] = MapThenSumSet(LAMBDA n : bd[n].tokens, In(i))
    BY <1>3 DEF SeriesTokens
<1>5. SeriesOf(bd) = {Series(bd, n) : n \in B}
    BY <1>3 DEF SeriesOf
<1>6. \A r \in listed : plot[r] = Series(bd, r.name) /\ r.name \in B
    BY <1>3 DEF PlotKey, Plotted
<1> HIDE DEF series, plot
<1>7. IsFiniteSet(SeriesOf(bd))
    <2> DEFINE S == SeriesOf(bd)
               f == [n \in B |-> Series(bd, n)]
    <2> HIDE DEF B
    <2>1. f \in Surjection(B, S)
        BY <1>5 DEF Surjection
    <2> HIDE DEF f, S
    <2>2. IsFiniteSet(S)
        BY <1>2, <2>1, FS_Surjection
    <2> QED BY <2>2 DEF S
<1>8. \A r \in listed : plot[r] \in SeriesOf(bd)
    BY <1>5, <1>6
<1>9. ASSUME NEW i \in SeriesOf(bd) PROVE series[i] = TokensOf(Group(listed, plot, i))
    <2> DEFINE R == Group(listed, plot, i)
               N == In(i)
               key == NameKey(R)
               v == [n \in N |-> bd[n].tokens]
    <2>1. R \in SUBSET L /\ R \in SUBSET listed /\ \A r \in R : plot[r] = i
        BY DEF Group
    <2>2. \A r \in R : key[r] = r.name
        BY DEF NameKey
    <2> HIDE DEF R, key
    <2>3. \A r \in R : key[r] \in N
        BY <1>6, <2>1, <2>2
    <2>4. IsFiniteSet(N)
        BY <1>2, FS_Subset
    <2>5. \A n \in N : n \in B /\ Series(bd, n) = i
        OBVIOUS
    <2> HIDE DEF B
    <2>6. ASSUME NEW n \in N PROVE Named(listed, n) = Group(R, key, n)
        <3>1. \A r \in listed : r.name = n => r \in R
            BY <1>6, <2>5 DEF R, Group
        <3> QED BY <2>1, <2>2, <3>1 DEF Named, Group
    <2>7. \A n \in N : v[n] = TokensOf(Group(R, key, n))
        BY <1>3, <2>5, <2>6
    <2>8. series[i] = MapThenSumSet(LAMBDA n : bd[n].tokens, N)
        BY <1>4
    <2> HIDE DEF N
    <2>9. MapThenSumSet(LAMBDA n : bd[n].tokens, N) = Sum(v, N)
        BY SumsAre
    <2> HIDE DEF v
    <2>10. Sum(v, N) = TokensOf(R)
        BY <2>1, <2>3, <2>4, <2>7, GroupsAdd
    <2> QED BY <2>8, <2>9, <2>10 DEF R
<1>10. /\ IsFiniteSet(DOMAIN series)
       /\ \A r \in listed : plot[r] \in DOMAIN series
       /\ \A i \in DOMAIN series : series[i] = TokensOf(Group(listed, plot, i))
    BY <1>4, <1>7, <1>8, <1>9
<1> QED BY <1>10 DEF series, plot

\* The series add up to the rows.
LEMMA SeriesAdd ==
    ASSUME NEW L, RowsTyped(L), NEW listed \in SUBSET L, NEW bd, IsBreakdown(bd, listed)
    PROVE  SumOf(SeriesTokens(bd), Itself) = TokensOf(listed)
<1> DEFINE series == SeriesTokens(bd)
           S == DOMAIN series
           plot == PlotKey(listed, bd)
<1>1. IsFiniteSet(S) /\ (\A r \in listed : plot[r] \in S)
      /\ \A i \in S : series[i] = TokensOf(Group(listed, plot, i))
    BY SeriesAre
<1>2. SumOf(series, Itself) = MapThenSumSet(LAMBDA b : series[b], S)
    BY DEF SumOf, Itself
<1> HIDE DEF S, series, plot
<1>3. MapThenSumSet(LAMBDA b : series[b], S) = Sum(series, S)
    BY SumsAre
<1>4. Sum(series, S) = TokensOf(listed)
    BY SMTT(40), <1>1, GroupsAdd
<1>5. SumOf(series, Itself) = TokensOf(listed)
    BY <1>2, <1>3, <1>4
<1> QED BY <1>5 DEF series

\* What a point of the timeline shows: the tokens of its rows, and those of the
\* rows plotted in each series.
Part(listed, bd, i) == {r \in listed : Plotted(bd, r.name) = i}
Values(listed, bd) == [i \in DOMAIN SeriesTokens(bd) |-> TokensOf(Part(listed, bd, i))]
SharePoint(listed, bd) == [tokens |-> TokensOf(listed), values |-> Values(listed, bd)]
ShareOf(listed, period, from, to, bd) ==
    [b \in Buckets(listed, period, from, to) |-> SharePoint(ShownIn(listed, period, b), bd)]
IsShare(share, listed, period, from, to, bd) == share = ShareOf(listed, period, from, to, bd)

\* The tokens a series has in all points.
SeriesShown(share, i) == MapThenSumSet(LAMBDA b : share[b].values[i], DOMAIN share)

\* What a point of the timeline tells.
LEMMA SharePointIs ==
    ASSUME NEW listed, NEW bd
    PROVE  /\ SharePoint(listed, bd).tokens = TokensOf(listed)
           /\ DOMAIN SharePoint(listed, bd).values = DOMAIN SeriesTokens(bd)
           /\ \A i \in DOMAIN SeriesTokens(bd) :
                 SharePoint(listed, bd).values[i] = TokensOf(Part(listed, bd, i))
<1>1. /\ SharePoint(listed, bd).tokens = TokensOf(listed)
      /\ SharePoint(listed, bd).values = Values(listed, bd)
    BY DEF SharePoint
<1>2. /\ DOMAIN Values(listed, bd) = DOMAIN SeriesTokens(bd)
      /\ \A i \in DOMAIN SeriesTokens(bd) : Values(listed, bd)[i] = TokensOf(Part(listed, bd, i))
    BY DEF Values
<1> QED BY <1>1, <1>2

\* In the timeline each point adds up to its tokens, and each series to its own.
LEMMA ShareAdds ==
    ASSUME NEW L, RowsTyped(L), NEW listed \in SUBSET L, NEW period, NEW from, NEW to,
           Covers(Buckets(listed, period, from, to), listed, BucketKey(listed, period)),
           NEW bd, IsBreakdown(bd, listed),
           NEW share, IsShare(share, listed, period, from, to, bd)
    PROVE  /\ \A i \in DOMAIN SeriesTokens(bd) : SeriesShown(share, i) = SeriesTokens(bd)[i]
           /\ \A b \in DOMAIN share : SumOf(share[b].values, Itself) = share[b].tokens
<1> DEFINE B == Buckets(listed, period, from, to)
           key == BucketKey(listed, period)
           plot == PlotKey(listed, bd)
           series == SeriesTokens(bd)
           S == DOMAIN series
<1>1. IsFiniteSet(S) /\ (\A r \in listed : plot[r] \in S)
      /\ \A i \in S : series[i] = TokensOf(Group(listed, plot, i))
    BY SeriesAre
<1>2. DOMAIN share = B /\ \A b \in B : share[b] = SharePoint(ShownIn(listed, period, b), bd)
    BY DEF IsShare, ShareOf
<1>3. \A b \in B : ShownIn(listed, period, b) = Group(listed, key, b)
    BY BucketIs DEF ShownIn
<1>4. IsFiniteSet(B) /\ \A r \in listed : key[r] \in B
    BY DEF Covers
<1>5. \A r \in listed : plot[r] = Plotted(bd, r.name)
    BY DEF PlotKey
<1> HIDE DEF B, key, plot
<1>6. ASSUME NEW b \in B
      PROVE  /\ share[b].tokens = TokensOf(Group(listed, key, b))
             /\ DOMAIN share[b].values = S
             /\ \A i \in S : share[b].values[i] = TokensOf(Part(Group(listed, key, b), bd, i))
    <2>1. share[b] = SharePoint(Group(listed, key, b), bd)
        BY <1>2, <1>3
    <2> QED BY <2>1, SharePointIs
<1> HIDE DEF S, series
<1>7. ASSUME NEW b \in B PROVE SumOf(share[b].values, Itself) = share[b].tokens
    <2> DEFINE v == share[b].values
               R == Group(listed, key, b)
               own == PlotKey(R, bd)
    <2>1. R \in SUBSET listed /\ R \in SUBSET L
        BY DEF Group
    <2>2. \A r \in R : own[r] = Plotted(bd, r.name)
        BY DEF PlotKey
    <2>3. DOMAIN v = S /\ share[b].tokens = TokensOf(R)
          /\ \A i \in S : v[i] = TokensOf(Part(R, bd, i))
        BY <1>6
    <2> HIDE DEF R, own, v
    <2>4. SumOf(v, Itself) = MapThenSumSet(LAMBDA n : v[n], S)
        BY <2>3 DEF SumOf, Itself
    <2>5. MapThenSumSet(LAMBDA n : v[n], S) = Sum(v, S)
        BY SumsAre
    <2>6. \A i \in S : v[i] = TokensOf(Group(R, own, i))
        BY <2>2, <2>3 DEF Part, Group
    <2>7. \A r \in R : own[r] \in S
        BY <1>1, <1>5, <2>1, <2>2
    <2>8. Sum(v, S) = TokensOf(R)
        <3>1. IsFiniteSet(S)
            BY <1>1
        <3> QED BY <3>1, <2>1, <2>6, <2>7, GroupsAdd
    <2>9. SumOf(v, Itself) = share[b].tokens
        BY <2>3, <2>4, <2>5, <2>8
    <2> QED BY <2>9 DEF v
<1>8. ASSUME NEW i \in S
      PROVE  MapThenSumSet(LAMBDA b : share[b].values[i], B) = series[i]
    <2> DEFINE R == Group(listed, plot, i)
               own == BucketKey(R, period)
               v == [b \in B |-> share[b].values[i]]
    <2>1. R \in SUBSET listed /\ R \in SUBSET L
        BY DEF Group
    <2>2. \A r \in R : own[r] = key[r]
        BY <2>1 DEF BucketKey, key
    <2>3. \A b \in B : v[b] = TokensOf(Part(Group(listed, key, b), bd, i))
        BY <1>6
    <2>4. ASSUME NEW b \in B PROVE Part(Group(listed, key, b), bd, i) = Group(R, own, b)
        <3>1. \A r \in listed : r \in R <=> Plotted(bd, r.name) = i
            BY <1>5 DEF Group
        <3> HIDE DEF R, own
        <3> QED BY <2>1, <2>2, <3>1 DEF Part, Group
    <2> HIDE DEF R, own
    <2>5. \A b \in B : v[b] = TokensOf(Group(R, own, b))
        BY <2>3, <2>4
    <2>6. \A r \in R : own[r] \in B
        BY <1>4, <2>1, <2>2
    <2>7. MapThenSumSet(LAMBDA b : share[b].values[i], B) = Sum(v, B)
        BY ValuesSum
    <2> HIDE DEF v
    <2>8. Sum(v, B) = TokensOf(R)
        BY <1>4, <2>1, <2>5, <2>6, GroupsAdd
    <2> QED BY <1>1, <2>7, <2>8 DEF R
<1>9. ASSUME NEW i \in S PROVE SeriesShown(share, i) = series[i]
    <2>1. DOMAIN share = B
        BY <1>2
    <2> QED BY <2>1, <1>8 DEF SeriesShown
<1>10. DOMAIN share = B
    BY <1>2
<1> QED BY <1>7, <1>9, <1>10 DEF S, series

\* The timeline of no series is empty, and so are then the rows.
LEMMA ShareIs ==
    ASSUME NEW L, RowsTyped(L), NEW listed \in SUBSET L, NEW bd, IsBreakdown(bd, listed)
    PROVE  (IF SeriesTokens(bd) = <<>> THEN {} ELSE listed) = listed
<1>1. \A r \in listed : PlotKey(listed, bd)[r] \in DOMAIN SeriesTokens(bd)
    BY SeriesAre
<1>2. DOMAIN <<>> = {}
    OBVIOUS
<1>3. SeriesTokens(bd) = <<>> => listed = {}
    BY <1>1, <1>2
<1> QED BY <1>3

-----------------------------------------------------------------------------
\* The tokens of the rows by their hour of the day, or their day of the week.
Cycle(listed, width, cycle) ==
    [b \in {(Down(r.at, width) % cycle) : r \in Known(listed)} |->
        TokensOf({r \in listed : Down(r.at, width) % cycle = b})]
IsCycle(f, listed, width, cycle) == f = Cycle(listed, width, cycle)

\* Rows whose total is unknown count for no tokens.
LEMMA KnownTokens ==
    ASSUME NEW listed, NEW other, Known(listed) = Known(other)
    PROVE  TokensOf(listed) = TokensOf(other)
BY DEF TokensOf

\* The hours, or the weekdays, add up to the rows.
LEMMA CycleAdds ==
    ASSUME NEW L, RowsTyped(L), NEW listed \in SUBSET L, NEW width, NEW cycle,
           NEW f, IsCycle(f, listed, width, cycle)
    PROVE  SumOf(f, Itself) = TokensOf(listed)
<1> DEFINE K == Known(listed)
           key == [r \in K |-> Down(r.at, width) % cycle]
           B == {(Down(r.at, width) % cycle) : r \in K}
<1>1. K \in SUBSET listed /\ K \in SUBSET L /\ Known(K) = K
    BY DEF Known
<1>2. IsFiniteSet(K)
    BY <1>1, FS_Subset DEF RowsTyped
<1>3. DOMAIN f = B
      /\ \A b \in B : f[b] = TokensOf({r \in listed : Down(r.at, width) % cycle = b})
    BY DEF IsCycle, Cycle
<1>4. \A r \in K : key[r] = Down(r.at, width) % cycle /\ key[r] \in B
    OBVIOUS
<1>5. key \in Surjection(K, B)
    <2> HIDE DEF K
    <2> QED BY DEF Surjection
<1>k. \A r : r \in K <=> r \in listed /\ r.total # NoTotal
    BY DEF Known
<1> HIDE DEF K, key
<1>6. ASSUME NEW b \in B PROVE f[b] = TokensOf(Group(K, key, b))
    <2> DEFINE R == {r \in listed : Down(r.at, width) % cycle = b}
               G == Group(K, key, b)
    <2>1. \A r : r \in R <=> r \in listed /\ Down(r.at, width) % cycle = b
        OBVIOUS
    <2>2. \A r : r \in G <=> r \in K /\ Down(r.at, width) % cycle = b
        BY <1>4 DEF Group
    <2> HIDE DEF R, G
    <2>3. Known(R) = Known(G)
        BY <1>k, <2>1, <2>2 DEF Known
    <2>4. TokensOf(R) = TokensOf(G)
        BY <2>3, KnownTokens
    <2> QED BY <1>3, <2>4 DEF R, G
<1> HIDE DEF B
<1>7. IsFiniteSet(B)
    BY <1>2, <1>5, FS_Surjection
<1>8. SumOf(f, Itself) = MapThenSumSet(LAMBDA n : f[n], B)
    BY <1>3 DEF SumOf, Itself
<1>9. MapThenSumSet(LAMBDA n : f[n], B) = Sum(f, B)
    BY SumsAre
<1>10. Sum(f, B) = TokensOf(K)
    BY <1>1, <1>4, <1>6, <1>7, GroupsAdd
<1>11. Known(K) = Known(listed)
    BY <1>1 DEF K
<1>12. TokensOf(K) = TokensOf(listed)
    BY <1>11, KnownTokens
<1> QED BY <1>8, <1>9, <1>10, <1>12

\* There are at most as many unknown rows as there are rows.
LEMMA UnknownFewer ==
    ASSUME NEW L, RowsTyped(L), NEW listed \in SUBSET L
    PROVE  /\ Cardinality(listed) \in Nat
           /\ Cardinality(listed \ Known(listed)) \in Nat
           /\ Cardinality(listed \ Known(listed)) <= Cardinality(listed)
<1>1. IsFiniteSet(listed)
    BY FS_Subset DEF RowsTyped
<1>2. listed \ Known(listed) \in SUBSET listed
    OBVIOUS
<1>3. /\ IsFiniteSet(listed \ Known(listed))
      /\ Cardinality(listed \ Known(listed)) <= Cardinality(listed)
    BY <1>1, <1>2, FS_Subset
<1> QED BY <1>1, <1>3, FS_CardinalityType

\* The coverage lies between none and all of the events of the summary.
LEMMA CoverageIs ==
    ASSUME NEW summary, summary.events \in Nat, NEW unknown \in Nat
    PROVE  /\ KnownEvents(summary, unknown) \in 0 .. summary.events
           /\ unknown <= summary.events => KnownEvents(summary, unknown) + unknown = summary.events
BY DEF KnownEvents

-----------------------------------------------------------------------------
\* More rows have as many tokens or more.
LEMMA TokensGrow ==
    ASSUME NEW L, RowsTyped(L), NEW T \in SUBSET L, NEW S \in SUBSET T
    PROVE  TokensOf(S) <= TokensOf(T)
<1> DEFINE w == TokenWeight(L)
<1>1. Weighs(w, L) /\ TokensOf(T) = Sum(w, T) /\ TokensOf(S) = Sum(w, S)
    <2>1. S \in SUBSET L
        OBVIOUS
    <2> QED BY <2>1, TokensAre
<1> HIDE DEF w
<1>2. IsFiniteSet(T) /\ Weighs(w, T)
    BY <1>1, FS_Subset DEF RowsTyped, Weighs
<1> QED BY <1>1, <1>2, SumOfFewer

\* No row lies in the first second of a day.
Settled(L) == \A r \in L : r.at # Midnight(r.at) + 1

\* Then the text order takes whole days.
LEMMA DaysWithin ==
    ASSUME NEW L, RowsTyped(L), Settled(L), NEW a, Multiple(a, Day), NEW b, Multiple(b, Day),
           NEW r \in L
    PROVE  r \in Within(L, a, b) <=> a <= Midnight(r.at) /\ Midnight(r.at) < b
<1> DEFINE m == Midnight(r.at)
<1>1. Day \in Nat /\ Day > 0 /\ Day % 2 = 0 /\ 2 \in Nat /\ 2 > 0
    BY Lengths
<1>2. r.at \in Int
    BY DEF RowsTyped
<1>3. m \in Int /\ Multiple(m, Day) /\ m <= r.at /\ r.at < m + Day
    BY <1>1, <1>2, DownIs DEF Midnight
<1>4. a \in Int /\ b \in Int /\ a # NoStart
    BY <1>1, Multiples, AnalyticsAssumption
<1>m. r.at # m + 1
    BY DEF Settled
<1> HIDE DEF m
<1>5. ASSUME NEW c \in {a, b} PROVE c \in Int /\ (TextBefore(r.at, c) <=> m < c)
    <2>1. c \in Int /\ Multiple(c, Day)
        BY <1>4
    <2>2. Multiple(c, 2)
        BY <2>1, <1>1, MultipleOf
    <2>3. TextBefore(r.at, c) <=> r.at < c \/ r.at = c + 1
        BY <2>1, <2>2, <1>2, TextOrder
    <2>4. m < c => m + Day <= c
        BY <2>1, <1>1, <1>3, Multiples
    <2>5. c < m => c + Day <= m
        BY <2>1, <1>1, <1>3, Multiples
    <2>6. Day >= 2
        BY <1>1
    <2>7. r.at = c + 1 => m = c
        BY <2>1, <2>4, <2>5, <2>6, <1>1, <1>2, <1>3
    <2>8. r.at < c <=> m < c
        BY <2>1, <2>4, <1>1, <1>2, <1>3
    <2> QED BY <2>1, <2>3, <2>7, <2>8, <1>m
<1>6. r \in Within(L, a, b) <=> ~TextBefore(r.at, a) /\ TextBefore(r.at, b)
    BY <1>4 DEF Within
<1>7. r \in Within(L, a, b) <=> a <= m /\ m < b
    BY <1>3, <1>4, <1>5, <1>6
<1> QED BY <1>7 DEF m

\* The heatmap drawn at some moment.
ActivityRows(L, t) ==
    Within(L, Down(t, Week) - (ActivityWeeks - 1) * Week, Down(t, Week) + ActivityWeeks * Week)
Daily(listed) ==
    [d \in {Midnight(r.at) : r \in listed} |-> TotalsOf({r \in listed : Midnight(r.at) = d})]
IsDaily(daily, listed) == daily = Daily(listed)

\* The ends of the heatmap are days, and the week so far lies between them.
LEMMA HeatmapEnds ==
    ASSUME NEW t \in Clocks
    PROVE  /\ Multiple(Down(t, Week) - (ActivityWeeks - 1) * Week, Day)
           /\ Multiple(Down(t, Week) + ActivityWeeks * Week, Day)
           /\ Multiple(Down(t, Week), Day) /\ Multiple(Midnight(t), Day)
           /\ Multiple(Midnight(t) + Day, Day)
           /\ Down(Midnight(t), Week) = Down(t, Week)
           /\ Down(t, Week) <= Midnight(t) /\ Midnight(t) \in Int /\ Down(t, Week) \in Int
           /\ Down(t, Week) - (ActivityWeeks - 1) * Week <= Down(t, Week)
           /\ Midnight(t) + Day <= Down(t, Week) + ActivityWeeks * Week
<1> DEFINE m == Midnight(t)
           w == Down(t, Week)
<1>1. /\ Day \in Nat /\ Day > 0 /\ Week \in Nat /\ Week > 0 /\ Week % Day = 0
      /\ ActivityWeeks \in Nat /\ ActivityWeeks >= 1
    BY Lengths, AnalyticsAssumption
<1>2. t \in Int
    BY AnalyticsAssumption
<1>3. m \in Int /\ Multiple(m, Day) /\ m <= t /\ t < m + Day
    BY <1>1, <1>2, DownIs DEF Midnight
<1>4. w \in Int /\ Multiple(w, Week) /\ w <= t /\ t < w + Week
    BY <1>1, <1>2, DownIs
<1>5. Down(m, Week) = w
    BY <1>1, <1>2, DownDown DEF Midnight
<1> HIDE DEF m, w
<1>6. Multiple(Week, Day) /\ \A a : Multiple(a, Week) => Multiple(a, Day)
    BY <1>1, MultipleOf
<1>7. Multiple(w, Day)
    BY <1>4, <1>6
<1>8. Multiple((ActivityWeeks - 1) * Week, Week) /\ Multiple(ActivityWeeks * Week, Week)
    <2>1. ActivityWeeks - 1 \in Int /\ ActivityWeeks \in Int
        BY <1>1
    <2> QED BY <2>1 DEF Multiple
<1>9. Multiple(w - (ActivityWeeks - 1) * Week, Day)
    <2> DEFINE c == (ActivityWeeks - 1) * Week
    <2>1. Multiple(c, Day)
        BY <1>6, <1>8
    <2> HIDE DEF c
    <2>2. Multiple(w - c, Day)
        BY <2>1, <1>1, <1>7, Multiples
    <2> QED BY <2>2 DEF c
<1>10. Multiple(w + ActivityWeeks * Week, Day)
    <2> DEFINE c == ActivityWeeks * Week
    <2>1. Multiple(c, Day)
        BY <1>6, <1>8
    <2> HIDE DEF c
    <2>2. Multiple(w + c, Day)
        BY <2>1, <1>1, <1>7, Multiples
    <2> QED BY <2>2 DEF c
<1>11. Multiple(m + Day, Day)
    BY <1>1, <1>3, Multiples
<1>12. w <= m
    <2>1. m < w => m + Day <= w
        BY <1>1, <1>3, <1>7, Multiples
    <2> QED BY <2>1, <1>1, <1>2, <1>3, <1>4
<1>13. m + Day <= w + Week
    <2>1. Multiple(w + Week, Day)
        BY <1>1, <1>6, <1>7, Multiples
    <2>2. m < w + Week
        BY <1>1, <1>2, <1>3, <1>4
    <2> QED BY <2>1, <2>2, <1>1, <1>3, Multiples
<1>14. 0 <= (ActivityWeeks - 1) * Week /\ (ActivityWeeks - 1) * Week \in Int
    BY <1>1
<1>15. Week <= ActivityWeeks * Week /\ ActivityWeeks * Week \in Int
    BY <1>1
<1>16. w - (ActivityWeeks - 1) * Week <= w /\ m + Day <= w + ActivityWeeks * Week
    BY <1>1, <1>3, <1>4, <1>13, <1>14, <1>15
<1> QED BY <1>3, <1>4, <1>5, <1>7, <1>9, <1>10, <1>11, <1>12, <1>16 DEF m, w

\* The cells of some days of the week so far have the tokens of these days.
LEMMA CellsAdd ==
    ASSUME NEW L, RowsTyped(L), Settled(L), NEW t \in Clocks,
           NEW daily, IsDaily(daily, ActivityRows(L, t)),
           NEW from, Multiple(from, Day), Down(t, Week) <= from
    PROVE  MapThenSumSet(LAMBDA d : daily[d].tokens,
                         {d \in DOMAIN daily : from <= d /\ d <= Midnight(t)})
               = TokensOf(Within(L, from, Midnight(t) + Day))
<1> DEFINE A == ActivityRows(L, t)
           date == Midnight(t)
           B == {d \in DOMAIN daily : from <= d /\ d <= date}
           R == Within(L, from, date + Day)
           key == [r \in R |-> Midnight(r.at)]
           v == [d \in B |-> daily[d].tokens]
<1>1. Day \in Nat /\ Day > 0 /\ Day \in Int
    BY Lengths
<1>2. from \in Int
    BY <1>1, Multiples
<1>3. date \in Int /\ Multiple(date, Day) /\ Multiple(date + Day, Day)
    BY HeatmapEnds
<1>4. R \in SUBSET L /\ A \in SUBSET L
    BY DEF Within, ActivityRows
<1>5. \A r \in R : key[r] = Midnight(r.at)
    OBVIOUS
<1>6. \A r \in L : Midnight(r.at) \in Int /\ Multiple(Midnight(r.at), Day)
    <2>1. \A r \in L : r.at \in Int
        BY DEF RowsTyped
    <2> QED BY <2>1, <1>1, DownIs DEF Midnight
<1>7. DOMAIN daily = {Midnight(r.at) : r \in A}
      /\ \A d \in DOMAIN daily : daily[d].tokens = TokensOf({r \in A : Midnight(r.at) = d})
    <2> HIDE DEF A
    <2>1. daily = Daily(A)
        BY DEF IsDaily, A
    <2>2. /\ DOMAIN Daily(A) = {Midnight(r.at) : r \in A}
          /\ \A d \in DOMAIN Daily(A) : Daily(A)[d] = TotalsOf({r \in A : Midnight(r.at) = d})
        BY DEF Daily
    <2> QED BY <2>1, <2>2, TotalsAre
<1> HIDE DEF date, key
<1>8. ASSUME NEW r \in L PROVE r \in R <=> from <= Midnight(r.at) /\ Midnight(r.at) <= date
    <2>1. r \in R <=> from <= Midnight(r.at) /\ Midnight(r.at) < date + Day
        BY <1>3, DaysWithin
    <2>2. date < Midnight(r.at) => date + Day <= Midnight(r.at)
        BY <1>1, <1>3, <1>6, Multiples
    <2>3. Midnight(r.at) \in Int
        BY <1>6
    <2> QED BY <2>1, <2>2, <2>3, <1>1, <1>3
<1>9. R \in SUBSET A
    <2> SUFFICES ASSUME NEW r \in R PROVE r \in A
        OBVIOUS
    <2> DEFINE m == Midnight(r.at)
               first == Down(t, Week) - (ActivityWeeks - 1) * Week
               last == Down(t, Week) + ActivityWeeks * Week
    <2>1. r \in L /\ m \in Int /\ from <= m /\ m <= date
        BY <1>4, <1>6, <1>8
    <2>2. /\ Multiple(first, Day) /\ Multiple(last, Day)
          /\ first <= Down(t, Week) /\ date + Day <= last /\ Down(t, Week) \in Int
        BY HeatmapEnds DEF date
    <2>3. A = Within(L, first, last)
        BY DEF ActivityRows
    <2> HIDE DEF A, R, m, first, last
    <2>4. first \in Int /\ last \in Int
        BY <1>1, <2>2, Multiples
    <2>5. first <= m /\ m < last
        BY <2>1, <2>2, <2>4, <1>1, <1>2, <1>3
    <2>6. r \in Within(L, first, last)
        BY <2>1, <2>2, <2>5, DaysWithin DEF m
    <2> QED BY <2>3, <2>6
<1>10. IsFiniteSet(B)
    <2> DEFINE D == {Midnight(r.at) : r \in A}
               f == [r \in A |-> Midnight(r.at)]
    <2>1. IsFiniteSet(A)
        BY <1>4, FS_Subset DEF RowsTyped
    <2> HIDE DEF A
    <2>2. f \in Surjection(A, D)
        BY DEF Surjection
    <2>3. B \in SUBSET D
        BY <1>7
    <2> HIDE DEF D, f, B
    <2>4. IsFiniteSet(D)
        BY <2>1, <2>2, FS_Surjection
    <2> QED BY <2>3, <2>4, FS_Subset
<1> HIDE DEF A, R
<1>11. \A r \in R : key[r] \in B
    <2> SUFFICES ASSUME NEW r \in R PROVE key[r] \in B
        OBVIOUS
    <2>1. r \in L /\ r \in A
        BY <1>4, <1>9
    <2>2. Midnight(r.at) \in DOMAIN daily
        BY <1>7, <2>1
    <2> QED BY <1>5, <1>8, <2>1, <2>2
<1>b. \A d \in B : d \in DOMAIN daily /\ from <= d /\ d <= date
    OBVIOUS
<1> HIDE DEF B
<1>12. ASSUME NEW d \in B PROVE daily[d].tokens = TokensOf(Group(R, key, d))
    <2>1. {r \in A : Midnight(r.at) = d} = Group(R, key, d)
        <3>1. \A r \in A : Midnight(r.at) = d => r \in R
            BY <1>4, <1>8, <1>b
        <3> QED BY <3>1, <1>5, <1>9 DEF Group
    <2> QED BY <2>1, <1>7, <1>b
<1>13. MapThenSumSet(LAMBDA d : daily[d].tokens, B) = Sum(v, B)
    BY SumsAre
<1>14. \A d \in B : v[d] = TokensOf(Group(R, key, d))
    BY <1>12
<1> HIDE DEF v
<1>15. Sum(v, B) = TokensOf(R)
    BY <1>4, <1>10, <1>11, <1>14, GroupsAdd
<1>16. MapThenSumSet(LAMBDA d : daily[d].tokens, B) = TokensOf(R)
    BY <1>13, <1>15
<1> QED BY <1>16 DEF B, R, date

-----------------------------------------------------------------------------
\* What a page says, by the queries that have been answered: each figure is that
\* of the rows there are, unless a row has come since the page began.
RowsOf(pg, L) == Within(L, pg.from, pg.to)

WindowTrue(pg) ==
    /\ {"period", "from", "to"} \subseteq DOMAIN pg
    /\ pg.period \in Periods /\ Window(pg.period, pg.from, pg.to)

SummaryTrue(pg, L, st) ==
    /\ "summary" \in DOMAIN pg /\ pg.summary.events \in Nat
    /\ st => pg.summary = TotalsOf(RowsOf(pg, L))

PointsTrue(pg, L, st) ==
    /\ "points" \in DOMAIN pg
    /\ st => IsPoints(pg.points, RowsOf(pg, L), pg.period, pg.from, pg.to)

BreakdownTrue(pg, L, st) ==
    /\ "breakdown" \in DOMAIN pg
    /\ st => IsBreakdown(pg.breakdown, RowsOf(pg, L))

ShareTrue(pg, L, st) ==
    /\ {"series", "share"} \subseteq DOMAIN pg
    /\ st => /\ pg.series = SeriesTokens(pg.breakdown)
             /\ IsShare(pg.share, RowsOf(pg, L), pg.period, pg.from, pg.to, pg.breakdown)

AggregateTrue(pg, L, st) ==
    /\ {"aggregate", "known"} \subseteq DOMAIN pg
    /\ pg.known \in 0 .. pg.summary.events
    /\ st => LET listed == RowsOf(pg, L)
             IN  /\ pg.known = KnownEvents(pg.summary, Cardinality(listed \ Known(listed)))
                 /\ IsCycle(pg.aggregate.hours, listed, Hour, Day)
                 /\ IsCycle(pg.aggregate.days, listed, Day, Week)

LifetimeTrue(pg, L, st) ==
    /\ "lifetime" \in DOMAIN pg
    /\ st => pg.lifetime = TokensOf(L)

TodayTrue(pg, L, st) ==
    /\ {"date", "today"} \subseteq DOMAIN pg
    /\ st => pg.today = TotalsOf(Within(L, pg.date, pg.date + Day))

WeekTrue(pg, L, st) ==
    /\ "week" \in DOMAIN pg
    /\ st => pg.week = TotalsOf(Within(L, Down(pg.date, Week), pg.date + Day))

DailyTrue(pg, L, st) ==
    /\ {"heatmap", "daily"} \subseteq DOMAIN pg
    /\ \E t \in Clocks : /\ pg.heatmap = Midnight(t)
                         /\ st => IsDaily(pg.daily, ActivityRows(L, t))

\* The figures a page has before each query.
AtPoints(pg, L, st) == WindowTrue(pg) /\ SummaryTrue(pg, L, st)
AtBreakdown(pg, L, st) == AtPoints(pg, L, st) /\ PointsTrue(pg, L, st)
AtShare(pg, L, st) == AtBreakdown(pg, L, st) /\ BreakdownTrue(pg, L, st)
AtAggregate(pg, L, st) == AtShare(pg, L, st) /\ ShareTrue(pg, L, st)
ReportTrue(pg, L, st) == AtAggregate(pg, L, st) /\ AggregateTrue(pg, L, st)
AtWeek(pg, L, st) == LifetimeTrue(pg, L, st) /\ TodayTrue(pg, L, st)
AtActivity(pg, L, st) == AtWeek(pg, L, st) /\ WeekTrue(pg, L, st)
OverviewTrue(pg, L, st) == AtActivity(pg, L, st) /\ DailyTrue(pg, L, st)

FiguresTrue(s, pg, L, st) ==
    /\ s \in {"summary", "previous", "points", "breakdown", "share", "aggregate"}
          => pg.kind = "report"
    /\ s \in {"today", "week", "activity"} => pg.kind = "overview"
    /\ s = "summary" => WindowTrue(pg)
    /\ s \in {"previous", "points"} => AtPoints(pg, L, st)
    /\ s = "breakdown" => AtBreakdown(pg, L, st)
    /\ s = "share" => AtShare(pg, L, st)
    /\ s = "aggregate" => AtAggregate(pg, L, st)
    /\ s = "today" => LifetimeTrue(pg, L, st)
    /\ s = "week" => AtWeek(pg, L, st)
    /\ s = "activity" => AtActivity(pg, L, st)
    /\ s = "shown" /\ pg.kind = "report" => ReportTrue(pg, L, st)
    /\ s = "shown" /\ pg.kind = "overview" => OverviewTrue(pg, L, st)

\* A page that has what another has, but for some fields.
Extends(pg, q, F) == \A f \in DOMAIN pg \ F : f \in DOMAIN q /\ q[f] = pg[f]

\* What a page says of other fields stays true.
LEMMA FiguresKept ==
    ASSUME NEW pg, NEW q, NEW F, Extends(pg, q, F), NEW L, NEW st
    PROVE  /\ WindowTrue(pg) /\ {"period", "from", "to"} \cap F = {} => WindowTrue(q)
           /\ WindowTrue(pg) /\ {"period", "from", "to", "summary"} \cap F = {}
                 /\ SummaryTrue(pg, L, st) => SummaryTrue(q, L, st)
           /\ WindowTrue(pg) /\ {"period", "from", "to", "points"} \cap F = {}
                 /\ PointsTrue(pg, L, st) => PointsTrue(q, L, st)
           /\ WindowTrue(pg) /\ {"period", "from", "to", "breakdown"} \cap F = {}
                 /\ BreakdownTrue(pg, L, st) => BreakdownTrue(q, L, st)
           /\ WindowTrue(pg) /\ BreakdownTrue(pg, L, st)
                 /\ {"period", "from", "to", "breakdown", "series", "share"} \cap F = {}
                 /\ ShareTrue(pg, L, st) => ShareTrue(q, L, st)
           /\ "lifetime" \notin F /\ LifetimeTrue(pg, L, st) => LifetimeTrue(q, L, st)
           /\ {"date", "today"} \cap F = {} /\ TodayTrue(pg, L, st) => TodayTrue(q, L, st)
           /\ {"date", "today", "week"} \cap F = {} /\ TodayTrue(pg, L, st)
                 /\ WeekTrue(pg, L, st) => WeekTrue(q, L, st)
<1>w. ASSUME WindowTrue(pg), {"period", "from", "to"} \cap F = {}
      PROVE  /\ q.period = pg.period /\ q.from = pg.from /\ q.to = pg.to
             /\ {"period", "from", "to"} \subseteq DOMAIN q
    BY <1>w DEF WindowTrue, Extends
<1>1. WindowTrue(pg) /\ {"period", "from", "to"} \cap F = {} => WindowTrue(q)
    BY <1>w DEF WindowTrue
<1>2. WindowTrue(pg) /\ {"period", "from", "to", "summary"} \cap F = {}
         /\ SummaryTrue(pg, L, st) => SummaryTrue(q, L, st)
    <2> SUFFICES ASSUME WindowTrue(pg), {"period", "from", "to", "summary"} \cap F = {},
                        SummaryTrue(pg, L, st)
                 PROVE  SummaryTrue(q, L, st)
        OBVIOUS
    <2>1. "summary" \in DOMAIN q /\ q.summary = pg.summary
        BY DEF SummaryTrue, Extends
    <2>2. RowsOf(q, L) = RowsOf(pg, L)
        BY <1>w DEF RowsOf
    <2> QED BY <2>1, <2>2 DEF SummaryTrue
<1>3. WindowTrue(pg) /\ {"period", "from", "to", "points"} \cap F = {}
         /\ PointsTrue(pg, L, st) => PointsTrue(q, L, st)
    <2> SUFFICES ASSUME WindowTrue(pg), {"period", "from", "to", "points"} \cap F = {},
                        PointsTrue(pg, L, st)
                 PROVE  PointsTrue(q, L, st)
        OBVIOUS
    <2>1. "points" \in DOMAIN q /\ q.points = pg.points
        BY DEF PointsTrue, Extends
    <2>2. RowsOf(q, L) = RowsOf(pg, L)
        BY <1>w DEF RowsOf
    <2> QED BY <1>w, <2>1, <2>2 DEF PointsTrue
<1>4. WindowTrue(pg) /\ {"period", "from", "to", "breakdown"} \cap F = {}
         /\ BreakdownTrue(pg, L, st) => BreakdownTrue(q, L, st)
    <2> SUFFICES ASSUME WindowTrue(pg), {"period", "from", "to", "breakdown"} \cap F = {},
                        BreakdownTrue(pg, L, st)
                 PROVE  BreakdownTrue(q, L, st)
        OBVIOUS
    <2>1. "breakdown" \in DOMAIN q /\ q.breakdown = pg.breakdown
        BY DEF BreakdownTrue, Extends
    <2>2. RowsOf(q, L) = RowsOf(pg, L)
        BY <1>w DEF RowsOf
    <2> QED BY <2>1, <2>2 DEF BreakdownTrue
<1>5. WindowTrue(pg) /\ BreakdownTrue(pg, L, st)
         /\ {"period", "from", "to", "breakdown", "series", "share"} \cap F = {}
         /\ ShareTrue(pg, L, st) => ShareTrue(q, L, st)
    <2> SUFFICES ASSUME WindowTrue(pg), BreakdownTrue(pg, L, st),
                        {"period", "from", "to", "breakdown", "series", "share"} \cap F = {},
                        ShareTrue(pg, L, st)
                 PROVE  ShareTrue(q, L, st)
        OBVIOUS
    <2>1. q.breakdown = pg.breakdown
        BY DEF BreakdownTrue, Extends
    <2>2. {"series", "share"} \subseteq DOMAIN q /\ q.series = pg.series /\ q.share = pg.share
        BY DEF ShareTrue, Extends
    <2>3. RowsOf(q, L) = RowsOf(pg, L)
        BY <1>w DEF RowsOf
    <2> QED BY <1>w, <2>1, <2>2, <2>3 DEF ShareTrue
<1>6. "lifetime" \notin F /\ LifetimeTrue(pg, L, st) => LifetimeTrue(q, L, st)
    BY DEF LifetimeTrue, Extends
<1>7. {"date", "today"} \cap F = {} /\ TodayTrue(pg, L, st) => TodayTrue(q, L, st)
    <2> SUFFICES ASSUME {"date", "today"} \cap F = {}, TodayTrue(pg, L, st)
                 PROVE  TodayTrue(q, L, st)
        OBVIOUS
    <2>1. {"date", "today"} \subseteq DOMAIN q /\ q.date = pg.date /\ q.today = pg.today
        BY DEF TodayTrue, Extends
    <2> QED BY <2>1 DEF TodayTrue
<1>8. {"date", "today", "week"} \cap F = {} /\ TodayTrue(pg, L, st)
         /\ WeekTrue(pg, L, st) => WeekTrue(q, L, st)
    <2> SUFFICES ASSUME {"date", "today", "week"} \cap F = {}, TodayTrue(pg, L, st),
                        WeekTrue(pg, L, st)
                 PROVE  WeekTrue(q, L, st)
        OBVIOUS
    <2>1. "week" \in DOMAIN q /\ q.date = pg.date /\ q.week = pg.week
        BY DEF TodayTrue, WeekTrue, Extends
    <2> QED BY <2>1 DEF WeekTrue
<1> QED BY <1>1, <1>2, <1>3, <1>4, <1>5, <1>6, <1>7, <1>8

\* An answered query leaves the rows alone and adds its fields to the page.
LEMMA AnswerShows ==
    ASSUME PageTyped, NEW now, NEW next, NEW fields, Answered(now, next, fields),
           "kind" \notin DOMAIN fields
    PROVE  /\ step = now /\ step' = next /\ ledger' = ledger /\ steady' = steady
           /\ clock' = clock /\ page'.kind = page.kind
           /\ Extends(page, page', DOMAIN fields)
           /\ \A f \in DOMAIN fields : f \in DOMAIN page' /\ page'[f] = fields[f]
<1>1. page' = [x \in DOMAIN fields \cup DOMAIN page |->
                  IF x \in DOMAIN fields THEN fields[x] ELSE page[x]]
    BY DEF Answered, With
<1>2. \A f \in DOMAIN page \ DOMAIN fields : f \in DOMAIN page' /\ page'[f] = page[f]
    BY <1>1
<1>3. \A f \in DOMAIN fields : f \in DOMAIN page' /\ page'[f] = fields[f]
    BY <1>1
<1>4. page'.kind = page.kind
    BY <1>2 DEF PageTyped
<1> QED BY <1>2, <1>3, <1>4 DEF Answered, Extends

\* The rows are typed, and every figure on the page is true.
FiguresInv ==
    /\ PageTyped /\ clock \in Clocks
    /\ RowsTyped(ledger) /\ FiguresTrue(step, page, ledger, steady)

\* The summary is that of the window.
LEMMA SummaryShows ==
    ASSUME FiguresInv, ReadSummary
    PROVE  FiguresTrue(step', page', ledger', steady')
<1> DEFINE v == TotalsOf(Selected(ledger))
           F == {"summary"}
<1>1. Answered("summary", "previous", [summary |-> v])
    BY DEF ReadSummary
<1>2. DOMAIN [summary |-> v] = F /\ [summary |-> v].summary = v /\ "kind" \notin F
    OBVIOUS
<1>3. v = TotalsOf(RowsOf(page, ledger)) /\ v.events \in Nat
    <2>1. RowsOf(page, ledger) \in SUBSET ledger
        BY DEF RowsOf, Within
    <2>2. Cardinality(RowsOf(page, ledger)) \in Nat
        BY <2>1, UnknownFewer DEF FiguresInv
    <2>3. v = TotalsOf(RowsOf(page, ledger))
        BY DEF Selected, RowsOf
    <2> QED BY <2>2, <2>3, TotalsAre
<1> HIDE DEF v
<1>4. /\ step = "summary" /\ step' = "previous" /\ ledger' = ledger /\ steady' = steady
      /\ page'.kind = page.kind /\ Extends(page, page', F)
      /\ "summary" \in DOMAIN page' /\ page'.summary = v
    BY <1>1, <1>2, AnswerShows DEF FiguresInv
<1>5. page.kind = "report" /\ WindowTrue(page)
    BY <1>4 DEF FiguresInv, FiguresTrue
<1>6. WindowTrue(page')
    BY <1>4, <1>5, FiguresKept
<1>7. RowsOf(page', ledger) = RowsOf(page, ledger)
    BY <1>4, <1>5 DEF WindowTrue, Extends, RowsOf
<1>8. SummaryTrue(page', ledger, steady)
    BY <1>3, <1>4, <1>7 DEF SummaryTrue
<1>9. AtPoints(page', ledger', steady')
    BY <1>4, <1>6, <1>8 DEF AtPoints
<1> QED BY <1>4, <1>5, <1>9 DEF FiguresTrue

\* The figures of the period before are kept apart.
LEMMA PreviousShows ==
    ASSUME FiguresInv, ReadPrevious
    PROVE  FiguresTrue(step', page', ledger', steady')
<1> DEFINE F == {"previous"}
<1>1. PICK v : Answered("previous", "points", [previous |-> v])
    BY DEF ReadPrevious
<1>2. DOMAIN [previous |-> v] = F /\ "kind" \notin F
    OBVIOUS
<1>3. /\ step = "previous" /\ step' = "points" /\ ledger' = ledger /\ steady' = steady
      /\ page'.kind = page.kind /\ Extends(page, page', F)
    BY <1>1, <1>2, AnswerShows DEF FiguresInv
<1>4. page.kind = "report" /\ WindowTrue(page) /\ SummaryTrue(page, ledger, steady)
    BY <1>3 DEF FiguresInv, FiguresTrue, AtPoints
<1>5. AtPoints(page', ledger', steady')
    BY <1>3, <1>4, FiguresKept DEF AtPoints
<1> QED BY <1>3, <1>4, <1>5 DEF FiguresTrue

\* The points are those of the window's rows.
LEMMA PointsShow ==
    ASSUME FiguresInv, ReadPoints
    PROVE  FiguresTrue(step', page', ledger', steady')
<1> DEFINE v == PointsOf(RowsOf(page, ledger), page.period, page.from, page.to)
           F == {"points"}
<1>1. Answered("points", "breakdown", [points |-> v])
    <2>1. Filled(Selected(ledger), page.period, page.from, page.to, TotalsOf) = v
        BY PointsAre DEF Selected, RowsOf
    <2> QED BY <2>1 DEF ReadPoints
<1>2. DOMAIN [points |-> v] = F /\ [points |-> v].points = v /\ "kind" \notin F
    OBVIOUS
<1>3. IsPoints(v, RowsOf(page, ledger), page.period, page.from, page.to)
    BY DEF IsPoints
<1> HIDE DEF v
<1>4. /\ step = "points" /\ step' = "breakdown" /\ ledger' = ledger /\ steady' = steady
      /\ page'.kind = page.kind /\ Extends(page, page', F)
      /\ "points" \in DOMAIN page' /\ page'.points = v
    BY <1>1, <1>2, AnswerShows DEF FiguresInv
<1>5. page.kind = "report" /\ WindowTrue(page) /\ SummaryTrue(page, ledger, steady)
    BY <1>4 DEF FiguresInv, FiguresTrue, AtPoints
<1>6. WindowTrue(page') /\ SummaryTrue(page', ledger, steady)
    BY <1>4, <1>5, FiguresKept
<1>7. page'.period = page.period /\ page'.from = page.from /\ page'.to = page.to
    BY <1>4, <1>5 DEF WindowTrue, Extends
<1>8. RowsOf(page', ledger) = RowsOf(page, ledger)
    BY <1>7 DEF RowsOf
<1>9. PointsTrue(page', ledger, steady)
    BY <1>3, <1>4, <1>7, <1>8 DEF PointsTrue
<1>10. AtBreakdown(page', ledger', steady')
    BY <1>4, <1>6, <1>9 DEF AtPoints, AtBreakdown
<1> QED BY <1>4, <1>5, <1>10 DEF FiguresTrue

\* The breakdown is that of the window's rows.
LEMMA BreakdownShows ==
    ASSUME FiguresInv, ReadBreakdown
    PROVE  FiguresTrue(step', page', ledger', steady')
<1> DEFINE v == Breakdown(RowsOf(page, ledger))
           F == {"breakdown"}
<1>1. Answered("breakdown", "share", [breakdown |-> v])
    BY DEF ReadBreakdown, Selected, RowsOf
<1>2. DOMAIN [breakdown |-> v] = F /\ [breakdown |-> v].breakdown = v /\ "kind" \notin F
    OBVIOUS
<1>3. IsBreakdown(v, RowsOf(page, ledger))
    BY DEF IsBreakdown
<1> HIDE DEF v
<1>4. /\ step = "breakdown" /\ step' = "share" /\ ledger' = ledger /\ steady' = steady
      /\ page'.kind = page.kind /\ Extends(page, page', F)
      /\ "breakdown" \in DOMAIN page' /\ page'.breakdown = v
    BY <1>1, <1>2, AnswerShows DEF FiguresInv
<1>5. /\ page.kind = "report" /\ WindowTrue(page) /\ SummaryTrue(page, ledger, steady)
      /\ PointsTrue(page, ledger, steady)
    BY <1>4 DEF FiguresInv, FiguresTrue, AtPoints, AtBreakdown
<1>6. /\ WindowTrue(page') /\ SummaryTrue(page', ledger, steady)
      /\ PointsTrue(page', ledger, steady)
    BY <1>4, <1>5, FiguresKept
<1>7. RowsOf(page', ledger) = RowsOf(page, ledger)
    BY <1>4, <1>5 DEF WindowTrue, Extends, RowsOf
<1>8. BreakdownTrue(page', ledger, steady)
    BY <1>3, <1>4, <1>7 DEF BreakdownTrue
<1>9. AtShare(page', ledger', steady')
    BY <1>4, <1>6, <1>8 DEF AtPoints, AtBreakdown, AtShare
<1> QED BY <1>4, <1>5, <1>9 DEF FiguresTrue

\* The share timeline is that of the window's rows.
LEMMA ShareShows ==
    ASSUME FiguresInv, ReadShare
    PROVE  FiguresTrue(step', page', ledger', steady')
<1> DEFINE bd == page.breakdown
           some == IF SeriesTokens(bd) = <<>> THEN {} ELSE Selected(ledger)
           v == SeriesTokens(bd)
           w == ShareOf(some, page.period, page.from, page.to, bd)
           F == {"series", "share"}
<1>1. Answered("share", "aggregate", [series |-> v, share |-> w])
    BY DEF ReadShare, Filled, ShareOf, SharePoint, Values, Part, Buckets, ShownIn
<1>2. /\ DOMAIN [series |-> v, share |-> w] = F /\ "kind" \notin F
      /\ [series |-> v, share |-> w].series = v /\ [series |-> v, share |-> w].share = w
    OBVIOUS
<1>3. IsShare(w, some, page.period, page.from, page.to, bd)
    BY DEF IsShare
<1> HIDE DEF w, some, bd
<1>4. /\ step = "share" /\ step' = "aggregate" /\ ledger' = ledger /\ steady' = steady
      /\ page'.kind = page.kind /\ Extends(page, page', F)
      /\ F \subseteq DOMAIN page' /\ page'.series = v /\ page'.share = w
    BY <1>1, <1>2, AnswerShows DEF FiguresInv
<1>5. /\ page.kind = "report" /\ WindowTrue(page) /\ SummaryTrue(page, ledger, steady)
      /\ PointsTrue(page, ledger, steady) /\ BreakdownTrue(page, ledger, steady)
    BY <1>4 DEF FiguresInv, FiguresTrue, AtPoints, AtBreakdown, AtShare
<1>6. /\ WindowTrue(page') /\ SummaryTrue(page', ledger, steady)
      /\ PointsTrue(page', ledger, steady) /\ BreakdownTrue(page', ledger, steady)
    BY <1>4, <1>5, FiguresKept
<1>7. page'.period = page.period /\ page'.from = page.from /\ page'.to = page.to
    BY <1>4, <1>5 DEF WindowTrue, Extends
<1>8. page'.breakdown = bd
    BY <1>4, <1>5 DEF BreakdownTrue, Extends, bd
<1>9. RowsOf(page', ledger) = RowsOf(page, ledger)
    BY <1>7 DEF RowsOf
<1>10. steady => some = RowsOf(page, ledger)
    <2> SUFFICES ASSUME steady PROVE some = RowsOf(page, ledger)
        OBVIOUS
    <2>1. Selected(ledger) = RowsOf(page, ledger) /\ RowsOf(page, ledger) \in SUBSET ledger
        BY DEF Selected, RowsOf, Within
    <2>2. IsBreakdown(bd, RowsOf(page, ledger))
        BY <1>5 DEF BreakdownTrue, bd
    <2>3. (IF SeriesTokens(bd) = <<>> THEN {} ELSE RowsOf(page, ledger)) = RowsOf(page, ledger)
        BY <2>1, <2>2, ShareIs DEF FiguresInv
    <2> QED BY <2>1, <2>3 DEF some
<1>11. ShareTrue(page', ledger, steady)
    BY <1>3, <1>4, <1>7, <1>8, <1>9, <1>10 DEF ShareTrue
<1>12. AtAggregate(page', ledger', steady')
    BY <1>4, <1>6, <1>11 DEF AtPoints, AtBreakdown, AtShare, AtAggregate
<1> QED BY <1>4, <1>5, <1>12 DEF FiguresTrue

\* The hours, the weekdays and the coverage are those of the window's rows.
LEMMA AggregateShows ==
    ASSUME FiguresInv, ReadAggregate
    PROVE  FiguresTrue(step', page', ledger', steady')
<1> DEFINE listed == RowsOf(page, ledger)
           unknown == Cardinality(listed \ Known(listed))
           hours == Cycle(listed, Hour, Day)
           days == Cycle(listed, Day, Week)
           sums == [tokens |-> TokensOf(listed), parts |-> PartsOf(listed),
                    hours |-> hours, days |-> days]
           known == KnownEvents(page.summary, unknown)
           read == [aggregate |-> sums, known |-> known]
           F == {"aggregate", "known", "cards"}
<1>1. Answered("aggregate", "shown", With(read, [cards |-> Cards(With(read, page))]))
    BY DEF ReadAggregate, Selected, RowsOf, Cycle
<1>2. PICK c : Answered("aggregate", "shown", With(read, [cards |-> c]))
    <2> HIDE DEF read
    <2> QED BY <1>1
<1>3. sums.hours = hours /\ sums.days = days
    OBVIOUS
<1>4. IsCycle(hours, listed, Hour, Day) /\ IsCycle(days, listed, Day, Week)
    BY DEF IsCycle
<1>5. DOMAIN read = {"aggregate", "known"} /\ read.aggregate = sums /\ read.known = known
    OBVIOUS
<1> HIDE DEF read, sums, hours, days
<1> DEFINE fields == With(read, [cards |-> c])
<1>6. /\ DOMAIN fields = F /\ "kind" \notin F
      /\ fields.aggregate = sums /\ fields.known = known
    BY <1>5 DEF With
<1> HIDE DEF fields, known
<1>7. Answered("aggregate", "shown", fields)
    BY <1>2 DEF fields
<1>8. /\ step = "aggregate" /\ step' = "shown" /\ ledger' = ledger /\ steady' = steady
      /\ page'.kind = page.kind /\ Extends(page, page', F)
      /\ F \subseteq DOMAIN page' /\ page'.aggregate = sums /\ page'.known = known
    BY <1>6, <1>7, AnswerShows DEF FiguresInv
<1>9. /\ page.kind = "report" /\ WindowTrue(page) /\ SummaryTrue(page, ledger, steady)
      /\ PointsTrue(page, ledger, steady) /\ BreakdownTrue(page, ledger, steady)
      /\ ShareTrue(page, ledger, steady)
    BY <1>8 DEF FiguresInv, FiguresTrue, AtPoints, AtBreakdown, AtShare, AtAggregate
<1>10. /\ WindowTrue(page') /\ SummaryTrue(page', ledger, steady)
       /\ PointsTrue(page', ledger, steady) /\ BreakdownTrue(page', ledger, steady)
       /\ ShareTrue(page', ledger, steady)
    BY <1>8, <1>9, FiguresKept
<1>11. RowsOf(page', ledger) = listed
    BY <1>8, <1>9 DEF WindowTrue, Extends, RowsOf
<1>12. page'.summary = page.summary /\ page.summary.events \in Nat
    BY <1>8, <1>9 DEF SummaryTrue, Extends
<1>13. unknown \in Nat
    <2>1. listed \in SUBSET ledger
        BY DEF RowsOf, Within
    <2> QED BY <2>1, UnknownFewer DEF FiguresInv
<1>14. known \in 0 .. page.summary.events
    <2> HIDE DEF unknown
    <2> QED BY <1>12, <1>13, CoverageIs DEF known
<1>15. AggregateTrue(page', ledger, steady)
    <2>1. {"aggregate", "known"} \subseteq DOMAIN page'
        BY <1>8
    <2>2. page'.known \in 0 .. page'.summary.events
        BY <1>8, <1>12, <1>14
    <2>3. page'.known = KnownEvents(page'.summary, unknown)
        BY <1>8, <1>12 DEF known
    <2>4. IsCycle(page'.aggregate.hours, listed, Hour, Day)
          /\ IsCycle(page'.aggregate.days, listed, Day, Week)
        BY <1>3, <1>4, <1>8
    <2> HIDE DEF listed
    <2> QED BY <1>11, <2>1, <2>2, <2>3, <2>4 DEF AggregateTrue
<1>16. ReportTrue(page', ledger', steady')
    BY <1>8, <1>10, <1>15 DEF AtPoints, AtBreakdown, AtShare, AtAggregate, ReportTrue
<1> QED BY <1>8, <1>9, <1>16 DEF FiguresTrue

\* The first query of a page fixes its kind.
LEMMA FirstShows ==
    ASSUME NEW now, NEW next, NEW fields, Answered(now, next, fields)
    PROVE  /\ step = now /\ step' = next /\ ledger' = ledger /\ steady' = steady
           /\ clock' = clock
           /\ \A f \in DOMAIN fields : f \in DOMAIN page' /\ page'[f] = fields[f]
BY DEF Answered, With

\* A report begins with its window.
LEMMA ReportBegins ==
    ASSUME FiguresInv, BeginReport
    PROVE  FiguresTrue(step', page', ledger', steady')
<1>1. PICK period \in Periods :
        Answered("none", "summary",
            [kind |-> "report", period |-> period, from |-> StartOf(period, clock),
             to |-> EndOf(period, clock), lifetime |-> TokensOf(ledger)])
    BY DEF BeginReport
<1> DEFINE a == StartOf(period, clock)
           b == EndOf(period, clock)
           v == TokensOf(ledger)
           fields == [kind |-> "report", period |-> period, from |-> a, to |-> b,
                      lifetime |-> v]
<1>2. Window(period, a, b)
    BY DEF FiguresInv, Window
<1> HIDE DEF a, b, v
<1>3. /\ {"kind", "period", "from", "to"} \subseteq DOMAIN fields
      /\ fields.kind = "report" /\ fields.period = period
      /\ fields.from = a /\ fields.to = b
    OBVIOUS
<1> HIDE DEF fields
<1>4. Answered("none", "summary", fields)
    BY <1>1 DEF fields, a, b, v
<1>5. /\ step' = "summary" /\ {"kind", "period", "from", "to"} \subseteq DOMAIN page'
      /\ page'.kind = "report" /\ page'.period = period
      /\ page'.from = a /\ page'.to = b
    BY <1>3, <1>4, FirstShows
<1>6. WindowTrue(page')
    BY <1>2, <1>5 DEF WindowTrue
<1> QED BY <1>5, <1>6 DEF FiguresTrue

\* An overview begins with the lifetime's tokens.
LEMMA OverviewBegins ==
    ASSUME FiguresInv, BeginOverview
    PROVE  FiguresTrue(step', page', ledger', steady')
<1> DEFINE v == TokensOf(ledger)
           fields == [kind |-> "overview", lifetime |-> v]
<1>1. Answered("none", "today", fields)
    BY DEF BeginOverview
<1>2. LifetimeTrue(fields, ledger, steady)
    BY DEF LifetimeTrue
<1> HIDE DEF v
<1>3. /\ {"kind", "lifetime"} \subseteq DOMAIN fields
      /\ fields.kind = "overview" /\ fields.lifetime = v
    OBVIOUS
<1> HIDE DEF fields
<1>4. /\ step' = "today" /\ {"kind", "lifetime"} \subseteq DOMAIN page'
      /\ page'.kind = "overview" /\ page'.lifetime = v
      /\ ledger' = ledger /\ steady' = steady
    BY <1>1, <1>3, FirstShows
<1>5. LifetimeTrue(page', ledger', steady')
    BY <1>4 DEF LifetimeTrue, v
<1> QED BY <1>4, <1>5 DEF FiguresTrue

\* The day is the one the clock shows.
LEMMA TodayShows ==
    ASSUME FiguresInv, ReadToday
    PROVE  FiguresTrue(step', page', ledger', steady')
<1> DEFINE d == Midnight(clock)
           v == TotalsOf(Within(ledger, d, d + Day))
           F == {"date", "today"}
<1>1. Answered("today", "week", [date |-> d, today |-> v])
    BY DEF ReadToday
<1> HIDE DEF d, v
<1>2. /\ DOMAIN [date |-> d, today |-> v] = F /\ "kind" \notin F
      /\ [date |-> d, today |-> v].date = d /\ [date |-> d, today |-> v].today = v
    OBVIOUS
<1>3. /\ step = "today" /\ step' = "week" /\ ledger' = ledger /\ steady' = steady
      /\ page'.kind = page.kind /\ Extends(page, page', F)
      /\ F \subseteq DOMAIN page' /\ page'.date = d /\ page'.today = v
    BY <1>1, <1>2, AnswerShows DEF FiguresInv
<1>4. page.kind = "overview" /\ LifetimeTrue(page, ledger, steady)
    BY <1>3 DEF FiguresInv, FiguresTrue
<1>5. LifetimeTrue(page', ledger, steady)
    BY <1>3, <1>4, FiguresKept
<1>6. TodayTrue(page', ledger, steady)
    BY <1>3 DEF TodayTrue, v
<1>7. AtWeek(page', ledger', steady')
    BY <1>3, <1>5, <1>6 DEF AtWeek
<1> QED BY <1>3, <1>4, <1>7 DEF FiguresTrue

\* The week is that of the page's day.
LEMMA WeekShows ==
    ASSUME FiguresInv, ReadWeek
    PROVE  FiguresTrue(step', page', ledger', steady')
<1> DEFINE v == TotalsOf(Within(ledger, Down(page.date, Week), page.date + Day))
           F == {"week"}
<1>1. Answered("week", "activity", [week |-> v])
    BY DEF ReadWeek
<1> HIDE DEF v
<1>2. DOMAIN [week |-> v] = F /\ "kind" \notin F /\ [week |-> v].week = v
    OBVIOUS
<1>3. /\ step = "week" /\ step' = "activity" /\ ledger' = ledger /\ steady' = steady
      /\ page'.kind = page.kind /\ Extends(page, page', F)
      /\ "week" \in DOMAIN page' /\ page'.week = v
    BY <1>1, <1>2, AnswerShows DEF FiguresInv
<1>4. /\ page.kind = "overview" /\ LifetimeTrue(page, ledger, steady)
      /\ TodayTrue(page, ledger, steady)
    BY <1>3 DEF FiguresInv, FiguresTrue, AtWeek
<1>5. LifetimeTrue(page', ledger, steady) /\ TodayTrue(page', ledger, steady)
    BY <1>3, <1>4, FiguresKept
<1>6. page'.date = page.date
    BY <1>3, <1>4 DEF TodayTrue, Extends
<1>7. WeekTrue(page', ledger, steady)
    BY <1>3, <1>6 DEF WeekTrue, v
<1>8. AtActivity(page', ledger', steady')
    BY <1>3, <1>5, <1>7 DEF AtWeek, AtActivity
<1> QED BY <1>3, <1>4, <1>8 DEF FiguresTrue

\* The heatmap is that of the moment it is drawn at.
LEMMA ActivityShows ==
    ASSUME FiguresInv, ReadActivity
    PROVE  FiguresTrue(step', page', ledger', steady')
<1> DEFINE h == Midnight(clock)
           v == Daily(ActivityRows(ledger, clock))
           F == {"heatmap", "daily"}
<1>1. Answered("activity", "shown", [heatmap |-> h, daily |-> v])
    BY DEF ReadActivity, Daily, ActivityRows
<1>2. IsDaily(v, ActivityRows(ledger, clock))
    BY DEF IsDaily
<1> HIDE DEF h, v
<1>3. /\ DOMAIN [heatmap |-> h, daily |-> v] = F /\ "kind" \notin F
      /\ [heatmap |-> h, daily |-> v].heatmap = h /\ [heatmap |-> h, daily |-> v].daily = v
    OBVIOUS
<1>4. /\ step = "activity" /\ step' = "shown" /\ ledger' = ledger /\ steady' = steady
      /\ page'.kind = page.kind /\ Extends(page, page', F)
      /\ F \subseteq DOMAIN page' /\ page'.heatmap = h /\ page'.daily = v
    BY <1>1, <1>3, AnswerShows DEF FiguresInv
<1>5. /\ page.kind = "overview" /\ LifetimeTrue(page, ledger, steady)
      /\ TodayTrue(page, ledger, steady) /\ WeekTrue(page, ledger, steady)
    BY <1>4 DEF FiguresInv, FiguresTrue, AtWeek, AtActivity
<1>6. /\ LifetimeTrue(page', ledger, steady) /\ TodayTrue(page', ledger, steady)
      /\ WeekTrue(page', ledger, steady)
    BY <1>4, <1>5, FiguresKept
<1>7. DailyTrue(page', ledger, steady)
    <2>1. clock \in Clocks
        BY DEF FiguresInv
    <2> QED BY <1>2, <1>4, <2>1 DEF DailyTrue, h
<1>8. OverviewTrue(page', ledger', steady')
    BY <1>4, <1>6, <1>7 DEF AtWeek, AtActivity, OverviewTrue
<1> QED BY <1>4, <1>5, <1>8 DEF FiguresTrue

\* When a row comes, the figures stand, but no longer for the rows there are.
LEMMA Unsteady ==
    ASSUME NEW s, NEW pg, NEW L, NEW st, FiguresTrue(s, pg, L, st), NEW M
    PROVE  FiguresTrue(s, pg, M, FALSE)
<1>1. /\ SummaryTrue(pg, L, st) => SummaryTrue(pg, M, FALSE)
      /\ PointsTrue(pg, L, st) => PointsTrue(pg, M, FALSE)
      /\ BreakdownTrue(pg, L, st) => BreakdownTrue(pg, M, FALSE)
      /\ ShareTrue(pg, L, st) => ShareTrue(pg, M, FALSE)
    BY DEF SummaryTrue, PointsTrue, BreakdownTrue, ShareTrue
<1>2. AggregateTrue(pg, L, st) => AggregateTrue(pg, M, FALSE)
    BY DEF AggregateTrue
<1>3. /\ LifetimeTrue(pg, L, st) => LifetimeTrue(pg, M, FALSE)
      /\ TodayTrue(pg, L, st) => TodayTrue(pg, M, FALSE)
      /\ WeekTrue(pg, L, st) => WeekTrue(pg, M, FALSE)
      /\ DailyTrue(pg, L, st) => DailyTrue(pg, M, FALSE)
    BY DEF LifetimeTrue, TodayTrue, WeekTrue, DailyTrue
<1>4. /\ AtPoints(pg, L, st) => AtPoints(pg, M, FALSE)
      /\ AtBreakdown(pg, L, st) => AtBreakdown(pg, M, FALSE)
      /\ AtShare(pg, L, st) => AtShare(pg, M, FALSE)
      /\ AtAggregate(pg, L, st) => AtAggregate(pg, M, FALSE)
      /\ ReportTrue(pg, L, st) => ReportTrue(pg, M, FALSE)
    BY <1>1, <1>2 DEF AtPoints, AtBreakdown, AtShare, AtAggregate, ReportTrue
<1>5. /\ AtWeek(pg, L, st) => AtWeek(pg, M, FALSE)
      /\ AtActivity(pg, L, st) => AtActivity(pg, M, FALSE)
      /\ OverviewTrue(pg, L, st) => OverviewTrue(pg, M, FALSE)
    BY <1>3 DEF AtWeek, AtActivity, OverviewTrue
<1> QED BY <1>3, <1>4, <1>5 DEF FiguresTrue

\* Between pages there is nothing to be true.
LEMMA NothingShown ==
    ASSUME NEW pg, NEW L, NEW st
    PROVE  FiguresTrue("none", pg, L, st)
BY DEF FiguresTrue

\* The rows of a well-formed database have a total or none.
Totalled(L) == \A r \in L : r.total \in Nat \cup {NoTotal}

\* So the typed rows of a database can be summed up.
LEMMA RowsAre ==
    ASSUME NEW L, LedgerTyped(L), Totalled(L)
    PROVE  RowsTyped(L)
BY AnalyticsAssumption DEF LedgerTyped, Totalled, RowsTyped

\* The figures are true of an empty database.
LEMMA FiguresInitially == AnalyticsInit => FiguresInv
<1> SUFFICES ASSUME AnalyticsInit PROVE FiguresInv
    OBVIOUS
<1>1. AnalyticsInv
    BY AnalyticsInitially
<1>2. RowsTyped(ledger)
    BY FS_EmptySet DEF AnalyticsInit, RowsTyped
<1>3. FiguresTrue(step, page, ledger, steady)
    BY NothingShown DEF AnalyticsInit
<1> QED BY <1>1, <1>2, <1>3 DEF AnalyticsInv, FiguresInv

\* No step makes a figure false.
LEMMA FiguresStep ==
    AnalyticsInv /\ AnalyticsInv' /\ FiguresInv /\ [AnalyticsNext]_analytics => FiguresInv'
<1> SUFFICES ASSUME AnalyticsInv, AnalyticsInv', FiguresInv, [AnalyticsNext]_analytics
             PROVE  FiguresInv'
    OBVIOUS
<1>p. PageTyped' /\ clock' \in Clocks /\ LedgerTyped(ledger')
    BY DEF AnalyticsInv
<1>i. RowsTyped(ledger) /\ FiguresTrue(step, page, ledger, steady)
    BY DEF FiguresInv
<1>a. ASSUME Totalled(ledger'), FiguresTrue(step', page', ledger', steady')
      PROVE  FiguresInv'
    <2>1. RowsTyped(ledger')
        BY <1>a, <1>p, RowsAre
    <2> QED BY <1>a, <1>p, <2>1 DEF FiguresInv
<1>t. Totalled(ledger)
    BY <1>i DEF RowsTyped, Totalled
<1>b. ASSUME ledger' = ledger, FiguresTrue(step', page', ledger', steady')
      PROVE  FiguresInv'
    BY <1>a, <1>b, <1>t
<1>1. CASE EventArrives
    <2>1. PICK at \in Moments, shape \in Shapes, name \in Names :
            ledger' = ledger \cup
               {[id |-> Min((1 .. MaxEvents) \ {r.id : r \in ledger}), at |-> at,
                 total |-> shape.total, parts |-> shape.parts, name |-> name]}
        BY <1>1 DEF EventArrives
    <2>2. Totalled(ledger')
        <3>1. shape.total \in Nat \cup {NoTotal}
            BY AnalyticsAssumption
        <3> QED BY <2>1, <3>1, <1>t DEF Totalled
    <2>3. UNCHANGED <<step, page>> /\ steady' = (step = "none")
        BY <1>1 DEF EventArrives
    <2>4. FiguresTrue(step', page', ledger', steady')
        <3>1. CASE step = "none"
            BY <2>3, <3>1, NothingShown
        <3>2. CASE step # "none"
            <4>1. steady' = FALSE
                BY <2>3, <3>2
            <4>2. FiguresTrue(step, page, ledger', FALSE)
                BY <1>i, Unsteady
            <4> QED BY <2>3, <4>1, <4>2
        <3> QED BY <3>1, <3>2
    <2> QED BY <1>a, <2>2, <2>4
<1>2. CASE ClockMoves
    BY <1>2, <1>b, <1>i DEF ClockMoves
<1>3. CASE Purge
    <2>1. ledger' \in SUBSET ledger /\ step' = "none"
        BY <1>3 DEF Purge
    <2>2. Totalled(ledger')
        BY <2>1, <1>t DEF Totalled
    <2>3. FiguresTrue(step', page', ledger', steady')
        BY <2>1, NothingShown
    <2> QED BY <1>a, <2>2, <2>3
<1>q. ASSUME NEW now, NEW next, NEW fields, Answered(now, next, fields) PROVE ledger' = ledger
    BY <1>q DEF Answered
<1>4. CASE BeginReport
    BY <1>4, <1>b, <1>q, ReportBegins DEF BeginReport
<1>5. CASE ReadSummary
    BY <1>5, <1>b, <1>q, SummaryShows DEF ReadSummary
<1>6. CASE ReadPrevious
    BY <1>6, <1>b, <1>q, PreviousShows DEF ReadPrevious
<1>7. CASE ReadPoints
    <2>1. PICK v : Answered("points", "breakdown", v)
        BY <1>7 DEF ReadPoints
    <2> QED BY <1>7, <2>1, <1>b, <1>q, PointsShow
<1>8. CASE ReadBreakdown
    BY <1>8, <1>b, <1>q, BreakdownShows DEF ReadBreakdown
<1>9. CASE ReadShare
    <2>1. PICK v : Answered("share", "aggregate", v)
        BY <1>9 DEF ReadShare
    <2> QED BY <1>9, <2>1, <1>b, <1>q, ShareShows
<1>10. CASE ReadAggregate
    <2>1. PICK v : Answered("aggregate", "shown", v)
        BY <1>10 DEF ReadAggregate
    <2> QED BY <1>10, <2>1, <1>b, <1>q, AggregateShows
<1>11. CASE BeginOverview
    BY <1>11, <1>b, <1>q, OverviewBegins DEF BeginOverview
<1>12. CASE ReadToday
    <2>1. PICK v : Answered("today", "week", v)
        BY <1>12 DEF ReadToday
    <2> QED BY <1>12, <2>1, <1>b, <1>q, TodayShows
<1>13. CASE ReadWeek
    BY <1>13, <1>b, <1>q, WeekShows DEF ReadWeek
<1>14. CASE ReadActivity
    <2>1. PICK v : Answered("activity", "shown", v)
        BY <1>14 DEF ReadActivity
    <2> QED BY <1>14, <2>1, <1>b, <1>q, ActivityShows
<1>15. CASE Leave
    <2>1. ledger' = ledger /\ step' = "none"
        BY <1>15 DEF Leave
    <2> QED BY <2>1, <1>b, NothingShown
<1>16. CASE UNCHANGED analytics
    BY <1>16, <1>b, <1>i DEF analytics
<1> QED BY <1>1, <1>2, <1>3, <1>4, <1>5, <1>6, <1>7, <1>8, <1>9, <1>10, <1>11, <1>12,
           <1>13, <1>14, <1>15, <1>16 DEF AnalyticsNext

\* A report that has been read undisturbed adds up.
LEMMA ReportAddsUp == FiguresInv => ReportAdds
<1> SUFFICES ASSUME FiguresInv, Shown("report"), steady,
                    page.period = "24h" \/ ~EarlyIn(page.to)
             PROVE
        /\ SumOf(page.points, TokensIn) = page.summary.tokens
        /\ SumOf(page.points, EventsIn) = page.summary.events
        /\ SumOf(page.breakdown, TokensIn) = page.summary.tokens
        /\ SumOf(page.series, Itself) = page.summary.tokens
        /\ \A i \in DOMAIN page.series :
               MapThenSumSet(LAMBDA b : page.share[b].values[i], DOMAIN page.share)
                   = page.series[i]
        /\ \A b \in DOMAIN page.share :
               SumOf(page.share[b].values, Itself) = page.share[b].tokens
        /\ SumOf(page.aggregate.hours, Itself) = page.summary.tokens
        /\ SumOf(page.aggregate.days, Itself) = page.summary.tokens
        /\ page.known + page.summary.unknown = page.summary.events
    BY DEF ReportAdds
<1> DEFINE listed == RowsOf(page, ledger)
<1>1. RowsTyped(ledger) /\ listed \in SUBSET ledger
    BY DEF FiguresInv, RowsOf, Within
<1>2. /\ WindowTrue(page) /\ SummaryTrue(page, ledger, steady)
      /\ PointsTrue(page, ledger, steady) /\ BreakdownTrue(page, ledger, steady)
      /\ ShareTrue(page, ledger, steady) /\ AggregateTrue(page, ledger, steady)
    BY DEF FiguresInv, FiguresTrue, Shown, AtPoints, AtBreakdown, AtShare, AtAggregate,
           ReportTrue
<1>3. /\ page.summary.tokens = TokensOf(listed) /\ page.summary.events = Cardinality(listed)
      /\ page.summary.unknown = Cardinality(listed \ Known(listed))
    BY <1>2, TotalsAre DEF SummaryTrue
<1>4. Covers(Buckets(listed, page.period, page.from, page.to), listed,
             BucketKey(listed, page.period))
    <2>1. page.period \in Periods /\ Window(page.period, page.from, page.to)
        BY <1>2 DEF WindowTrue
    <2>2. page.period = "24h" \/ \A o \in ledger : o.at # page.to + 1
        BY DEF EarlyIn
    <2>3. listed = Within(ledger, page.from, page.to)
        BY DEF RowsOf
    <2> HIDE DEF listed
    <2> QED BY <1>1, <2>1, <2>2, <2>3, BucketsCover DEF Covers
<1>5. IsPoints(page.points, listed, page.period, page.from, page.to)
    BY <1>2 DEF PointsTrue
<1>6. IsBreakdown(page.breakdown, listed)
    BY <1>2 DEF BreakdownTrue
<1>7. page.series = SeriesTokens(page.breakdown)
      /\ IsShare(page.share, listed, page.period, page.from, page.to, page.breakdown)
    BY <1>2 DEF ShareTrue
<1>8. /\ page.known = KnownEvents(page.summary, Cardinality(listed \ Known(listed)))
      /\ IsCycle(page.aggregate.hours, listed, Hour, Day)
      /\ IsCycle(page.aggregate.days, listed, Day, Week)
    BY <1>2 DEF AggregateTrue
<1> HIDE DEF listed
<1>9. SumOf(page.points, TokensIn) = TokensOf(listed)
      /\ SumOf(page.points, EventsIn) = Cardinality(listed)
    BY <1>1, <1>4, <1>5, PointsAdd
<1>10. SumOf(page.breakdown, TokensIn) = TokensOf(listed)
    <2>1. page.breakdown = Breakdown(listed)
        BY <1>6 DEF IsBreakdown
    <2> QED BY <1>1, <2>1, BreakdownAdds
<1>11. SumOf(page.series, Itself) = TokensOf(listed)
    BY <1>1, <1>6, <1>7, SeriesAdd
<1>12. /\ \A i \in DOMAIN page.series :
              MapThenSumSet(LAMBDA b : page.share[b].values[i], DOMAIN page.share)
                  = page.series[i]
       /\ \A b \in DOMAIN page.share :
              SumOf(page.share[b].values, Itself) = page.share[b].tokens
    <2> DEFINE bd == page.breakdown
               share == page.share
    <2>1. IsBreakdown(bd, listed) /\ IsShare(share, listed, page.period, page.from, page.to, bd)
        BY <1>6, <1>7
    <2> HIDE DEF bd, share
    <2>2. /\ \A i \in DOMAIN SeriesTokens(bd) : SeriesShown(share, i) = SeriesTokens(bd)[i]
          /\ \A b \in DOMAIN share : SumOf(share[b].values, Itself) = share[b].tokens
        BY <1>1, <1>4, <2>1, ShareAdds
    <2> QED BY <1>7, <2>2 DEF bd, share, SeriesShown
<1>13. SumOf(page.aggregate.hours, Itself) = TokensOf(listed)
       /\ SumOf(page.aggregate.days, Itself) = TokensOf(listed)
    BY <1>1, <1>8, CycleAdds
<1>14. page.known + page.summary.unknown = page.summary.events
    <2>1. Cardinality(listed) \in Nat /\ Cardinality(listed \ Known(listed)) \in Nat
          /\ Cardinality(listed \ Known(listed)) <= Cardinality(listed)
        BY <1>1, UnknownFewer
    <2> QED BY <2>1, <1>3, <1>8, CoverageIs
<1> QED BY <1>3, <1>9, <1>10, <1>11, <1>12, <1>13, <1>14

\* The coverage of a report is sane, disturbed or not.
LEMMA CoverageHolds == FiguresInv => CoverageSane
BY DEF FiguresInv, FiguresTrue, ReportTrue, AggregateTrue, CoverageSane, Shown

\* An overview that has been read undisturbed within a day agrees with itself.
LEMMA OverviewHolds == FiguresInv => OverviewAgrees
<1> DEFINE B(from) == {d \in DOMAIN page.daily : from <= d /\ d <= page.date}
<1> SUFFICES ASSUME FiguresInv, Shown("overview"), steady, page.date = page.heatmap,
                    \A r \in ledger : ~EarlyIn(Midnight(r.at))
             PROVE
        /\ page.today.tokens = MapThenSumSet(LAMBDA d : page.daily[d].tokens, B(page.date))
        /\ page.week.tokens = MapThenSumSet(LAMBDA d : page.daily[d].tokens,
                                            B(Down(page.date, Week)))
        /\ page.today.tokens <= page.week.tokens
        /\ page.week.tokens <= page.lifetime
    BY DEF OverviewAgrees
<1>1. RowsTyped(ledger)
    BY DEF FiguresInv
<1>2. /\ LifetimeTrue(page, ledger, steady) /\ TodayTrue(page, ledger, steady)
      /\ WeekTrue(page, ledger, steady) /\ DailyTrue(page, ledger, steady)
    BY DEF FiguresInv, FiguresTrue, Shown, AtWeek, AtActivity, OverviewTrue
<1>3. PICK t \in Clocks : page.heatmap = Midnight(t) /\ IsDaily(page.daily, ActivityRows(ledger, t))
    BY <1>2 DEF DailyTrue
<1>4. Settled(ledger)
    BY DEF EarlyIn, Settled
<1> DEFINE date == Midnight(t)
           monday == Down(t, Week)
           today == Within(ledger, date, date + Day)
           week == Within(ledger, monday, date + Day)
<1>5. /\ Multiple(monday, Day) /\ Multiple(date, Day) /\ Multiple(date + Day, Day)
      /\ Down(date, Week) = monday /\ monday <= date
      /\ monday \in Int /\ date \in Int
    BY HeatmapEnds
<1>6. page.date = date
    BY <1>3
<1>7. /\ page.today.tokens = TokensOf(today)
      /\ page.week.tokens = TokensOf(week)
      /\ page.lifetime = TokensOf(ledger)
    BY <1>2, <1>5, <1>6, TotalsAre DEF TodayTrue, WeekTrue, LifetimeTrue
<1>8. /\ MapThenSumSet(LAMBDA d : page.daily[d].tokens,
                       {d \in DOMAIN page.daily : date <= d /\ d <= date}) = TokensOf(today)
      /\ MapThenSumSet(LAMBDA d : page.daily[d].tokens,
                       {d \in DOMAIN page.daily : monday <= d /\ d <= date}) = TokensOf(week)
    <2>1. monday <= monday
        BY <1>5
    <2> QED BY <2>1, <1>1, <1>3, <1>4, <1>5, CellsAdd
<1>9. today \in SUBSET week /\ week \in SUBSET ledger
    <2>1. today \in SUBSET ledger /\ week \in SUBSET ledger
        BY DEF Within
    <2>2. ASSUME NEW r \in today PROVE r \in week
        <3>1. r \in ledger /\ r.at \in Int
            BY <2>1, <1>1 DEF RowsTyped
        <3>2. date <= Midnight(r.at) /\ Midnight(r.at) < date + Day
            BY <3>1, <1>1, <1>4, <1>5, DaysWithin
        <3>3. Midnight(r.at) \in Int
            BY <3>1, Lengths, DownIs DEF Midnight
        <3>4. monday <= Midnight(r.at)
            <4> HIDE DEF date, monday
            <4> QED BY <3>2, <3>3, <1>5
        <3> QED BY <3>1, <3>2, <3>4, <1>1, <1>4, <1>5, DaysWithin
    <2> QED BY <2>1, <2>2
<1> HIDE DEF today, week, date, monday
<1>10. TokensOf(today) <= TokensOf(week)
    BY <1>1, <1>9, TokensGrow
<1>11. TokensOf(week) <= TokensOf(ledger)
    <2>1. ledger \in SUBSET ledger
        OBVIOUS
    <2> QED BY <2>1, <1>1, <1>9, TokensGrow
<1>12. B(page.date) = {d \in DOMAIN page.daily : date <= d /\ d <= date}
       /\ B(Down(page.date, Week)) = {d \in DOMAIN page.daily : monday <= d /\ d <= date}
    BY <1>5, <1>6
<1> QED BY <1>7, <1>8, <1>10, <1>11, <1>12

\* The figures of one report, and those of an overview, are of one set of rows
\* and add up when no row arrives while they are read, and the coverage stays
\* within bounds even then, for every set of rows, clocks and lengths.
THEOREM AnalyticsAddsUp == AnalyticsSpec => []AnalyticsAdds
<1>1. AnalyticsInit => AnalyticsInv /\ FiguresInv
    BY AnalyticsInitially, FiguresInitially
<1>2. AnalyticsInv /\ FiguresInv /\ [AnalyticsNext]_analytics => AnalyticsInv' /\ FiguresInv'
    BY AnalyticsStep, FiguresStep
<1>3. FiguresInv => AnalyticsAdds
    BY ReportAddsUp, CoverageHolds, OverviewHolds DEF AnalyticsAdds
<1> QED BY <1>1, <1>2, <1>3, PTL DEF AnalyticsSpec

-----------------------------------------------------------------------------
\* Whatever is proved of the backups, the uploads, the reports or the recap
\* holds of the hub that has them all: a step of one leaves the others alone.
THEOREM HubHoldsParts == HubSpec => Spec /\ BackupSpec /\ UploadSpec /\ AnalyticsSpec /\ RecapSpec
<1>1. HubInit => Init /\ BackupInit /\ UploadInit /\ AnalyticsInit /\ RecapInit
    BY DEF HubInit
<1>2. [HubNext]_<<part, vars, bvars, upvars, analytics, recap>> =>
        [Next]_vars /\ [BackupNext]_bvars /\ [UploadNext]_upvars
            /\ [AnalyticsNext]_analytics /\ [RecapNext]_recap
    BY DEF HubNext
<1> QED BY <1>1, <1>2, PTL DEF HubSpec, Spec, BackupSpec, UploadSpec, AnalyticsSpec, RecapSpec

\* The state of every part of the hub has the shape its code gives it.
THEOREM HubTypeCorrect == HubSpec => []HubTypeOK
BY HubHoldsParts, TypeCorrect, BackupTypeCorrect, UploadTypeCorrect, AnalyticsTypeCorrect,
   RecapTypeCorrect, PTL DEF HubTypeOK
==============================================================================
