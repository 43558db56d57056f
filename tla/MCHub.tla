-------------------------------- MODULE MCHub --------------------------------
(* What works on the hub's database: the usage store, its backups, the        *)
(* uploads of several machines, the reports and the recap.  Each module keeps *)
(* the part of the database it is about; the initial state picks the one that *)
(* runs, the others stay where they begin.                                    *)
EXTENDS MCUsageStore, BackupRestore, Upload, MCAnalytics, InsightsRecap, TLC

CONSTANTS m1, m2

VARIABLE part

(* One machine writes every kind of record, the other plain ones.             *)
HubMachines == {m1, m2}
HubWritten == (m1 :> RecordKinds) @@ (m2 :> {"plain"})
HubThresholds == <<2, 4>>

(* Cards that differ in a figure, and in whether a project is named.          *)
HubCardSets == {"momentum" :> 1, ("momentum" :> 2) @@ ("concentration" :> Label)}

HubInit ==
    /\ part \in {"store", "backup", "upload", "report", "recap"}
    /\ Init /\ BackupInit /\ UploadInit /\ AnalyticsInit /\ RecapInit
    /\ part # "backup" => main = Nothing
    /\ part # "recap" => enabled = "off" /\ cards = "momentum" :> 1

HubNext ==
    \/ part = "store" /\ Next /\ UNCHANGED <<part, bvars, upvars, analytics, recap>>
    \/ part = "backup" /\ BackupNext /\ UNCHANGED <<part, vars, upvars, analytics, recap>>
    \/ part = "upload" /\ UploadNext /\ UNCHANGED <<part, vars, bvars, analytics, recap>>
    \/ part = "report" /\ AnalyticsNext /\ UNCHANGED <<part, vars, bvars, upvars, recap>>
    \/ part = "recap" /\ RecapNext /\ UNCHANGED <<part, vars, bvars, upvars, analytics>>

HubSpec == HubInit /\ [][HubNext]_<<part, vars, bvars, upvars, analytics, recap>>

(* The state of every module has the shape its code gives it.                 *)
HubTypeOK == TypeOK /\ BackupTypeOK /\ UploadTypeOK /\ AnalyticsTypeOK /\ RecapTypeOK
=============================================================================
