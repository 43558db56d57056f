------------------------------- MODULE MCLocal -------------------------------
(* What an agent does beside its log adapters: the cursor of a forked Codex   *)
(* session, the snapshots of the tools' databases, and its heartbeats.  The   *)
(* modules share no state; the initial state picks the one that runs.         *)
EXTENDS CodexLog, DatabaseSources, MachineHealth

VARIABLE part

LocalInit ==
    /\ part \in {"codex", "tool", "health"}
    /\ CodexInit /\ DbInit /\ HealthInit
    /\ part # "codex" => style = "total" /\ there
    /\ part # "tool" => tool = "opencode"

LocalNext ==
    \/ part = "codex" /\ CodexNext /\ UNCHANGED <<part, dbVars, health>>
    \/ part = "tool" /\ DbNext /\ UNCHANGED <<part, codexVars, health>>
    \/ part = "health" /\ HealthNext /\ UNCHANGED <<part, codexVars, dbVars>>

LocalSpec == LocalInit /\ [][LocalNext]_<<part, codexVars, dbVars, health>>

(* The state of every module has the shape its code gives it.                 *)
LocalTypeOK == CodexTypeOK /\ DbTypeOK /\ HealthTypeOK
=============================================================================
