------------------------------ MODULE MCRecovery ------------------------------
(* What goes on after a failure: the passes of an agent, the polls of a log   *)
(* adapter, and the processes that want the database file.  The modules share *)
(* no state; the initial state picks the one that runs, and the fairness of   *)
(* each holds where it runs.                                                  *)
EXTENDS AgentPassProps, LogCursor, DatabaseLock

VARIABLE part

RecoveryInit ==
    /\ part \in {"agent", "log", "lock"}
    /\ Init /\ LogInit /\ LockInit
    /\ part # "log" => adapter = "claude"

RecoveryNext ==
    \/ part = "agent" /\ Next /\ UNCHANGED <<part, logVars, lockVars>>
    \/ part = "log" /\ LogNext /\ UNCHANGED <<part, vars, lockVars>>
    \/ part = "lock" /\ LockNext /\ UNCHANGED <<part, vars, logVars>>

RecoveryFairness ==
    /\ WF_logVars(part = "log" /\ Continue) /\ WF_look(part = "log" /\ Polled)
    /\ WF_lockVars(part = "lock" /\ Tick)
    /\ \A p \in Processes : WF_lockVars(part = "lock" /\ Proceed(p))

RecoverySpec ==
    /\ RecoveryInit
    /\ [][RecoveryNext]_<<part, vars, logVars, lockVars>>
    /\ RecoveryFairness

(* The state of the log and of the lock has the shape the code gives it.      *)
RecoveryTypeOK == LogTypeOK /\ LockTypeOK
=============================================================================
