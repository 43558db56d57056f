------------------------------- MODULE MCArrival -------------------------------
(* What must arrive: the records two agents of one state database upload, and *)
(* the answers of the hub's cached pages.  The two modules share no state;    *)
(* the initial state picks the one that runs, and the fairness of each holds  *)
(* where it runs.                                                             *)
EXTENDS AgentPassProps, ResponseCache

VARIABLE part

ArrivalInit == part \in {"agents", "response"} /\ Init /\ CacheInit

ArrivalNext ==
    \/ part = "agents" /\ Next /\ UNCHANGED <<part, cacheVars>>
    \/ part = "response" /\ CacheNext /\ UNCHANGED <<part, vars>>

ArrivalFairness ==
    /\ \A a \in Polling : WF_vars(part = "agents" /\ Progress(a))
    /\ \A r \in Requests : WF_cacheVars(part = "response" /\ Serve(r))

ArrivalSpec == ArrivalInit /\ [][ArrivalNext]_<<part, vars, cacheVars>> /\ ArrivalFairness
=============================================================================
