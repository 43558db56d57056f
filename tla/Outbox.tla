-------------------------------- MODULE Outbox --------------------------------
(***************************************************************************)
(* What the agent promises about each record it ships (DEPLOYMENT.md and   *)
(* docs/tokemon-spec-v0.2.md, "Agent polling"): the hub only learns what   *)
(* the machine recorded, never falls back to an older version, and the     *)
(* agent remembers as uploaded only what the hub has.                      *)
(***************************************************************************)
EXTENDS Integers

CONSTANT Ids     \* records and session aggregates

VARIABLES
  produced,      \* newest version on the machine, 0 = none
  stored,        \* version on the hub
  confirmed      \* version the agent will not send again

vars == <<produced, stored, confirmed>>

Init ==
  /\ produced = [i \in Ids |-> 0]
  /\ stored = [i \in Ids |-> 0]
  /\ confirmed = [i \in Ids |-> 0]

Produce ==
  /\ \E i \in Ids : produced' = [produced EXCEPT ![i] = @ + 1]
  /\ UNCHANGED <<stored, confirmed>>

\* A batch arrives, in full, in part, or for the second time.
Deliver ==
  /\ DOMAIN stored' = Ids
  /\ \A i \in Ids : stored[i] <= stored'[i] /\ stored'[i] <= produced[i]
  /\ UNCHANGED <<produced, confirmed>>

Confirm ==
  /\ DOMAIN confirmed' = Ids
  /\ \A i \in Ids : confirmed[i] <= confirmed'[i] /\ confirmed'[i] <= stored[i]
  /\ UNCHANGED <<produced, stored>>

Next == Produce \/ Deliver \/ Confirm

Spec == Init /\ [][Next]_vars

=============================================================================
