---------------------------- MODULE AgentPassProps ----------------------------
(***************************************************************************)
(* What one pass of the agent must get right (AgentPass), and the          *)
(* refinement of Outbox.                                                   *)
(***************************************************************************)
EXTENDS AgentPass

(***************************************************************************)
(* A committed log cursor never runs ahead of the hub: each record before  *)
(* it is stored there, whatever combination of lost answers, partial       *)
(* batches, rejections and restarts led to the commit (Client.Ingest and   *)
(* the order Ingest - Rejected check - Commit in runAgent).                *)
(***************************************************************************)
CursorCovered ==
  \A s \in Logs, k \in Keys : k <= cursor[s] => hub[s][k] = 1

(***************************************************************************)
(* The inductive strengthening of CursorCovered, part by part: where each  *)
(* record of a log is while it is not on the hub.                          *)
(***************************************************************************)
OnHub(s, k) == hub[s][k] = 1

LogVersions ==
  /\ \A a \in Agents : \A e \in pending[a] \cup unsent[a] \cup batch[a] :
       e.src \in Logs => e.ver = 1
  /\ \A b \in late : \A e \in b : e.src \in Logs => e.ver = 1

LogFingerprints == \A s \in Logs, k \in Keys : fps[s][k] = 1 => OnHub(s, k)

BaseCovered ==
  \A a \in Agents, s \in Logs, k \in Keys : k <= base[a][s] => OnHub(s, k)

ReportCovered ==
  \A a \in Agents, s \in Logs, k \in Keys :
    Succeeded(report[a][s]) /\ k <= report[a][s].cursor =>
      OnHub(s, k) \/ \E e \in pending[a] : e.src = s /\ e.key = k

\* A pending record waits in unsent or batch, is on the hub, or was rejected.
PendingCovered ==
  \A a \in Agents : pc[a] \in {"send", "wait", "replied", "commit"} =>
    \A e \in pending[a] : e.src \in Logs =>
      \/ OnHub(e.src, e.key) \/ rejected[a] \/ e \in unsent[a]
      \/ pc[a] = "wait" /\ e \in batch[a]

CommitGuarded ==
  \A a \in Agents :
    /\ pc[a] \in {"idle", "collect"} => ~rejected[a]
    /\ pc[a] = "commit" => unsent[a] = {} /\ ~rejected[a]

(***************************************************************************)
(* No record before a cursor, behind a fingerprint or in a report is lost  *)
(* between the source and the hub, for several agents and requests that    *)
(* overtake each other.                                                    *)
(***************************************************************************)
RecordsAccountedFor ==
  /\ LogVersions /\ CursorCovered /\ LogFingerprints /\ BaseCovered
  /\ ReportCovered /\ PendingCovered /\ CommitGuarded

(***************************************************************************)
(* A recorded fingerprint suppresses an upload for ever, so the hub must   *)
(* hold that version of the event or a newer one (StateStore.Pending and   *)
(* Commit against the upsert of Store.Ingest).                             *)
(***************************************************************************)
FingerprintCovered ==
  \A s \in Sources, k \in Keys : fps[s][k] <= hub[s][k]

(***************************************************************************)
(* A retry, a repeated batch or an answer that comes too late never puts   *)
(* an older version of a session aggregate back on the hub.                *)
(***************************************************************************)
HubNeverFallsBack ==
  [][\A s \in Sources, k \in Keys : hub[s][k] <= hub'[s][k]]_vars

\* Agent a commits in this step.
Commits(a) == pc[a] = "commit" /\ pc'[a] = "idle" /\ faults' = faults

\* What the source showed when the pass took its signature is on the hub.
Reached(a, s) == \A k \in Keys : sig[a][s][k] <= hub[s][k]

(***************************************************************************)
(* "A failed upload does not commit its local cursor or event fingerprint, *)
(* so the next pass retries the batch." (docs/tokemon-spec-v0.2.md, 1540): *)
(* a pass that commits a cached source without an error leaves the hub     *)
(* with everything the source showed when its signature was taken.         *)
(***************************************************************************)
CommitDelivers ==
  [][\A a \in Agents, s \in Cached :
       Commits(a) /\ Succeeded(report[a][s]) => Reached(a, s)]_vars

(***************************************************************************)
(* The part of CommitDelivers the code provides as long as nothing fails:  *)
(* the cache (SnapshotCache.Lookup) hides no change from a pass.           *)
(***************************************************************************)
CalmCommitDelivers ==
  [][\A a \in Agents, s \in Cached :
       faults = 0 /\ Commits(a) /\ Succeeded(report[a][s]) => Reached(a, s)]_vars

(***************************************************************************)
(* The part of CommitDelivers the code does provide under failures: it     *)
(* holds for every source the committing pass has really read, although    *)
(* the tools keep writing between the signature, the read and the upload.  *)
(***************************************************************************)
ReadCommitDelivers ==
  [][\A a \in Agents, s \in Cached :
       Commits(a) /\ report[a][s].kind = "parsed" => Reached(a, s)]_vars

\* The daemon reports an error for s on every pass until s changes: its
\* SnapshotCache holds an error of the present content.
StuckOnError(s) ==
  \A a \in Polling :
    /\ s \in Cached /\ cache[a][s] # NoEntry
    /\ cache[a][s].err /\ cache[a][s].sig = Content(s)

(***************************************************************************)
(* Every record appended to a log reaches the hub, through any MaxFaults   *)
(* failures, unless the source is one whose read error the cache keeps.    *)
(***************************************************************************)
LogRecordsArrive ==
  \A s \in Logs, k \in Keys :
    k <= len[s] ~> (hub[s][k] = 1 \/ StuckOnError(s))

(***************************************************************************)
(* AgentPass implements Outbox: records before a log's cursor and sessions *)
(* with a fingerprint are the confirmed ones.                              *)
(***************************************************************************)
Ids == Sources \X Keys

Confirmed(s, k) ==
  IF s \in Logs THEN (IF k <= cursor[s] THEN 1 ELSE 0) ELSE fps[s][k]

O == INSTANCE Outbox WITH
  produced  <- [i \in Ids |-> Shown(i[1], i[2])],
  stored    <- [i \in Ids |-> hub[i[1]][i[2]]],
  confirmed <- [i \in Ids |-> Confirmed(i[1], i[2])]

ImplementsOutbox == O!Spec

=============================================================================
