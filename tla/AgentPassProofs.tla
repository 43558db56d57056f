--------------------------- MODULE AgentPassProofs ---------------------------
(***************************************************************************)
(* Proofs about AgentPass, for any number of sources and records, any      *)
(* batch size and any number of failures. What is said of log cursors      *)
(* holds for any number of agents and for requests that overtake each      *)
(* other; what is said of versions, of signatures and of Outbox needs one  *)
(* agent on the state database and requests that stay in order.            *)
(***************************************************************************)
EXTENDS AgentPassProps, TLAPS

-----------------------------------------------------------------------------

(***************************************************************************)
(* Types                                                                   *)
(***************************************************************************)

LEMMA VersionTypes == 0 \in Versions /\ 1 \in Versions /\ 0 \in Offsets /\ 1 \in Offsets
BY BoundsAssumption DEF Versions, Offsets

LEMMA ShownType ==
  ASSUME TypeOK, NEW s \in Sources
  PROVE  /\ \A k \in Keys : Shown(s, k) \in Versions
         /\ Content(s) \in Signatures
         /\ ResultCursor(s) \in Offsets
<1>1. \A k \in Keys : Shown(s, k) \in Versions
  BY VersionTypes DEF TypeOK, Shown, Sources
<1>2. Content(s) \in Signatures
  BY <1>1 DEF Content, Signatures
<1>3. ResultCursor(s) \in Offsets
  BY VersionTypes DEF TypeOK, ResultCursor, Offsets
<1> QED
  BY <1>1, <1>2, <1>3

LEMMA UpsertType ==
  ASSUME TypeOK, NEW events \in SUBSET Event
  PROVE  Upsert(events) \in Table
<1>1. ASSUME NEW s \in Sources, NEW k \in Keys, \E e \in events : e.src = s /\ e.key = k
      PROVE  (CHOOSE e \in events : e.src = s /\ e.key = k).ver \in Versions
  BY <1>1 DEF Event
<1> QED
  BY <1>1 DEF Upsert, Table, TypeOK

LocalTypes ==
  /\ pc \in [Agents -> {"idle", "collect", "send", "wait", "replied", "commit"}]
  /\ todo \in [Agents -> SUBSET Sources]
  /\ reading \in [Agents -> Sources \cup {NoSource}]
  /\ sig \in [Agents -> [Sources -> Signatures]]
  /\ base \in [Agents -> [Sources -> Offsets]]
  /\ report \in [Agents -> [Sources -> Report]]
  /\ pending \in [Agents -> SUBSET Event]
  /\ unsent \in [Agents -> SUBSET Event]
  /\ batch \in [Agents -> SUBSET Event]
  /\ rejected \in [Agents -> BOOLEAN]

LEMMA EndPassType ==
  ASSUME TypeOK, NEW a \in Agents, EndPass(a)
  PROVE  LocalTypes'
<1>1. NoSignature \in Signatures /\ NoReport \in Report /\ [s \in Sources |-> 0] \in [Sources -> Offsets]
  BY VersionTypes DEF NoSignature, Signatures, NoReport, Report
<1>2. /\ [s \in Sources |-> NoReport] \in [Sources -> Report]
      /\ [s \in Sources |-> NoSignature] \in [Sources -> Signatures]
  BY <1>1
<1> QED
  BY <1>1, <1>2 DEF TypeOK, EndPass, LocalTypes

LEMMA TypeInit == Init => TypeOK
<1>1. NoSignature \in Signatures /\ NoReport \in Report
  BY VersionTypes DEF NoSignature, Signatures, NoReport, Report
<1> QED
  BY <1>1, VersionTypes, BoundsAssumption
     DEF Init, TypeOK, Table, Offsets, Versions

LEMMA FaultType == TypeOK /\ Fault => faults' \in 0..MaxFaults
BY BoundsAssumption DEF TypeOK, Fault

LEMMA ProgressType ==
  ASSUME TypeOK, NEW a \in Agents, Progress(a)
  PROVE  TypeOK'
<1> USE DEF TypeOK, stateDB, local
<1>1. CASE BeginPass(a)
  BY <1>1 DEF BeginPass
<1>2. ASSUME NEW s \in Sources, LookupHit(a, s) PROVE TypeOK'
  <2>1. cache[a][s] \in Entry
    BY <1>2 DEF LookupHit, Hit
  <2>2. (IF cache[a][s].err THEN [kind |-> "failed", cursor |-> 0]
         ELSE [kind |-> "cached", cursor |-> cache[a][s].result]) \in Report
    BY <2>1, VersionTypes DEF Entry, Report
  <2>3. Content(s) \in Signatures
    BY ShownType
  <2> QED
    BY <1>2, <2>2, <2>3 DEF LookupHit
<1>3. ASSUME NEW s \in Sources, LookupMiss(a, s) PROVE TypeOK'
  BY <1>3, ShownType DEF LookupMiss
<1>4. CASE Parse(a)
  <2> DEFINE s == reading[a]
  <2>1. s \in Sources
    BY <1>4 DEF Parse
  <2>2. ResultCursor(s) \in Offsets /\ Parsed(s, base[a][s]) \subseteq Event
    BY <2>1, ShownType DEF Parsed
  <2>3. [kind |-> "parsed", cursor |-> ResultCursor(s)] \in Report
    BY <2>2 DEF Report
  <2>4. [sig |-> sig[a][s], request |-> base[a][s], result |-> ResultCursor(s),
         err |-> FALSE] \in Entry
    BY <2>1, <2>2 DEF Entry
  <2>5. cache' \in [Agents -> [Sources -> Entry \cup {NoEntry}]]
    BY <1>4, <2>1, <2>4 DEF Parse, Store
  <2> QED
    BY <1>4, <2>1, <2>2, <2>3, <2>5 DEF Parse
<1>5. CASE Diff(a)
  BY <1>5 DEF Diff, Changed
<1>6. CASE Send(a)
  BY <1>6 DEF Send
<1>7. CASE HubStores(a)
  BY <1>7, UpsertType DEF HubStores
<1>8. CASE Reply(a)
  <2>1. LocalTypes'
    <3>1. CASE ~EndPass(a)
      BY <1>8, <3>1 DEF Reply, LocalTypes
    <3>2. CASE EndPass(a)
      BY <3>2, EndPassType
    <3> QED
      BY <3>1, <3>2
  <2> QED
    BY <1>8, <2>1 DEF Reply, LocalTypes
<1>9. CASE Commit(a)
  <2>1. LocalTypes'
    BY <1>9, EndPassType DEF Commit
  <2>2. cursor' \in [Sources -> Offsets]
    BY <1>9 DEF Commit, Report
  <2>3. ASSUME NEW s \in Sources, NEW k \in Keys,
               \E e \in pending[a] : e.src = s /\ e.key = k
        PROVE  (CHOOSE e \in pending[a] : e.src = s /\ e.key = k).ver \in Versions
    BY <2>3 DEF Event
  <2>4. fps' \in Table
    BY <1>9, <2>3 DEF Commit, Table
  <2> QED
    BY <1>9, <2>1, <2>2, <2>4 DEF Commit, LocalTypes
<1> QED
  BY <1>1, <1>2, <1>3, <1>4, <1>5, <1>6, <1>7, <1>8, <1>9 DEF Progress

LEMMA FailureType ==
  ASSUME TypeOK, NEW a \in Agents, Failure(a)
  PROVE  TypeOK'
<1>1. CASE ParseFails(a)
  <2> DEFINE s == reading[a]
  <2>1. s \in Sources /\ faults' \in 0..MaxFaults
    BY <1>1, FaultType DEF ParseFails, TypeOK
  <2>2. [kind |-> "failed", cursor |-> 0] \in Report
    BY VersionTypes DEF Report
  <2>3. [sig |-> sig[a][s], request |-> base[a][s], result |-> 0, err |-> TRUE] \in Entry
    BY <2>1, VersionTypes DEF Entry, TypeOK
  <2>4. cache' \in [Agents -> [Sources -> Entry \cup {NoEntry}]]
    <3>1. CASE UNCHANGED cache
      BY <3>1 DEF TypeOK
    <3>2. CASE Store(a, s, 0, TRUE)
      BY <2>1, <2>3, <3>2 DEF Store, TypeOK
    <3> QED
      BY <1>1, <3>1, <3>2 DEF ParseFails
  <2> QED
    BY <1>1, <2>1, <2>2, <2>4 DEF ParseFails, TypeOK, stateDB
<1>2. CASE HubRejects(a)
  <2>1. faults' \in 0..MaxFaults
    BY <1>2, FaultType DEF HubRejects
  <2>2. hub' \in Table
    BY <1>2, UpsertType DEF HubRejects, TypeOK
  <2> QED
    BY <1>2, <2>1, <2>2 DEF HubRejects, TypeOK, stateDB
<1>3. CASE RequestFails(a) \/ RequestTimesOut(a) \/ ReplyLost(a) \/ LocalError(a) \/ Crash(a)
  <2>1. LocalTypes' /\ faults' \in 0..MaxFaults
    BY <1>3, EndPassType, FaultType
       DEF RequestFails, RequestTimesOut, ReplyLost, LocalError, Crash
  <2>2. late' \subseteq SUBSET Event
    <3>1. batch[a] \in SUBSET Event /\ late \subseteq SUBSET Event
      BY DEF TypeOK
    <3>2. late' = late \/ late' = late \cup {batch[a]}
      BY <1>3 DEF RequestFails, RequestTimesOut, ReplyLost, LocalError, Crash
    <3> QED
      BY <3>1, <3>2
  <2>3. cache' \in [Agents -> [Sources -> Entry \cup {NoEntry}]]
    <3>1. cache \in [Agents -> [Sources -> Entry \cup {NoEntry}]]
      BY DEF TypeOK
    <3>2. UNCHANGED cache \/ cache' = [cache EXCEPT ![a] = [s \in Sources |-> NoEntry]]
      BY <1>3 DEF RequestFails, RequestTimesOut, ReplyLost, LocalError, Crash
    <3> QED
      BY <3>1, <3>2
  <2>4. UNCHANGED <<len, rows, cursor, fps, hub>>
    BY <1>3 DEF RequestFails, RequestTimesOut, ReplyLost, LocalError, Crash, stateDB
  <2> QED
    BY <2>1, <2>2, <2>3, <2>4 DEF LocalTypes, TypeOK
<1> QED
  BY <1>1, <1>2, <1>3 DEF Failure

LEMMA TypeStep == TypeOK /\ [Next]_vars => TypeOK'
<1> SUFFICES ASSUME TypeOK, [Next]_vars PROVE TypeOK'
  OBVIOUS
<1>1. ASSUME NEW s \in Logs, AppendRecord(s) PROVE TypeOK'
  BY <1>1, BoundsAssumption DEF AppendRecord, TypeOK, stateDB, local
<1>2. ASSUME NEW s \in Snaps, NEW k \in Keys, WriteRow(s, k) PROVE TypeOK'
  <2>1. rows[s][k] + 1 \in Versions
    BY <1>2, BoundsAssumption DEF WriteRow, TypeOK, Versions
  <2> QED
    BY <1>2, <2>1 DEF WriteRow, TypeOK, stateDB, local
<1>3. ASSUME NEW a \in Agents, Progress(a) \/ Failure(a) PROVE TypeOK'
  BY <1>3, ProgressType, FailureType
<1>4. ASSUME NEW b \in late, LateStores(b) \/ LateDropped(b) PROVE TypeOK'
  BY <1>4, UpsertType DEF LateStores, LateDropped, TypeOK, stateDB, local
<1>5. CASE UNCHANGED vars
  BY <1>5 DEF vars, TypeOK, stateDB, local
<1> QED
  BY <1>1, <1>2, <1>3, <1>4, <1>5 DEF Next

(***************************************************************************)
(* Every variable keeps its type: cursors and versions stay in range.      *)
(***************************************************************************)
THEOREM TypeCorrect == Spec => []TypeOK
BY TypeInit, TypeStep, PTL DEF Spec

-----------------------------------------------------------------------------

(***************************************************************************)
(* Records are accounted for                                               *)
(***************************************************************************)

LEMMA RecordsInit == Init => RecordsAccountedFor
BY DEF Init, RecordsAccountedFor, LogVersions, CursorCovered, LogFingerprints, BaseCovered,
       ReportCovered, PendingCovered, CommitGuarded, Sources, Keys, NoReport, Succeeded

\* A pass that returns leaves nothing to account for.
LEMMA EndPassForgets ==
  ASSUME TypeOK, NEW a \in Agents, EndPass(a)
  PROVE  /\ pc'[a] = "idle" /\ ~rejected'[a]
         /\ pending'[a] = {} /\ unsent'[a] = {} /\ batch'[a] = {}
         /\ \A s \in Sources : base'[a][s] = 0 /\ report'[a][s] = NoReport
         /\ \A b \in Agents \ {a} :
              /\ pc'[b] = pc[b] /\ rejected'[b] = rejected[b]
              /\ pending'[b] = pending[b] /\ unsent'[b] = unsent[b] /\ batch'[b] = batch[b]
              /\ base'[b] = base[b] /\ report'[b] = report[b]
BY DEF TypeOK, EndPass

\* What a step keeps that ends the pass of a, adds to the hub at most, and
\* commits at most what is on it.
LEMMA EndPassKeeps ==
  ASSUME TypeOK, RecordsAccountedFor, NEW a \in Agents, EndPass(a),
         hub' = hub, CursorCovered', LogFingerprints',
         \A b \in late' : b \in late \/ b = batch[a]
  PROVE  RecordsAccountedFor'
<1> USE EndPassForgets DEF RecordsAccountedFor, OnHub, Sources
<1>1. LogVersions'
  BY DEF LogVersions
<1>2. BaseCovered'
  BY DEF BaseCovered, Keys
<1>3. ReportCovered'
  BY DEF ReportCovered, NoReport, Succeeded
<1>4. PendingCovered'
  BY DEF PendingCovered
<1>5. CommitGuarded'
  BY DEF CommitGuarded
<1> QED
  BY <1>1, <1>2, <1>3, <1>4, <1>5

\* Stored records stay stored.
LEMMA UpsertKeeps ==
  ASSUME TypeOK, NEW events \in SUBSET Event,
         \A e \in events : e.src \in Logs => e.ver = 1,
         NEW s \in Logs, NEW k \in Keys
  PROVE  /\ hub[s][k] = 1 => Upsert(events)[s][k] = 1
         /\ (\E e \in events : e.src = s /\ e.key = k) => Upsert(events)[s][k] = 1
<1>1. ASSUME \E e \in events : e.src = s /\ e.key = k
      PROVE  (CHOOSE e \in events : e.src = s /\ e.key = k).ver = 1
  BY <1>1
<1>2. Upsert(events)[s][k] = IF \E e \in events : e.src = s /\ e.key = k
                               THEN (CHOOSE e \in events : e.src = s /\ e.key = k).ver
                               ELSE hub[s][k]
  BY DEF Upsert, Sources
<1> QED
  BY <1>1, <1>2

LEMMA ProgressRecords ==
  ASSUME TypeOK, RecordsAccountedFor, NEW a \in Agents, Progress(a)
  PROVE  RecordsAccountedFor'
<1> DEFINE Parts == /\ LogVersions /\ CursorCovered /\ LogFingerprints /\ BaseCovered
                    /\ ReportCovered /\ PendingCovered /\ CommitGuarded
<1>0. Parts
  BY DEF RecordsAccountedFor
<1> SUFFICES Parts'
  BY DEF RecordsAccountedFor
<1> USE <1>0 DEF LogVersions, CursorCovered, LogFingerprints, BaseCovered, ReportCovered,
        PendingCovered, CommitGuarded, OnHub, Succeeded, stateDB, local, TypeOK
<1>1. CASE BeginPass(a)
  BY <1>1 DEF BeginPass, Sources
<1>2. ASSUME NEW s \in Sources, LookupHit(a, s) PROVE Parts'
  BY <1>2 DEF LookupHit, Hit, Sources
<1>3. ASSUME NEW s \in Sources, LookupMiss(a, s) PROVE Parts'
  BY <1>3 DEF LookupMiss
<1>4. CASE Parse(a)
  <2> DEFINE s == reading[a]
             new == Parsed(s, base[a][s])
  <2>1. s \in Sources /\ pc[a] = "collect" /\ UNCHANGED <<pc, hub, fps, cursor, base, late,
                                                         unsent, batch, rejected>>
    BY <1>4 DEF Parse
  <2>2. pending' = [pending EXCEPT ![a] = @ \cup new]
    BY <1>4 DEF Parse
  <2>3. report' = [report EXCEPT ![a][s] = [kind |-> "parsed", cursor |-> ResultCursor(s)]]
    BY <1>4 DEF Parse
  <2>4. \A e \in new : e.src = s /\ (s \in Logs => e.ver = 1)
    BY BoundsAssumption DEF Parsed, Shown, Event, Versions
  <2>5. ASSUME s \in Logs, NEW k \in Keys, k <= ResultCursor(s)
        PROVE  OnHub(s, k) \/ \E e \in new : e.src = s /\ e.key = k
    <3>1. CASE k <= base[a][s]
      BY <2>5, <3>1
    <3>2. CASE ~(k <= base[a][s])
      <4>1. [src |-> s, key |-> k, ver |-> 1] \in Event /\ Shown(s, k) = 1 /\ k > base[a][s]
        BY <2>1, <2>5, <3>2, VersionTypes DEF Event, Shown, ResultCursor, Keys, Offsets
      <4>2. [src |-> s, key |-> k, ver |-> 1] \in new
        BY <4>1 DEF Parsed
      <4> QED
        BY ZenonT(60), <4>2
    <3> QED
      BY <3>1, <3>2
  <2> HIDE DEF new, s
  <2>6. LogVersions'
    BY <2>1, <2>2, <2>4
  <2>7. ReportCovered'
    <3> SUFFICES ASSUME NEW b \in Agents, NEW t \in Logs, NEW k \in Keys,
                        Succeeded(report'[b][t]), k <= report'[b][t].cursor
                 PROVE  OnHub(t, k) \/ \E e \in pending'[b] : e.src = t /\ e.key = k
      BY <2>1
    <3>1. CASE b = a /\ t = s
      BY <2>1, <2>2, <2>3, <2>5, <3>1
    <3>2. CASE ~(b = a /\ t = s)
      <4>1. report'[b][t] = report[b][t] /\ pending[b] \subseteq pending'[b]
        BY <2>1, <2>2, <2>3, <3>2 DEF Sources
      <4> QED
        BY <4>1
    <3> QED
      BY <3>1, <3>2
  <2>8. PendingCovered'
    BY <2>1, <2>2
  <2> QED
    BY <2>1, <2>6, <2>7, <2>8
<1>5. CASE Diff(a)
  <2>1. /\ pc[a] = "collect"
        /\ pc' = [pc EXCEPT ![a] = IF Changed(pending[a]) = {} THEN "commit" ELSE "send"]
        /\ pending' = [pending EXCEPT ![a] = Changed(pending[a])]
        /\ unsent' = [unsent EXCEPT ![a] = Changed(pending[a])]
        /\ UNCHANGED <<hub, fps, cursor, base, late, report, batch, rejected>>
    BY <1>5 DEF Diff
  <2>2. Changed(pending[a]) \subseteq pending[a]
    BY DEF Changed
  <2>3. \A e \in pending[a] : e.src \in Logs /\ e \notin Changed(pending[a])
          => OnHub(e.src, e.key)
    BY DEF Changed, Event
  <2>4. LogVersions' /\ CursorCovered' /\ LogFingerprints' /\ BaseCovered'
    BY <2>1, <2>2
  <2>5. ReportCovered'
    <3> SUFFICES ASSUME NEW b \in Agents, NEW t \in Logs, NEW k \in Keys,
                        Succeeded(report[b][t]), k <= report[b][t].cursor, ~OnHub(t, k)
                 PROVE  \E e \in pending'[b] : e.src = t /\ e.key = k
      BY <2>1
    <3>1. PICK e \in pending[b] : e.src = t /\ e.key = k
      BY DEF ReportCovered
    <3>2. CASE b = a
      <4>1. e \in Changed(pending[a])
        BY <2>3, <3>1, <3>2
      <4> QED
        BY <2>1, <3>1, <3>2, <4>1
    <3>3. CASE b # a
      BY <2>1, <3>1, <3>3
    <3> QED
      BY <3>2, <3>3
  <2>6. PendingCovered' /\ CommitGuarded'
    BY <2>1, <2>2
  <2> QED
    BY <2>4, <2>5, <2>6
<1>6. CASE Send(a)
  BY <1>6 DEF Send
<1>7. CASE HubStores(a)
  <2>1. /\ \A s \in Logs, k \in Keys : hub[s][k] = 1 => hub'[s][k] = 1
        /\ \A s \in Logs, k \in Keys :
             (\E e \in batch[a] : e.src = s /\ e.key = k) => hub'[s][k] = 1
    <3>1. batch[a] \in SUBSET Event /\ \A e \in batch[a] : e.src \in Logs => e.ver = 1
      OBVIOUS
    <3>2. hub' = Upsert(batch[a])
      BY <1>7 DEF HubStores
    <3> HIDE DEF TypeOK
    <3> QED
      BY <3>1, <3>2, UpsertKeeps
  <2>2. pc[a] = "wait" /\ pc' = [pc EXCEPT ![a] = "replied"]
        /\ UNCHANGED <<stateDB, late, local>>
    BY <1>7 DEF HubStores
  <2>3. LogVersions' /\ CursorCovered' /\ LogFingerprints' /\ BaseCovered' /\ ReportCovered'
    BY <2>1, <2>2
  <2>4. PendingCovered'
    <3> SUFFICES ASSUME NEW b \in Agents,
                        pc'[b] \in {"send", "wait", "replied", "commit"},
                        NEW e \in pending[b], e.src \in Logs,
                        ~OnHub(e.src, e.key)', ~rejected[b], e \notin unsent[b]
                 PROVE  pc'[b] = "wait" /\ e \in batch[b]
      BY <2>2
    <3>1. e.key \in Keys
      BY DEF Event
    <3>2. ~OnHub(e.src, e.key)
      BY <2>1, <3>1
    <3>3. pc[b] = "wait" /\ e \in batch[b]
      BY <2>2, <3>2
    <3>4. b # a
      BY <2>1, <3>1, <3>3
    <3> QED
      BY <2>2, <3>3, <3>4
  <2>5. CommitGuarded'
    BY <2>2
  <2> QED
    BY <2>3, <2>4, <2>5
<1>8. CASE Reply(a)
  <2>1. hub' = hub /\ cursor' = cursor /\ fps' = fps /\ late' = late
    BY <1>8 DEF Reply
  <2>2. CASE EndPass(a)
    BY <2>1, <2>2, EndPassKeeps DEF RecordsAccountedFor
  <2>3. CASE ~EndPass(a)
    <3>1. UNCHANGED local /\ pc[a] = "replied"
          /\ \/ pc' = [pc EXCEPT ![a] = "send"]
             \/ unsent[a] = {} /\ ~rejected[a] /\ pc' = [pc EXCEPT ![a] = "commit"]
      BY <1>8, <2>3 DEF Reply
    <3>2. LogVersions' /\ CursorCovered' /\ LogFingerprints' /\ BaseCovered' /\ ReportCovered'
      BY <2>1, <3>1
    <3>3. PendingCovered'
      <4>1. \A b \in Agents : pc[b] # pc'[b] => b = a
        BY <3>1
      <4>2. \A e \in pending[a] : e.src \in Logs =>
              OnHub(e.src, e.key) \/ rejected[a] \/ e \in unsent[a]
        BY <3>1
      <4>3. pc'[a] # "wait"
        BY <3>1
      <4> QED
        BY <2>1, <3>1, <4>1, <4>2, <4>3
    <3>4. CommitGuarded'
      BY <3>1
    <3> QED
      BY <3>2, <3>3, <3>4
  <2> QED
    BY <2>2, <2>3
<1>9. CASE Commit(a)
  <2>1. pc[a] = "commit" /\ EndPass(a) /\ hub' = hub /\ late' = late
    BY <1>9 DEF Commit
  <2>2. \A e \in pending[a] : e.src \in Logs => OnHub(e.src, e.key)
    BY <2>1
  <2>3. CursorCovered'
    <3> SUFFICES ASSUME NEW s \in Logs, NEW k \in Keys, k <= cursor'[s]
                 PROVE  OnHub(s, k)
      BY <2>1
    <3>1. cursor'[s] = cursor[s]
            \/ (Succeeded(report[a][s]) /\ cursor'[s] = report[a][s].cursor)
      BY <1>9 DEF Commit, Sources
    <3>2. CASE cursor'[s] = cursor[s]
      BY <3>2
    <3>3. CASE Succeeded(report[a][s]) /\ cursor'[s] = report[a][s].cursor
      <4>1. OnHub(s, k) \/ \E e \in pending[a] : e.src = s /\ e.key = k
        BY <3>3
      <4> QED
        BY <2>2, <4>1
    <3> QED
      BY <3>1, <3>2, <3>3
  <2>4. LogFingerprints'
    <3> SUFFICES ASSUME NEW s \in Logs, NEW k \in Keys, fps'[s][k] = 1
                 PROVE  OnHub(s, k)
      BY <2>1
    <3>1. fps'[s][k] = fps[s][k] \/ \E e \in pending[a] : e.src = s /\ e.key = k
      BY <1>9 DEF Commit, Sources
    <3>2. CASE fps'[s][k] = fps[s][k]
      BY <3>2
    <3>3. CASE \E e \in pending[a] : e.src = s /\ e.key = k
      BY <2>2, <3>3
    <3> QED
      BY <3>1, <3>2, <3>3
  <2> QED
    BY <2>1, <2>3, <2>4, EndPassKeeps DEF RecordsAccountedFor
<1> QED
  BY <1>1, <1>2, <1>3, <1>4, <1>5, <1>6, <1>7, <1>8, <1>9 DEF Progress

\* A step that ends the pass of a and commits nothing.
LEMMA AbandonedPass ==
  ASSUME TypeOK, RecordsAccountedFor, NEW a \in Agents, EndPass(a),
         UNCHANGED <<hub, cursor, fps>>, \A b \in late' : b \in late \/ b = batch[a]
  PROVE  RecordsAccountedFor'
<1>1. CursorCovered' /\ LogFingerprints'
  BY DEF RecordsAccountedFor, CursorCovered, LogFingerprints, OnHub
<1> QED
  BY <1>1, EndPassKeeps

LEMMA FailureRecords ==
  ASSUME TypeOK, RecordsAccountedFor, NEW a \in Agents, Failure(a)
  PROVE  RecordsAccountedFor'
<1>1. CASE ParseFails(a)
  <2>1. /\ UNCHANGED <<hub, cursor, fps, late, pc, base, pending, unsent, batch, rejected>>
        /\ \A b \in Agents, s \in Sources :
             report'[b][s] = report[b][s] \/ ~Succeeded(report'[b][s])
    BY <1>1 DEF ParseFails, stateDB, TypeOK, Succeeded
  <2>2. ReportCovered'
    BY <2>1 DEF RecordsAccountedFor, ReportCovered, OnHub, Sources
  <2> QED
    BY <2>1, <2>2
       DEF RecordsAccountedFor, LogVersions, CursorCovered, LogFingerprints, BaseCovered,
           PendingCovered, CommitGuarded, OnHub
<1>2. CASE HubRejects(a)
  <2>1. PICK valid \in SUBSET batch[a] : hub' = Upsert(valid)
    BY <1>2 DEF HubRejects
  <2>2. valid \in SUBSET Event /\ \A e \in valid : e.src \in Logs => e.ver = 1
    BY <2>1 DEF TypeOK, RecordsAccountedFor, LogVersions
  <2>3. \A s \in Logs, k \in Keys : hub[s][k] = 1 => hub'[s][k] = 1
    BY <2>1, <2>2, UpsertKeeps
  <2>4. /\ pc[a] = "wait" /\ pc' = [pc EXCEPT ![a] = "replied"]
        /\ rejected' = [rejected EXCEPT ![a] = TRUE]
        /\ UNCHANGED <<cursor, fps, late, base, report, pending, unsent, batch>>
    BY <1>2 DEF HubRejects, stateDB
  <2> USE <2>3, <2>4 DEF RecordsAccountedFor, OnHub
  <2>5. LogVersions' /\ CursorCovered' /\ LogFingerprints' /\ BaseCovered' /\ ReportCovered'
    BY DEF LogVersions, CursorCovered, LogFingerprints, BaseCovered, ReportCovered
  <2>6. PendingCovered'
    <3>1. \A b \in Agents : \A e \in pending[b] : e.key \in Keys
      BY DEF TypeOK, Event
    <3>2. \A b \in Agents \ {a} : pc'[b] = pc[b] /\ rejected'[b] = rejected[b]
      BY DEF TypeOK
    <3>3. rejected'[a]
      BY DEF TypeOK
    <3> QED
      BY <3>1, <3>2, <3>3 DEF PendingCovered
  <2>7. CommitGuarded'
    BY DEF CommitGuarded, TypeOK
  <2> QED
    BY <2>5, <2>6, <2>7
<1>3. CASE RequestFails(a) \/ RequestTimesOut(a) \/ ReplyLost(a) \/ LocalError(a) \/ Crash(a)
  <2>1. /\ EndPass(a) /\ UNCHANGED <<hub, cursor, fps>>
        /\ late' = late \/ late' = late \cup {batch[a]}
    BY <1>3 DEF RequestFails, RequestTimesOut, ReplyLost, LocalError, Crash, stateDB
  <2> QED
    BY <2>1, AbandonedPass
<1> QED
  BY <1>1, <1>2, <1>3 DEF Failure

LEMMA LateRecords ==
  ASSUME TypeOK, RecordsAccountedFor, NEW b \in late, LateStores(b) \/ LateDropped(b)
  PROVE  RecordsAccountedFor'
<1>1. b \in SUBSET Event /\ \A e \in b : e.src \in Logs => e.ver = 1
  BY DEF TypeOK, RecordsAccountedFor, LogVersions
<1>2. \A s \in Logs, k \in Keys : hub[s][k] = 1 => hub'[s][k] = 1
  BY <1>1, UpsertKeeps DEF LateStores, LateDropped
<1>3. late' \subseteq late /\ UNCHANGED <<cursor, fps, pc, base, report, pending, unsent, batch, rejected>>
  BY DEF LateStores, LateDropped, stateDB, local
<1> USE <1>2, <1>3 DEF RecordsAccountedFor, OnHub
<1>4. LogVersions' /\ CursorCovered' /\ LogFingerprints' /\ BaseCovered' /\ ReportCovered'
  BY DEF LogVersions, CursorCovered, LogFingerprints, BaseCovered, ReportCovered
<1>5. PendingCovered'
  <2>1. \A a \in Agents : \A e \in pending[a] : e.key \in Keys
    BY DEF TypeOK, Event
  <2> QED
    BY <2>1 DEF PendingCovered
<1>6. CommitGuarded'
  BY DEF CommitGuarded
<1> QED
  BY <1>4, <1>5, <1>6

LEMMA RecordsStep == TypeOK /\ RecordsAccountedFor /\ [Next]_vars => RecordsAccountedFor'
<1> SUFFICES ASSUME TypeOK, RecordsAccountedFor, [Next]_vars PROVE RecordsAccountedFor'
  OBVIOUS
<1>1. ASSUME \/ \E s \in Logs : AppendRecord(s)
             \/ \E s \in Snaps, k \in Keys : WriteRow(s, k)
             \/ UNCHANGED vars
      PROVE  RecordsAccountedFor'
  <2>1. UNCHANGED <<hub, cursor, fps, late, pc, base, report, pending, unsent, batch, rejected>>
    BY <1>1 DEF AppendRecord, WriteRow, vars, stateDB, local
  <2> QED
    BY <2>1 DEF RecordsAccountedFor, LogVersions, CursorCovered, LogFingerprints, BaseCovered,
                ReportCovered, PendingCovered, CommitGuarded, OnHub
<1>2. ASSUME NEW a \in Agents, Progress(a) \/ Failure(a) PROVE RecordsAccountedFor'
  BY <1>2, ProgressRecords, FailureRecords
<1>3. ASSUME NEW b \in late, LateStores(b) \/ LateDropped(b) PROVE RecordsAccountedFor'
  BY <1>3, LateRecords
<1> QED
  BY <1>1, <1>2, <1>3 DEF Next

(***************************************************************************)
(* Wherever an agent is in its pass, each record before a cursor, behind a *)
(* fingerprint, or in a report is on the hub or still going to be sent.    *)
(***************************************************************************)
THEOREM NoRecordUnaccounted == Spec => []RecordsAccountedFor
BY TypeInit, TypeStep, RecordsInit, RecordsStep, PTL DEF Spec

(***************************************************************************)
(* A log cursor in the state database never runs ahead of the hub, however *)
(* many agents share the database and whatever requests fail, are rejected *)
(* in part, lose their answer, or arrive late.                             *)
(***************************************************************************)
THEOREM CursorNeverAhead == Spec => []CursorCovered
<1>1. RecordsAccountedFor => CursorCovered
  BY DEF RecordsAccountedFor
<1> QED
  BY <1>1, NoRecordUnaccounted, PTL


-----------------------------------------------------------------------------

(***************************************************************************)
(* The shape of a pass                                                     *)
(***************************************************************************)

SameId(e, f) == e.src = f.src /\ e.key = f.key

\* What the locals of a pass hold in each of its phases; one version of an
\* event is collected in a pass.
Shape(a) ==
  /\ unsent[a] \subseteq pending[a] /\ batch[a] \subseteq pending[a]
  /\ pc[a] \in {"idle", "collect"} => unsent[a] = {} /\ batch[a] = {}
  /\ pc[a] # "collect" => todo[a] = {} /\ reading[a] = NoSource
  /\ pc[a] = "idle" => pending[a] = {} /\ \A s \in Sources : report[a][s] = NoReport
  /\ reading[a] \notin todo[a]
  /\ \A s \in Sources : s \in todo[a] \/ s = reading[a] =>
       report[a][s] = NoReport /\ \A e \in pending[a] : e.src # s
  /\ \A e, f \in pending[a] : SameId(e, f) => e = f

PassShape == \A a \in Agents : Shape(a)

LEMMA ShapeInit == Init => PassShape
BY SourcesAssumption DEF Init, PassShape, Shape

\* The other agents' passes are left alone.
LEMMA OtherPasses ==
  ASSUME TypeOK, NEW a \in Agents, Progress(a) \/ Failure(a), NEW b \in Agents \ {a}
  PROVE  /\ pc'[b] = pc[b] /\ todo'[b] = todo[b] /\ reading'[b] = reading[b]
         /\ sig'[b] = sig[b] /\ base'[b] = base[b] /\ report'[b] = report[b]
         /\ pending'[b] = pending[b] /\ unsent'[b] = unsent[b]
         /\ batch'[b] = batch[b] /\ rejected'[b] = rejected[b]
<1> USE DEF TypeOK, local
<1>1. CASE EndPass(a)
  BY <1>1 DEF EndPass
<1>2. CASE Progress(a) /\ ~EndPass(a)
  BY ZenonT(60), <1>2
  DEF Progress, BeginPass, LookupHit, LookupMiss, Parse, Diff, Send, HubStores, Reply, Commit
<1>3. CASE Failure(a) /\ ~EndPass(a)
  BY <1>3 DEF Failure, ParseFails, HubRejects, RequestFails, RequestTimesOut, ReplyLost, LocalError, Crash
<1> QED
  BY <1>1, <1>2, <1>3

LEMMA EndPassShape ==
  ASSUME TypeOK, NEW a \in Agents, EndPass(a)
  PROVE  Shape(a)'
BY SourcesAssumption DEF TypeOK, EndPass, Shape

\* The events of a parse are of its source, in one version each.
LEMMA ParsedEvents ==
  ASSUME TypeOK, NEW s \in Sources, NEW from \in Offsets
  PROVE  /\ Parsed(s, from) \subseteq Event
         /\ \A e \in Parsed(s, from) : e.src = s /\ e.ver = Shown(s, e.key)
         /\ \A e, f \in Parsed(s, from) : SameId(e, f) => e = f
BY DEF Parsed, Event, SameId

LEMMA ProgressShape ==
  ASSUME TypeOK, PassShape, NEW a \in Agents, Progress(a)
  PROVE  Shape(a)'
<1>0. Shape(a)
  BY DEF PassShape
<1> USE <1>0, SourcesAssumption DEF Shape, TypeOK, stateDB, local
<1>1. CASE BeginPass(a)
  BY <1>1 DEF BeginPass
<1>2. ASSUME NEW s \in Sources, LookupHit(a, s) PROVE Shape(a)'
  BY <1>2 DEF LookupHit
<1>3. ASSUME NEW s \in Sources, LookupMiss(a, s) PROVE Shape(a)'
  BY <1>3 DEF LookupMiss
<1>4. CASE Parse(a)
  <2> DEFINE s == reading[a]
             new == Parsed(s, base[a][s])
  <2>1. s \in Sources /\ pc[a] = "collect"
    BY <1>4 DEF Parse
  <2>2. /\ \A e \in new : e.src = s
        /\ \A e, f \in new : SameId(e, f) => e = f
    BY <2>1, ParsedEvents
  <2>3. pending'[a] = pending[a] \cup new /\ reading'[a] = NoSource /\ todo'[a] = todo[a]
    BY <1>4 DEF Parse
  <2>4. \A t \in Sources : t # s => report'[a][t] = report[a][t]
    BY <1>4 DEF Parse
  <2> HIDE DEF new
  <2>5. pc'[a] = "collect" /\ unsent'[a] = {} /\ batch'[a] = {}
    BY <1>4, <2>1 DEF Parse
  <2> QED
    BY <2>1, <2>2, <2>3, <2>4, <2>5 DEF SameId
<1>5. CASE Diff(a)
  BY <1>5 DEF Diff, Changed
<1>6. CASE Send(a)
  BY <1>6 DEF Send
<1>7. CASE HubStores(a)
  BY <1>7 DEF HubStores
<1>8. CASE Reply(a)
  <2>1. CASE EndPass(a)
    BY <2>1, EndPassShape
  <2>2. CASE ~EndPass(a)
    BY <1>8, <2>2 DEF Reply
  <2> QED
    BY <2>1, <2>2
<1>9. CASE Commit(a)
  BY <1>9, EndPassShape DEF Commit
<1> QED
  BY <1>1, <1>2, <1>3, <1>4, <1>5, <1>6, <1>7, <1>8, <1>9 DEF Progress

LEMMA FailureShape ==
  ASSUME TypeOK, PassShape, NEW a \in Agents, Failure(a)
  PROVE  Shape(a)'
<1>0. Shape(a)
  BY DEF PassShape
<1>1. CASE ParseFails(a)
  BY <1>0, <1>1, SourcesAssumption DEF ParseFails, Shape, TypeOK, stateDB
<1>2. CASE HubRejects(a)
  BY <1>0, <1>2 DEF HubRejects, Shape, TypeOK, stateDB
<1>3. CASE RequestFails(a) \/ RequestTimesOut(a) \/ ReplyLost(a) \/ LocalError(a) \/ Crash(a)
  BY <1>3, EndPassShape DEF RequestFails, RequestTimesOut, ReplyLost, LocalError, Crash
<1> QED
  BY <1>1, <1>2, <1>3 DEF Failure

\* The steps of the tools and of requests nobody waits for.
Outside ==
  \/ \E s \in Logs : AppendRecord(s)
  \/ \E s \in Snaps, k \in Keys : WriteRow(s, k)
  \/ \E b \in late : LateStores(b) \/ LateDropped(b)

LEMMA OutsideLeavesPasses ==
  ASSUME Outside \/ UNCHANGED vars
  PROVE  UNCHANGED <<cursor, fps, cache, pc, todo, reading, sig, base, report, pending,
                     unsent, batch, rejected, faults>>
BY DEF Outside, AppendRecord, WriteRow, LateStores, LateDropped, vars, stateDB, local

LEMMA ShapeStep == TypeOK /\ PassShape /\ [Next]_vars => PassShape'
<1> SUFFICES ASSUME TypeOK, PassShape, [Next]_vars PROVE PassShape'
  OBVIOUS
<1>1. CASE Outside \/ UNCHANGED vars
  BY <1>1, OutsideLeavesPasses DEF PassShape, Shape
<1>2. ASSUME NEW a \in Agents, Progress(a) \/ Failure(a) PROVE PassShape'
  <2>1. Shape(a)'
    BY <1>2, ProgressShape, FailureShape
  <2>2. ASSUME NEW b \in Agents \ {a} PROVE Shape(b)'
    BY <1>2, <2>2, OtherPasses DEF PassShape, Shape
  <2> QED
    BY <2>1, <2>2 DEF PassShape
<1> QED
  BY <1>1, <1>2 DEF Next, Outside

-----------------------------------------------------------------------------

(***************************************************************************)
(* One agent, and requests that do not overtake each other: versions travel in *)
(* order                                                                   *)
(***************************************************************************)

OneAgent == \A a, b \in Agents : a = b

\* Without overtaking, one abandoned request at most is left to arrive, and
\* none while another is under way.
LateShape ==
  /\ \A b, c \in late : b = c
  /\ \A b \in late : \A e, f \in b : SameId(e, f) => e = f
  /\ \A a \in Agents : pc[a] \in {"wait", "replied"} => late = {}

LEMMA LateInit == Init => LateShape
BY DEF Init, LateShape

LEMMA LateStep ==
  ASSUME OneAgent, ~Overtaking, TypeOK, PassShape, LateShape, [Next]_vars
  PROVE  LateShape'
<1>1. CASE Outside \/ UNCHANGED vars
  <2>1. UNCHANGED pc
    BY <1>1, OutsideLeavesPasses
  <2>2. late' \subseteq late
    BY <1>1 DEF Outside, AppendRecord, WriteRow, LateStores, LateDropped, vars
  <2> QED
    BY <2>1, <2>2 DEF LateShape
<1>2. ASSUME NEW a \in Agents, Progress(a) PROVE LateShape'
  <2>1. late' = late \/ late' = {}
    BY <1>2 DEF Progress, BeginPass, LookupHit, LookupMiss, Parse, Diff, Send, HubStores, Reply, Commit
  <2>2. CASE Send(a)
    BY <2>2 DEF Send, LateShape
  <2>3. CASE ~Send(a)
    <3>1. pc'[a] \in {"wait", "replied"} => pc[a] = "wait"
      <4>1. CASE EndPass(a)
        BY <4>1 DEF EndPass, TypeOK
      <4>2. CASE ~EndPass(a)
        BY <1>2, <2>3, <4>2
           DEF Progress, BeginPass, LookupHit, LookupMiss, Parse, Diff, HubStores, Reply, Commit, TypeOK
      <4> QED
        BY <4>1, <4>2
    <3> QED
      BY <2>1, <3>1 DEF LateShape, OneAgent
  <2> QED
    BY <2>2, <2>3
<1>3. ASSUME NEW a \in Agents, Failure(a) PROVE LateShape'
  <2>1. CASE ParseFails(a) \/ HubRejects(a)
    BY <2>1 DEF ParseFails, HubRejects, LateShape, OneAgent, TypeOK
  <2>2. CASE RequestFails(a) \/ RequestTimesOut(a) \/ ReplyLost(a) \/ LocalError(a) \/ Crash(a)
    <3>1. pc'[a] = "idle"
      BY <2>2, EndPassForgets DEF RequestFails, RequestTimesOut, ReplyLost, LocalError, Crash
    <3>2. late' = late \/ (pc[a] = "wait" /\ late' = late \cup {batch[a]})
      BY <2>2 DEF RequestFails, RequestTimesOut, ReplyLost, LocalError, Crash
    <3>3. \A e, f \in batch[a] : SameId(e, f) => e = f
      BY DEF PassShape, Shape
    <3> QED
      BY <3>1, <3>2, <3>3 DEF LateShape, OneAgent
  <2> QED
    BY <1>3, <2>1, <2>2 DEF Failure
<1> QED
  BY <1>1, <1>2, <1>3 DEF Next, Outside

-----------------------------------------------------------------------------

Stored(e) == hub[e.src][e.key]

\* The hub has an older version of the event, and the source one as new.
Between(e) == Stored(e) <= e.ver /\ e.ver <= Shown(e.src, e.key)

HubShown == \A s \in Sources, k \in Keys : hub[s][k] <= Shown(s, k)
PendingOrder == \A a \in Agents : \A e \in pending[a] : Between(e)
LateOrder ==
  \A b \in late : \A e \in b :
    Between(e) /\ \A a \in Agents : \A f \in pending[a] : SameId(e, f) => e.ver <= f.ver

\* PendingCovered for every event, in its version.
Delivered ==
  \A a \in Agents : pc[a] \in {"send", "wait", "replied", "commit"} =>
    \A e \in pending[a] :
      \/ e.ver <= Stored(e) \/ rejected[a] \/ e \in unsent[a]
      \/ pc[a] = "wait" /\ e \in batch[a]

VersionOrder == FingerprintCovered /\ HubShown /\ PendingOrder /\ LateOrder /\ Delivered

LEMMA OrderInit == Init => VersionOrder
<1> SUFFICES ASSUME Init PROVE VersionOrder
  OBVIOUS
<1>1. \A s \in Sources, k \in Keys : Shown(s, k) = 0 /\ hub[s][k] = 0 /\ fps[s][k] = 0
  BY DEF Init, Shown, Sources, Keys
<1> QED
  BY <1>1 DEF Init, VersionOrder, FingerprintCovered, HubShown, PendingOrder, LateOrder, Delivered

\* What a source shows only grows.
LEMMA ShownGrows ==
  ASSUME TypeOK, [Next]_vars, NEW s \in Sources, NEW k \in Keys
  PROVE  Shown(s, k) \in Int /\ Shown(s, k)' \in Int /\ Shown(s, k) <= Shown(s, k)'
<1>1. Shown(s, k) \in Versions
  BY ShownType
<1>2. TypeOK'
  BY TypeStep
<1>3. Shown(s, k)' \in Versions
  BY <1>2, VersionTypes DEF TypeOK, Shown, Sources
<1>4. ASSUME NEW t \in Logs, AppendRecord(t) PROVE Shown(s, k) <= Shown(s, k)'
  BY <1>4, <1>1 DEF AppendRecord, Shown, TypeOK, Versions, Keys
<1>5. ASSUME NEW t \in Snaps, NEW j \in Keys, WriteRow(t, j) PROVE Shown(s, k) <= Shown(s, k)'
  BY <1>5, <1>1 DEF WriteRow, Shown, TypeOK, Versions, Sources
<1>6. CASE UNCHANGED <<len, rows>>
  BY <1>1, <1>6 DEF Shown, Versions
<1>7. CASE UNCHANGED vars
  BY <1>6, <1>7 DEF vars
<1>8. ASSUME NEW a \in Agents, Progress(a) \/ Failure(a) PROVE UNCHANGED <<len, rows>>
  BY <1>8 DEF Progress, Failure, BeginPass, LookupHit, LookupMiss, Parse, Diff, Send, HubStores,
              Reply, Commit, ParseFails, HubRejects, RequestFails, RequestTimesOut, ReplyLost,
              LocalError, Crash
<1>9. ASSUME NEW b \in late, LateStores(b) \/ LateDropped(b) PROVE UNCHANGED <<len, rows>>
  BY <1>9 DEF LateStores, LateDropped
<1>10. Shown(s, k) <= Shown(s, k)'
  BY <1>4, <1>5, <1>6, <1>7, <1>8, <1>9 DEF Next
<1> QED
  BY <1>1, <1>3, <1>10 DEF Versions

LEMMA UpsertVersions ==
  ASSUME TypeOK, NEW events \in SUBSET Event, \A e, f \in events : SameId(e, f) => e = f
  PROVE  /\ \A e \in events : Upsert(events)[e.src][e.key] = e.ver
         /\ \A s \in Sources, k \in Keys :
              \/ Upsert(events)[s][k] = hub[s][k]
              \/ \E e \in events : e.src = s /\ e.key = k /\ Upsert(events)[s][k] = e.ver
<1>1. \A s \in Sources, k \in Keys :
        Upsert(events)[s][k] = IF \E e \in events : e.src = s /\ e.key = k
                                 THEN (CHOOSE e \in events : e.src = s /\ e.key = k).ver
                                 ELSE hub[s][k]
  BY DEF Upsert
<1>2. ASSUME NEW s \in Sources, NEW k \in Keys, NEW e \in events, e.src = s, e.key = k
      PROVE  Upsert(events)[s][k] = e.ver
  <2>1. (CHOOSE f \in events : f.src = s /\ f.key = k) = e
    BY <1>2 DEF SameId
  <2> QED
    BY <1>1, <1>2, <2>1
<1>3. \A e \in events : e.src \in Sources /\ e.key \in Keys
  BY DEF Event
<1> QED
  BY <1>1, <1>2, <1>3

\* Events between what the hub has and what the source shows advance the hub.
LEMMA UpsertAdvances ==
  ASSUME TypeOK, HubShown, NEW events \in SUBSET Event,
         \A e, f \in events : SameId(e, f) => e = f, \A e \in events : Between(e)
  PROVE  \A s \in Sources, k \in Keys :
           /\ hub[s][k] \in Int /\ Upsert(events)[s][k] \in Int
           /\ hub[s][k] <= Upsert(events)[s][k] /\ Upsert(events)[s][k] <= Shown(s, k)
<1> SUFFICES ASSUME NEW s \in Sources, NEW k \in Keys
             PROVE  /\ hub[s][k] \in Int /\ Upsert(events)[s][k] \in Int
                    /\ hub[s][k] <= Upsert(events)[s][k] /\ Upsert(events)[s][k] <= Shown(s, k)
  OBVIOUS
<1>1. hub[s][k] \in Int /\ hub[s][k] <= Shown(s, k)
  BY DEF TypeOK, Table, Versions, HubShown
<1>2. CASE Upsert(events)[s][k] = hub[s][k]
  BY <1>1, <1>2
<1>3. ASSUME NEW e \in events, e.src = s, e.key = k, Upsert(events)[s][k] = e.ver
      PROVE  /\ Upsert(events)[s][k] \in Int
             /\ hub[s][k] <= Upsert(events)[s][k] /\ Upsert(events)[s][k] <= Shown(s, k)
  BY <1>3 DEF Event, Versions, Between, Stored
<1> QED
  BY <1>1, <1>2, <1>3, UpsertVersions


\* The data of a version comparison are numbers.
LEMMA OrderTypes ==
  ASSUME TypeOK
  PROVE  /\ \A s \in Sources, k \in Keys : hub[s][k] \in Int /\ fps[s][k] \in Int /\ Shown(s, k) \in Int
         /\ \A a \in Agents : pending[a] \subseteq Event
         /\ \A b \in late : b \subseteq Event
         /\ \A e \in Event : e.src \in Sources /\ e.key \in Keys /\ e.ver \in Int /\ Stored(e) \in Int
<1>1. \A s \in Sources, k \in Keys : hub[s][k] \in Int /\ fps[s][k] \in Int /\ Shown(s, k) \in Int
  BY ShownType DEF TypeOK, Table, Versions
<1> QED
  BY <1>1 DEF TypeOK, Event, Versions, Stored

\* A step that changes neither the hub nor a pass.
LEMMA WriteOrder ==
  ASSUME TypeOK, VersionOrder, [Next]_vars, hub' = hub, late' \subseteq late,
         UNCHANGED <<fps, pc, pending, unsent, batch, rejected>>
  PROVE  VersionOrder'
<1>1. TypeOK'
  BY TypeStep
<1>2. \A s \in Sources, k \in Keys : Shown(s, k) \in Int /\ Shown(s, k)' \in Int /\ Shown(s, k) <= Shown(s, k)'
  BY ShownGrows
<1>3. \A e \in Event : Between(e) => Between(e)'
  BY <1>2, OrderTypes DEF Between, Stored
<1>4. FingerprintCovered' /\ HubShown' /\ PendingOrder' /\ LateOrder' /\ Delivered'
  BY <1>2, <1>3, OrderTypes
     DEF VersionOrder, FingerprintCovered, HubShown, PendingOrder, LateOrder, Delivered, Stored
<1> QED
  BY <1>4 DEF VersionOrder

\* The hub stores events of the request under way, or of the one abandoned.
LEMMA StoreOrder ==
  ASSUME OneAgent, TypeOK, PassShape, VersionOrder, [Next]_vars,
         NEW events \in SUBSET Event, hub' = Upsert(events), late' = {},
         \A e, f \in events : SameId(e, f) => e = f,
         \A e \in events : Between(e),
         \A e \in events, a \in Agents : \A f \in pending[a] : SameId(e, f) => e.ver <= f.ver,
         UNCHANGED <<fps, pending, unsent, batch, len, rows>>,
         \A a \in Agents : rejected[a] => rejected'[a],
         \A a \in Agents : pc'[a] = pc[a] \/ (pc[a] = "wait" /\ pc'[a] = "replied" /\ (rejected'[a] \/ batch[a] \subseteq events))
  PROVE  VersionOrder'
<1>1. \A s \in Sources, k \in Keys : hub[s][k] <= hub'[s][k] /\ hub'[s][k] <= Shown(s, k) /\ hub'[s][k] \in Int
  BY UpsertAdvances DEF VersionOrder
<1>2. /\ \A e \in events : hub'[e.src][e.key] = e.ver
      /\ \A s \in Sources, k \in Keys :
              \/ hub'[s][k] = hub[s][k]
              \/ \E e \in events : e.src = s /\ e.key = k /\ hub'[s][k] = e.ver
  BY UpsertVersions
<1>3. \A s \in Sources, k \in Keys : Shown(s, k)' = Shown(s, k)
  BY DEF Shown
<1>4. FingerprintCovered'
  BY <1>1, OrderTypes DEF VersionOrder, FingerprintCovered
<1>5. HubShown'
  BY <1>1, <1>3 DEF HubShown
<1>6. PendingOrder'
  <2> SUFFICES ASSUME NEW a \in Agents, NEW p \in pending[a] PROVE Between(p)'
    BY DEF PendingOrder
  <2>1. p \in Event /\ p.src \in Sources /\ p.key \in Keys /\ Between(p)
    BY OrderTypes DEF VersionOrder, PendingOrder
  <2>2. CASE hub'[p.src][p.key] = hub[p.src][p.key]
    BY <1>3, <2>1, <2>2 DEF Between, Stored
  <2>3. ASSUME NEW e \in events, e.src = p.src, e.key = p.key, hub'[p.src][p.key] = e.ver
        PROVE  Between(p)'
    BY <1>3, <2>1, <2>3 DEF Between, Stored, SameId
  <2> QED
    BY <1>2, <2>1, <2>2, <2>3
<1>7. LateOrder'
  BY DEF LateOrder
<1>8. Delivered'
  <2> SUFFICES ASSUME NEW a \in Agents, pc'[a] \in {"send", "wait", "replied", "commit"},
                      NEW e \in pending[a], ~rejected'[a], e \notin unsent[a],
                      ~(pc'[a] = "wait" /\ e \in batch[a])
               PROVE  e.ver <= Stored(e)'
    BY DEF Delivered
  <2>1. e \in Event /\ e.src \in Sources /\ e.key \in Keys /\ e.ver \in Int /\ Stored(e) \in Int
    BY OrderTypes
  <2>2. Stored(e) <= Stored(e)' /\ Stored(e)' \in Int
    BY <1>1, <2>1 DEF Stored
  <2>3. CASE e \in events
    BY <1>2, <2>1, <2>3 DEF Stored
  <2>4. CASE e \notin events
    <3>1. e.ver <= Stored(e)
      BY <2>4 DEF VersionOrder, Delivered
    <3> QED
      BY <3>1, <2>1, <2>2
  <2> QED
    BY <2>3, <2>4
<1> QED
  BY <1>4, <1>5, <1>6, <1>7, <1>8 DEF VersionOrder

\* A pass ends; its fingerprints are recorded only when all is delivered.
LEMMA EndPassOrder ==
  ASSUME OneAgent, TypeOK, PassShape, VersionOrder, [Next]_vars, NEW a \in Agents, EndPass(a),
         hub' = hub, len' = len, rows' = rows,
         \A b \in late' : b \in late \/ b = batch[a], FingerprintCovered'
  PROVE  VersionOrder'
<1>1. \A s \in Sources, k \in Keys : Shown(s, k)' = Shown(s, k)
  BY DEF Shown
<1>2. pending'[a] = {} /\ pc'[a] = "idle"
  BY EndPassForgets
<1>3. \A b \in Agents : b = a
  BY DEF OneAgent
<1>4. HubShown'
  BY <1>1 DEF HubShown, VersionOrder
<1>5. PendingOrder' /\ Delivered'
  BY <1>2, <1>3 DEF PendingOrder, Delivered
<1>6. LateOrder'
  <2> SUFFICES ASSUME NEW b \in late', NEW e \in b PROVE Between(e)'
    BY <1>2, <1>3 DEF LateOrder
  <2>1. Between(e) /\ e \in Event
    BY OrderTypes DEF VersionOrder, LateOrder, PendingOrder, PassShape, Shape
  <2> QED
    BY <1>1, <2>1, OrderTypes DEF Between, Stored
<1> QED
  BY <1>4, <1>5, <1>6 DEF VersionOrder

LEMMA ProgressOrder ==
  ASSUME OneAgent, TypeOK, PassShape, LateShape, CommitGuarded, VersionOrder,
         NEW a \in Agents, Progress(a)
  PROVE  VersionOrder'
<1> USE DEF stateDB, local
<1>0. [Next]_vars
  BY DEF Next
<1>a. \A b \in Agents : b = a
  BY DEF OneAgent
<1>1. CASE BeginPass(a)
  <2>1. UNCHANGED <<hub, late, fps, pending, unsent, batch, rejected, len, rows>> /\ pc'[a] = "collect"
    BY <1>1 DEF BeginPass, TypeOK
  <2>2. \A s \in Sources, k \in Keys : Shown(s, k)' = Shown(s, k)
    BY <2>1 DEF Shown
  <2>3. \A e \in Event : Between(e)' <=> Between(e)
    BY <2>1, <2>2, OrderTypes DEF Between, Stored
  <2> QED
    BY <1>a, <2>1, <2>2, <2>3, OrderTypes
       DEF VersionOrder, FingerprintCovered, HubShown, PendingOrder, LateOrder, Delivered
<1>2. ASSUME NEW s \in Sources, LookupHit(a, s) \/ LookupMiss(a, s) PROVE VersionOrder'
  BY <1>0, <1>2, WriteOrder DEF LookupHit, LookupMiss
<1>4. CASE Parse(a)
  <2> DEFINE s == reading[a]
             new == Parsed(s, base[a][s])
  <2>1. s \in Sources /\ pc[a] = "collect" /\ UNCHANGED <<pc, hub, fps, late, unsent, batch, rejected, len, rows>>
    BY <1>4 DEF Parse, TypeOK
  <2>2. pending'[a] = pending[a] \cup new
    BY <1>4 DEF Parse, TypeOK
  <2>3. new \subseteq Event /\ \A e \in new : e.src = s /\ e.ver = Shown(s, e.key)
    BY <2>1, ParsedEvents DEF TypeOK
  <2> HIDE DEF new
  <2>4. \A t \in Sources, k \in Keys : Shown(t, k)' = Shown(t, k)
    BY <2>1 DEF Shown
  <2>5. \A e \in Event : Between(e)' <=> Between(e)
    BY <2>1, <2>4, OrderTypes DEF Between, Stored
  <2>6. \A e \in new : Between(e)
    BY <2>3, OrderTypes DEF Between, Stored, VersionOrder, HubShown
  <2>7. PendingOrder'
    BY <1>a, <2>2, <2>3, <2>5, <2>6, OrderTypes DEF VersionOrder, PendingOrder
  <2>8. LateOrder'
    <3> SUFFICES ASSUME NEW b \in late, NEW e \in b, NEW f \in pending'[a], SameId(e, f)
                 PROVE  Between(e)' /\ e.ver <= f.ver
      <4>1. ASSUME NEW b \in late, NEW e \in b PROVE Between(e)'
        BY <2>5, OrderTypes DEF VersionOrder, LateOrder
      <4> QED
        BY <1>a, <2>1, <4>1 DEF LateOrder
    <3>1. Between(e) /\ e \in Event
      BY OrderTypes DEF VersionOrder, LateOrder
    <3>2. CASE f \in pending[a]
      BY <2>5, <3>1, <3>2 DEF VersionOrder, LateOrder
    <3>3. CASE f \in new
      BY <2>3, <2>5, <3>1, <3>3, OrderTypes DEF Between, SameId
    <3> QED
      BY <2>2, <3>2, <3>3
  <2>9. Delivered'
    BY <1>a, <2>1 DEF Delivered
  <2> QED
    BY <2>1, <2>4, <2>7, <2>8, <2>9 DEF VersionOrder, FingerprintCovered, HubShown
<1>5. CASE Diff(a)
  <2>1. UNCHANGED <<hub, fps, late, batch, rejected, len, rows>>
    BY <1>5 DEF Diff
  <2>2. pending'[a] \subseteq pending[a] /\ unsent'[a] = pending'[a]
    BY <1>5 DEF Diff, TypeOK, Changed
  <2>4. \A t \in Sources, k \in Keys : Shown(t, k)' = Shown(t, k)
    BY <2>1 DEF Shown
  <2>5. \A e \in Event : Between(e)' <=> Between(e)
    BY <2>1, <2>4, OrderTypes DEF Between, Stored
  <2> QED
    BY <1>a, <2>1, <2>2, <2>4, <2>5, OrderTypes
       DEF VersionOrder, FingerprintCovered, HubShown, PendingOrder, LateOrder, Delivered
<1>6. CASE Send(a)
  <2>1. UNCHANGED <<hub, fps, rejected, len, rows, pending>> /\ (late' = late \/ late' = {})
    BY <1>6 DEF Send
  <2>2. pc[a] = "send" /\ pc'[a] = "wait" /\ unsent[a] = unsent'[a] \cup batch'[a]
    BY <1>6 DEF Send, TypeOK
  <2>4. \A t \in Sources, k \in Keys : Shown(t, k)' = Shown(t, k)
    BY <2>1 DEF Shown
  <2>5. \A e \in Event : Between(e)' <=> Between(e)
    BY <2>1, <2>4, OrderTypes DEF Between, Stored
  <2>6. Delivered'
    BY <1>a, <2>1, <2>2, OrderTypes DEF VersionOrder, Delivered, Stored
  <2> QED
    BY <1>a, <2>1, <2>4, <2>5, <2>6, OrderTypes
       DEF VersionOrder, FingerprintCovered, HubShown, PendingOrder, LateOrder
<1>7. CASE HubStores(a)
  <2>1. /\ pc[a] = "wait" /\ pc'[a] = "replied" /\ hub' = Upsert(batch[a])
        /\ UNCHANGED <<fps, late, pending, unsent, batch, rejected, len, rows>>
    BY <1>7 DEF HubStores, TypeOK
  <2>2. late = {} /\ batch[a] \in SUBSET Event /\ batch[a] \subseteq pending[a]
    BY <2>1 DEF LateShape, TypeOK, PassShape, Shape
  <2>3. /\ \A e \in batch[a] : Between(e)
        /\ \A e, f \in pending[a] : SameId(e, f) => e = f
    BY <2>2 DEF VersionOrder, PendingOrder, PassShape, Shape
  <2>4. \A e \in batch[a] : e.ver <= e.ver
    BY <2>2, OrderTypes
  <2> QED
    BY <1>0, <1>a, <2>1, <2>2, <2>3, <2>4, StoreOrder
<1>8. CASE Reply(a)
  <2>1. UNCHANGED <<hub, fps, late, len, rows>>
    BY <1>8 DEF Reply
  <2>2. CASE EndPass(a)
    <3>1. FingerprintCovered'
      BY <2>1 DEF VersionOrder, FingerprintCovered
    <3> QED
      BY <1>0, <2>1, <2>2, <3>1, EndPassOrder
  <2>3. CASE ~EndPass(a)
    <3>1. UNCHANGED local /\ pc[a] = "replied" /\ pc'[a] \in {"send", "commit"}
      BY <1>8, <2>3 DEF Reply, TypeOK
    <3>4. \A t \in Sources, k \in Keys : Shown(t, k)' = Shown(t, k)
      BY <2>1 DEF Shown
    <3>5. \A e \in Event : Between(e)' <=> Between(e)
      BY <2>1, <3>4, OrderTypes DEF Between, Stored
    <3>6. Delivered'
      BY <1>a, <2>1, <3>1 DEF VersionOrder, Delivered, Stored
    <3> QED
      BY <1>a, <2>1, <3>1, <3>4, <3>5, <3>6, OrderTypes
         DEF VersionOrder, FingerprintCovered, HubShown, PendingOrder, LateOrder
  <2> QED
    BY <2>2, <2>3
<1>9. CASE Commit(a)
  <2>1. pc[a] = "commit" /\ EndPass(a) /\ UNCHANGED <<hub, late, len, rows>>
    BY <1>9 DEF Commit
  <2>2. \A e \in pending[a] : e.ver <= Stored(e)
    BY <2>1 DEF VersionOrder, Delivered, CommitGuarded
  <2>3. ASSUME NEW s \in Sources, NEW k \in Keys PROVE fps'[s][k] <= hub'[s][k]
    <3>1. CASE \E e \in pending[a] : e.src = s /\ e.key = k
      <4> DEFINE e == CHOOSE e \in pending[a] : e.src = s /\ e.key = k
      <4>1. e \in pending[a] /\ e.src = s /\ e.key = k
        BY <3>1
      <4>2. fps'[s][k] = e.ver
        BY <1>9, <3>1 DEF Commit
      <4> HIDE DEF e
      <4> QED
        BY <2>1, <2>2, <4>1, <4>2 DEF Stored
    <3>2. CASE ~\E e \in pending[a] : e.src = s /\ e.key = k
      <4>1. fps'[s][k] = fps[s][k]
        BY <1>9, <3>2 DEF Commit
      <4> QED
        BY <2>1, <4>1 DEF VersionOrder, FingerprintCovered
    <3> QED
      BY <3>1, <3>2
  <2> QED
    BY <1>0, <2>1, <2>3, EndPassOrder DEF FingerprintCovered
<1> QED
  BY <1>1, <1>2, <1>4, <1>5, <1>6, <1>7, <1>8, <1>9 DEF Progress

LEMMA FailureOrder ==
  ASSUME OneAgent, TypeOK, PassShape, LateShape, VersionOrder, NEW a \in Agents, Failure(a)
  PROVE  VersionOrder'
<1>0. [Next]_vars
  BY DEF Next
<1>1. CASE ParseFails(a)
  BY <1>0, <1>1, WriteOrder DEF ParseFails, stateDB
<1>2. CASE HubRejects(a)
  <2>1. PICK valid \in SUBSET batch[a] : hub' = Upsert(valid)
    BY <1>2 DEF HubRejects
  <2>2. /\ pc[a] = "wait" /\ pc'[a] = "replied" /\ rejected'[a]
        /\ UNCHANGED <<fps, late, pending, unsent, batch, len, rows>>
    BY <1>2 DEF HubRejects, TypeOK, stateDB
  <2>3. late = {} /\ valid \in SUBSET Event /\ valid \subseteq pending[a]
    BY <2>2 DEF LateShape, TypeOK, PassShape, Shape
  <2>4. /\ \A e \in valid : Between(e)
        /\ \A e, f \in pending[a] : SameId(e, f) => e = f
    BY <2>3 DEF VersionOrder, PendingOrder, PassShape, Shape
  <2>5. \A e \in valid : e.ver <= e.ver
    BY <2>3, OrderTypes
  <2>6. \A b \in Agents : b = a
    BY DEF OneAgent
  <2> QED
    BY <1>0, <2>1, <2>2, <2>3, <2>4, <2>5, <2>6, StoreOrder
<1>3. CASE RequestFails(a) \/ RequestTimesOut(a) \/ ReplyLost(a) \/ LocalError(a) \/ Crash(a)
  <2>1. /\ EndPass(a) /\ UNCHANGED <<hub, fps, len, rows>>
        /\ late' = late \/ late' = late \cup {batch[a]}
    BY <1>3 DEF RequestFails, RequestTimesOut, ReplyLost, LocalError, Crash, stateDB
  <2>2. FingerprintCovered'
    BY <2>1 DEF VersionOrder, FingerprintCovered
  <2> QED
    BY <1>0, <2>1, <2>2, EndPassOrder
<1> QED
  BY <1>1, <1>2, <1>3 DEF Failure

LEMMA OrderStep ==
  ASSUME OneAgent, TypeOK, PassShape, LateShape, CommitGuarded, VersionOrder, [Next]_vars
  PROVE  VersionOrder'
<1>1. CASE (\E s \in Logs : AppendRecord(s)) \/ (\E s \in Snaps, k \in Keys : WriteRow(s, k)) \/ UNCHANGED vars
  <2>1. UNCHANGED <<hub, late, fps, pc, pending, unsent, batch, rejected>>
    BY <1>1 DEF AppendRecord, WriteRow, vars, stateDB, local
  <2> QED
    BY <2>1, WriteOrder
<1>2. ASSUME NEW a \in Agents, Progress(a) \/ Failure(a) PROVE VersionOrder'
  BY <1>2, ProgressOrder, FailureOrder
<1>3. ASSUME NEW b \in late, LateStores(b) PROVE VersionOrder'
  <2>1. hub' = Upsert(b) /\ UNCHANGED <<fps, pc, pending, unsent, batch, rejected, len, rows>>
    BY <1>3 DEF LateStores, stateDB, local
  <2>2. late' = {}
    BY <1>3 DEF LateStores, LateShape
  <2>3. b \in SUBSET Event /\ \A e, f \in b : SameId(e, f) => e = f
    BY DEF TypeOK, LateShape
  <2>4. \A e \in b : Between(e)
    BY DEF VersionOrder, LateOrder
  <2>5. \A e \in b, a \in Agents : \A f \in pending[a] : SameId(e, f) => e.ver <= f.ver
    BY DEF VersionOrder, LateOrder
  <2>6. \A a \in Agents : rejected[a] => rejected'[a]
    BY <2>1
  <2>7. \A a \in Agents :
          pc'[a] = pc[a] \/ (pc[a] = "wait" /\ pc'[a] = "replied" /\ (rejected'[a] \/ batch[a] \subseteq b))
    BY <2>1
  <2>8. b \in SUBSET Event
    BY <2>3
  <2>9. \A e, f \in b : SameId(e, f) => e = f
    BY <2>3
  <2>10. UNCHANGED <<fps, pending, unsent, batch, len, rows>> /\ hub' = Upsert(b)
    BY <2>1
  <2> HIDE <1>3
  <2> QED
    BY <2>2, <2>4, <2>5, <2>6, <2>7, <2>8, <2>9, <2>10, StoreOrder
<1>4. ASSUME NEW b \in late, LateDropped(b) PROVE VersionOrder'
  BY <1>4, WriteOrder DEF LateDropped, stateDB, local
<1> QED
  BY <1>1, <1>2, <1>3, <1>4 DEF Next


(***************************************************************************)
(* The strengthening of FingerprintCovered for one agent and requests that *)
(* do not overtake each other.                                             *)
(***************************************************************************)
VersionsOrdered ==
  TypeOK /\ RecordsAccountedFor /\ PassShape /\ LateShape /\ VersionOrder

LEMMA OrderedInit == Init => VersionsOrdered
BY TypeInit, RecordsInit, ShapeInit, LateInit, OrderInit DEF VersionsOrdered

LEMMA OrderedStep ==
  ASSUME OneAgent, ~Overtaking, VersionsOrdered, [Next]_vars
  PROVE  VersionsOrdered'
<1>1. CommitGuarded
  BY DEF VersionsOrdered, RecordsAccountedFor
<1> QED
  BY <1>1, TypeStep, RecordsStep, ShapeStep, LateStep, OrderStep DEF VersionsOrdered

(***************************************************************************)
(* With one agent on the state database, and a hub that does not apply an  *)
(* abandoned request after a later one, versions are in order everywhere   *)
(* on their way from the source over the pass and the request to the hub.  *)
(***************************************************************************)
THEOREM VersionsStayOrdered ==
  ASSUME OneAgent, ~Overtaking
  PROVE  Spec => []VersionsOrdered
<1>1. VersionsOrdered /\ [Next]_vars => VersionsOrdered'
  BY OrderedStep
<1> QED
  BY OrderedInit, <1>1, PTL DEF Spec

(***************************************************************************)
(* A recorded fingerprint never names a version newer than the one the hub *)
(* holds, so no version whose upload it suppresses is missing there.       *)
(***************************************************************************)
THEOREM FingerprintNeverAhead ==
  ASSUME OneAgent, ~Overtaking
  PROVE  Spec => []FingerprintCovered
<1>1. VersionsOrdered => FingerprintCovered
  BY DEF VersionsOrdered, VersionOrder
<1> QED
  BY VersionsStayOrdered, <1>1, PTL

\* The hub's versions after any step.
LEMMA HubGrows ==
  ASSUME VersionsOrdered, [Next]_vars
  PROVE  \A s \in Sources, k \in Keys :
           hub[s][k] <= hub'[s][k] /\ hub'[s][k] <= Shown(s, k)'
<1> DEFINE Grows(h) == \A s \in Sources, k \in Keys : hub[s][k] <= h[s][k] /\ h[s][k] <= Shown(s, k)
<1>0. TypeOK /\ PassShape /\ LateShape /\ HubShown /\ PendingOrder /\ LateOrder
  BY DEF VersionsOrdered, VersionOrder
<1>1. ASSUME NEW events \in SUBSET Event, hub' = Upsert(events),
             \A e, f \in events : SameId(e, f) => e = f, \A e \in events : Between(e)
      PROVE  Grows(hub')
  BY <1>0, <1>1, UpsertAdvances
<1>2. Grows(hub)
  BY <1>0, OrderTypes DEF HubShown
<1>3. ASSUME NEW a \in Agents, NEW valid \in SUBSET batch[a], hub' = Upsert(valid)
      PROVE  Grows(hub')
  <2>1. valid \in SUBSET Event /\ valid \subseteq pending[a]
    BY <1>0 DEF TypeOK, PassShape, Shape
  <2>2. \A e \in valid : Between(e)
    BY <1>0, <2>1 DEF PendingOrder
  <2>3. \A e, f \in valid : SameId(e, f) => e = f
    BY <1>0, <2>1 DEF PassShape, Shape
  <2> QED
    BY <1>1, <1>3, <2>1, <2>2, <2>3
<1>4. ASSUME NEW b \in late, hub' = Upsert(b) PROVE Grows(hub')
  <2>1. b \in SUBSET Event
    BY <1>0 DEF TypeOK
  <2>2. \A e, f \in b : SameId(e, f) => e = f
    BY <1>0 DEF LateShape
  <2>3. \A e \in b : Between(e)
    BY <1>0 DEF LateOrder
  <2> QED
    BY <1>1, <1>4, <2>1, <2>2, <2>3
<1>5. \/ hub' = hub
      \/ \E a \in Agents : \E valid \in SUBSET batch[a] : hub' = Upsert(valid)
      \/ \E b \in late : hub' = Upsert(b)
  <2>1. CASE Outside \/ UNCHANGED vars
    BY <2>1 DEF Outside, AppendRecord, WriteRow, LateStores, LateDropped, vars
  <2>2. ASSUME NEW a \in Agents, Progress(a)
        PROVE  hub' = hub \/ \E valid \in SUBSET batch[a] : hub' = Upsert(valid)
    BY <2>2 DEF Progress, BeginPass, LookupHit, LookupMiss, Parse, Diff, Send, HubStores, Reply, Commit
  <2>3. ASSUME NEW a \in Agents, Failure(a)
        PROVE  hub' = hub \/ \E valid \in SUBSET batch[a] : hub' = Upsert(valid)
    BY <2>3 DEF Failure, ParseFails, HubRejects, RequestFails, RequestTimesOut, ReplyLost, LocalError, Crash
  <2> QED
    BY <2>1, <2>2, <2>3 DEF Next, Outside
<1>6. Grows(hub')
  BY <1>2, <1>3, <1>4, <1>5
<1>7. TypeOK'
  BY <1>0, TypeStep
<1> QED
  <2> SUFFICES ASSUME NEW s \in Sources, NEW k \in Keys
               PROVE  hub[s][k] <= hub'[s][k] /\ hub'[s][k] <= Shown(s, k)'
    OBVIOUS
  <2>1. hub'[s][k] \in Int
    BY <1>7 DEF TypeOK, Table, Versions
  <2>2. Shown(s, k) \in Int /\ Shown(s, k)' \in Int /\ Shown(s, k) <= Shown(s, k)'
    BY <1>0, ShownGrows
  <2> QED
    BY <1>6, <2>1, <2>2

(***************************************************************************)
(* No step puts an older version of an event back on the hub.              *)
(***************************************************************************)
THEOREM HubOnlyAdvances ==
  ASSUME OneAgent, ~Overtaking
  PROVE  Spec => HubNeverFallsBack
<1>1. VersionsOrdered /\ [Next]_vars => [\A s \in Sources, k \in Keys : hub[s][k] <= hub'[s][k]]_vars
  BY HubGrows
<1> QED
  BY VersionsStayOrdered, <1>1, PTL DEF Spec, HubNeverFallsBack


-----------------------------------------------------------------------------

(***************************************************************************)
(* Cursors                                                                 *)
(***************************************************************************)

\* A pass works on the committed cursors and moves them forward, up to the end
\* of the log.
PassCursors ==
  /\ \A s \in Logs : cursor[s] <= len[s]
  /\ \A a \in Agents : pc[a] # "idle" => base[a] = cursor
  /\ \A a \in Agents, s \in Logs : Succeeded(report[a][s]) =>
       cursor[s] <= report[a][s].cursor /\ report[a][s].cursor <= len[s]

LEMMA CursorsInit == Init => PassCursors
BY DEF Init, PassCursors, NoReport, Succeeded, Sources

LEMMA EndPassCursors ==
  ASSUME OneAgent, TypeOK, PassCursors, NEW a \in Agents, EndPass(a), len' = len,
         \A s \in Logs : cursor'[s] <= len[s]
  PROVE  PassCursors'
BY EndPassForgets DEF OneAgent, PassCursors, NoReport, Succeeded, Sources

LEMMA CursorsStep ==
  ASSUME OneAgent, TypeOK, PassShape, PassCursors, [Next]_vars
  PROVE  PassCursors'
<1> USE DEF stateDB, local
<1>1. CASE Outside \/ UNCHANGED vars
  <2>1. UNCHANGED <<cursor, pc, base, report>>
    BY <1>1, OutsideLeavesPasses
  <2>2. \A s \in Logs : len[s] \in Int /\ len'[s] \in Int /\ len[s] <= len'[s]
    <3>1. ASSUME NEW t \in Logs, AppendRecord(t) PROVE \A s \in Logs : len'[s] \in Int /\ len[s] <= len'[s]
      BY <3>1 DEF AppendRecord, TypeOK
    <3>2. (\E t \in Logs : AppendRecord(t)) \/ len' = len
      BY <1>1 DEF Outside, WriteRow, LateStores, LateDropped, vars
    <3> QED
      BY <3>1, <3>2 DEF TypeOK
  <2>3. \A s \in Logs : cursor[s] \in Int
    BY DEF TypeOK, Sources, Offsets
  <2>4. \A a \in Agents, s \in Logs : report[a][s].cursor \in Int
    BY DEF TypeOK, Sources, Report, Offsets
  <2> QED
    BY <2>1, <2>2, <2>3, <2>4 DEF PassCursors
<1>2. ASSUME NEW a \in Agents, Progress(a) PROVE PassCursors'
  <2>0. \A b \in Agents : b = a
    BY DEF OneAgent
  <2> USE DEF PassCursors, TypeOK
  <2>1. CASE BeginPass(a)
    <3>1. /\ UNCHANGED <<cursor, len, report>> /\ base'[a] = cursor
      BY <2>1 DEF BeginPass
    <3> QED
      BY <2>0, <3>1
  <2>2. ASSUME NEW s \in Sources, LookupHit(a, s) PROVE PassCursors'
    <3>1. /\ UNCHANGED <<cursor, len, base, pc>> /\ pc[a] = "collect"
          /\ \A t \in Sources : t # s => report'[a][t] = report[a][t]
          /\ report'[a][s] = IF cache[a][s].err THEN [kind |-> "failed", cursor |-> 0]
                             ELSE [kind |-> "cached", cursor |-> cache[a][s].result]
      BY <2>2 DEF LookupHit
    <3>2. Succeeded(report'[a][s]) => report'[a][s].cursor = cursor[s]
      BY <2>2, <3>1 DEF LookupHit, Hit, Succeeded
    <3>3. s \in Logs => cursor[s] \in Int /\ cursor[s] <= len[s]
      BY DEF Sources, Offsets
    <3> QED
      BY <2>0, <3>1, <3>2, <3>3 DEF Sources
  <2>3. ASSUME NEW s \in Sources, LookupMiss(a, s) PROVE PassCursors'
    BY <2>3 DEF LookupMiss
  <2>4. CASE Parse(a)
    <3> DEFINE s == reading[a]
    <3>1. /\ UNCHANGED <<cursor, len, base, pc>> /\ s \in Sources
          /\ \A t \in Sources : t # s => report'[a][t] = report[a][t]
          /\ report'[a][s] = [kind |-> "parsed", cursor |-> ResultCursor(s)]
      BY <2>4 DEF Parse
    <3>2. s \in Logs => report'[a][s].cursor = len[s] /\ len[s] \in Int
      BY <3>1 DEF ResultCursor
    <3> HIDE DEF s, TypeOK
    <3>3. ASSUME NEW t \in Logs, Succeeded(report'[a][t])
          PROVE  cursor[t] <= report'[a][t].cursor /\ report'[a][t].cursor <= len[t]
      BY <3>1, <3>2, <3>3 DEF Sources
    <3> QED
      BY <2>0, <3>1, <3>3
  <2>5. CASE Diff(a)
    BY <2>5 DEF Diff
  <2>6. CASE Send(a)
    BY <2>6 DEF Send
  <2>7. CASE HubStores(a)
    BY <2>7 DEF HubStores
  <2>8. CASE Reply(a)
    <3>1. CASE EndPass(a)
      BY <2>8, <3>1, EndPassCursors DEF Reply
    <3>2. CASE ~EndPass(a)
      BY <2>8, <3>2 DEF Reply
    <3> QED
      BY <3>1, <3>2
  <2>9. CASE Commit(a)
    <3>1. EndPass(a) /\ len' = len
      BY <2>9 DEF Commit
    <3>2. \A s \in Logs : cursor'[s] <= len[s]
      BY <2>9 DEF Commit, Sources
    <3> QED
      BY <3>1, <3>2, EndPassCursors
  <2> QED
    BY <1>2, <2>1, <2>2, <2>3, <2>4, <2>5, <2>6, <2>7, <2>8, <2>9 DEF Progress
<1>3. ASSUME NEW a \in Agents, Failure(a) PROVE PassCursors'
  <2>1. CASE ParseFails(a)
    <3>1. /\ UNCHANGED <<cursor, len, base, pc>>
          /\ \A t \in Sources : report'[a][t] = report[a][t] \/ ~Succeeded(report'[a][t])
      BY <2>1 DEF ParseFails, TypeOK, Succeeded
    <3> QED
      BY <3>1 DEF PassCursors, OneAgent, Sources
  <2>2. CASE HubRejects(a)
    BY <2>2 DEF HubRejects, PassCursors, TypeOK
  <2>3. CASE RequestFails(a) \/ RequestTimesOut(a) \/ ReplyLost(a) \/ LocalError(a) \/ Crash(a)
    <3>1. EndPass(a) /\ len' = len /\ cursor' = cursor
      BY <2>3 DEF RequestFails, RequestTimesOut, ReplyLost, LocalError, Crash
    <3> QED
      BY <3>1, EndPassCursors DEF PassCursors
  <2> QED
    BY <1>3, <2>1, <2>2, <2>3 DEF Failure
<1> QED
  BY <1>1, <1>2, <1>3 DEF Next, Outside

-----------------------------------------------------------------------------

(***************************************************************************)
(* The refinement of Outbox                                                *)
(***************************************************************************)

LEMMA OutboxInit == Init => O!Init
<1> SUFFICES ASSUME Init PROVE O!Init
  OBVIOUS
<1>1. \A i \in Ids : i[1] \in Sources /\ i[2] \in Keys
  BY DEF Ids
<1>2. \A s \in Sources, k \in Keys : Shown(s, k) = 0 /\ hub[s][k] = 0 /\ Confirmed(s, k) = 0
  BY DEF Init, Shown, Confirmed, Sources, Keys
<1> QED
  BY <1>1, <1>2 DEF O!Init

\* A provider's tool writes: the newest version on the machine goes up by one.
LEMMA OutboxProduce ==
  ASSUME TypeOK, (\E s \in Logs : AppendRecord(s)) \/ \E s \in Snaps, k \in Keys : WriteRow(s, k)
  PROVE  O!Produce
<1>1. UNCHANGED <<cursor, fps, hub>>
  BY DEF AppendRecord, WriteRow, stateDB
<1>2. PICK s \in Sources, k \in Keys :
        /\ Shown(s, k)' = Shown(s, k) + 1
        /\ \A t \in Sources, j \in Keys : t # s \/ j # k => Shown(t, j)' = Shown(t, j)
  <2>1. ASSUME NEW s \in Logs, AppendRecord(s)
        PROVE  \E u \in Sources, k \in Keys :
                 /\ Shown(u, k)' = Shown(u, k) + 1
                 /\ \A t \in Sources, j \in Keys : t # u \/ j # k => Shown(t, j)' = Shown(t, j)
    <3>1. len[s] + 1 \in Keys /\ s \in Sources /\ len[s] \in Int
      BY <2>1, BoundsAssumption DEF AppendRecord, TypeOK, Keys, Sources
    <3>2. PICK k \in Keys : k = len[s] + 1
      BY <3>1
    <3>3. Shown(s, k)' = Shown(s, k) + 1
      BY <2>1, <3>1, <3>2 DEF AppendRecord, TypeOK, Shown
    <3>4. ASSUME NEW t \in Sources, NEW j \in Keys, t # s \/ j # k
          PROVE  Shown(t, j)' = Shown(t, j)
      BY <2>1, <3>1, <3>2, <3>4 DEF AppendRecord, TypeOK, Shown, Keys
    <3> QED
      BY <3>1, <3>3, <3>4
  <2>2. ASSUME NEW s \in Snaps, NEW k \in Keys, WriteRow(s, k)
        PROVE  /\ Shown(s, k)' = Shown(s, k) + 1
               /\ \A t \in Sources, j \in Keys : t # s \/ j # k => Shown(t, j)' = Shown(t, j)
    BY <2>2, SourcesAssumption DEF WriteRow, TypeOK, Shown, Sources
  <2> QED
    BY <2>1, <2>2 DEF Sources
<1>3. <<s, k>> \in Ids /\ \A i \in Ids : i[1] \in Sources /\ i[2] \in Keys /\ i = <<i[1], i[2]>>
  BY DEF Ids
<1>4. [i \in Ids |-> Shown(i[1], i[2])'] =
        [[i \in Ids |-> Shown(i[1], i[2])] EXCEPT ![<<s, k>>] = @ + 1]
  BY <1>2, <1>3
<1>5. \A t \in Sources, j \in Keys : hub'[t][j] = hub[t][j] /\ Confirmed(t, j)' = Confirmed(t, j)
  BY <1>1 DEF Confirmed
<1>6. UNCHANGED <<[i \in Ids |-> hub[i[1]][i[2]]], [i \in Ids |-> Confirmed(i[1], i[2])]>>
  BY <1>3, <1>5
<1> QED
  BY <1>3, <1>4, <1>6 DEF O!Produce

\* A step of the hub.
LEMMA OutboxDeliver ==
  ASSUME VersionsOrdered, [Next]_vars, UNCHANGED <<len, rows, cursor, fps>>
  PROVE  O!Deliver
<1>1. \A s \in Sources, k \in Keys : hub[s][k] <= hub'[s][k] /\ hub'[s][k] <= Shown(s, k)'
  BY HubGrows
<1>2. \A s \in Sources, k \in Keys : Shown(s, k)' = Shown(s, k) /\ Confirmed(s, k)' = Confirmed(s, k)
  BY DEF Shown, Confirmed
<1>3. \A i \in Ids : i[1] \in Sources /\ i[2] \in Keys
  BY DEF Ids
<1> QED
  BY <1>1, <1>2, <1>3 DEF O!Deliver

\* A commit.
LEMMA OutboxConfirm ==
  ASSUME VersionsOrdered, VersionsOrdered', PassCursors, NEW a \in Agents, Commit(a)
  PROVE  O!Confirm
<1>1. UNCHANGED <<len, rows, hub>> /\ pc[a] = "commit"
  BY DEF Commit
<1>2. ASSUME NEW s \in Logs, NEW k \in Keys
      PROVE  Confirmed(s, k) <= Confirmed(s, k)' /\ Confirmed(s, k)' <= hub[s][k]
  <2>1. cursor[s] \in Int /\ hub[s][k] \in Nat /\ s \in Sources /\ report[a][s].cursor \in Int
    BY DEF VersionsOrdered, TypeOK, Offsets, Table, Versions, Sources, Report
  <2>2. cursor'[s] \in Int /\ cursor[s] <= cursor'[s]
    BY <2>1 DEF Commit, PassCursors
  <2>3. k <= cursor'[s] => hub[s][k] = 1
    BY <1>1 DEF VersionsOrdered, RecordsAccountedFor, CursorCovered, OnHub
  <2> QED
    BY <2>1, <2>2, <2>3 DEF Confirmed, Keys
<1>3. ASSUME NEW s \in Snaps, NEW k \in Keys
      PROVE  Confirmed(s, k) <= Confirmed(s, k)' /\ Confirmed(s, k)' <= hub[s][k]
  <2>1. s \in Sources /\ s \notin Logs /\ fps[s][k] \in Int /\ hub[s][k] \in Int
    BY SourcesAssumption DEF VersionsOrdered, TypeOK, Table, Versions, Sources
  <2>2. fps'[s][k] <= hub[s][k] /\ fps[s][k] <= hub[s][k]
    BY <1>1, <2>1 DEF VersionsOrdered, VersionOrder, FingerprintCovered
  <2>3. fps[s][k] <= fps'[s][k]
    <3>1. CASE \E e \in pending[a] : e.src = s /\ e.key = k
      <4> DEFINE e == CHOOSE e \in pending[a] : e.src = s /\ e.key = k
      <4>1. e \in pending[a] /\ e.src = s /\ e.key = k
        BY <3>1
      <4>2. fps'[s][k] = e.ver
        BY <3>1, <2>1 DEF Commit
      <4> HIDE DEF e
      <4>3. hub[s][k] <= e.ver /\ e.ver \in Int
        BY <4>1, OrderTypes DEF VersionsOrdered, VersionOrder, PendingOrder, Between, Stored
      <4> QED
        BY <2>1, <2>2, <4>2, <4>3
    <3>2. CASE ~\E e \in pending[a] : e.src = s /\ e.key = k
      BY <2>1, <3>2 DEF Commit
    <3> QED
      BY <3>1, <3>2
  <2> QED
    BY <2>1, <2>2, <2>3 DEF Confirmed
<1>4. \A s \in Sources, k \in Keys :
        /\ Confirmed(s, k) <= Confirmed(s, k)' /\ Confirmed(s, k)' <= hub[s][k]
        /\ Shown(s, k)' = Shown(s, k) /\ hub'[s][k] = hub[s][k]
  BY <1>1, <1>2, <1>3 DEF Sources, Shown
<1>5. \A i \in Ids : i[1] \in Sources /\ i[2] \in Keys
  BY DEF Ids
<1> QED
  BY <1>4, <1>5 DEF O!Confirm

LEMMA OutboxStep ==
  ASSUME OneAgent, ~Overtaking, VersionsOrdered, PassCursors, [Next]_vars
  PROVE  [O!Next]_(O!vars)
<1>1. CASE (\E s \in Logs : AppendRecord(s)) \/ \E s \in Snaps, k \in Keys : WriteRow(s, k)
  BY <1>1, OutboxProduce DEF O!Next, VersionsOrdered
<1>2. ASSUME NEW a \in Agents, Commit(a) PROVE O!Next
  BY <1>2, OrderedStep, OutboxConfirm DEF O!Next
<1>3. CASE ~((\E s \in Logs : AppendRecord(s)) \/ \E s \in Snaps, k \in Keys : WriteRow(s, k))
             /\ ~\E a \in Agents : Commit(a)
  <2>1. ASSUME NEW a \in Agents, Progress(a), ~Commit(a) PROVE UNCHANGED <<len, rows, cursor, fps>>
    BY <2>1 DEF Progress, BeginPass, LookupHit, LookupMiss, Parse, Diff, Send, HubStores, Reply, stateDB
  <2>2. ASSUME NEW a \in Agents, Failure(a) PROVE UNCHANGED <<len, rows, cursor, fps>>
    BY <2>2 DEF Failure, ParseFails, HubRejects, RequestFails, RequestTimesOut, ReplyLost, LocalError,
                Crash, stateDB
  <2>3. UNCHANGED <<len, rows, cursor, fps>>
    BY <1>3, <2>1, <2>2 DEF Next, LateStores, LateDropped, vars, stateDB
  <2> QED
    BY <2>3, OutboxDeliver DEF O!Next
<1> QED
  BY <1>1, <1>2, <1>3

(***************************************************************************)
(* The agent, its state database and the hub implement Outbox: the hub     *)
(* learns only what the machine recorded, never falls back, and what the   *)
(* agent remembers as uploaded is what the hub has.                        *)
(***************************************************************************)
THEOREM AgentImplementsOutbox ==
  ASSUME OneAgent, ~Overtaking
  PROVE  Spec => ImplementsOutbox
<1>1. VersionsOrdered /\ PassCursors /\ [Next]_vars => PassCursors'
  BY CursorsStep DEF VersionsOrdered
<1>2. VersionsOrdered /\ PassCursors /\ [Next]_vars => [O!Next]_(O!vars)
  BY OutboxStep
<1> QED
  BY VersionsStayOrdered, CursorsInit, OutboxInit, <1>1, <1>2, PTL DEF Spec, ImplementsOutbox, O!Spec


-----------------------------------------------------------------------------

(***************************************************************************)
(* What the source showed when its signature was taken                     *)
(***************************************************************************)

\* What the source showed under the signature is on the hub, or collected.
SignedVersions(a, s) ==
  /\ \A k \in Keys : sig[a][s][k] <= Shown(s, k)
  /\ report[a][s].kind = "parsed" => \A k \in Keys :
       \/ sig[a][s][k] <= hub[s][k]
       \/ \E e \in pending[a] : e.src = s /\ e.key = k /\ sig[a][s][k] <= e.ver

SignaturesCovered == \A a \in Agents, s \in Cached : SignedVersions(a, s)

LEMMA CachedAreSources == Cached \subseteq Sources
BY SourcesAssumption

LEMMA SignaturesInit == Init => SignaturesCovered
<1> SUFFICES ASSUME Init, NEW a \in Agents, NEW s \in Cached PROVE SignedVersions(a, s)
  BY DEF SignaturesCovered
<1>1. s \in Sources
  BY CachedAreSources
<1>2. \A k \in Keys : sig[a][s][k] = 0 /\ Shown(s, k) = 0
  BY <1>1 DEF Init, NoSignature, Shown, Sources, Keys
<1>3. report[a][s].kind # "parsed"
  BY <1>1 DEF Init, NoReport
<1> QED
  BY <1>2, <1>3 DEF SignedVersions

LEMMA SignatureTypes ==
  ASSUME TypeOK, NEW a \in Agents, NEW s \in Cached, NEW k \in Keys
  PROVE  sig[a][s][k] \in Int /\ hub[s][k] \in Int /\ Shown(s, k) \in Int /\ 0 <= hub[s][k] /\ 0 <= Shown(s, k)
BY CachedAreSources, ShownType DEF TypeOK, Signatures, Table, Versions

\* Steps that leave a signature alone, and drop only events the hub has.
LEMMA SignatureKept ==
  ASSUME VersionsOrdered, [Next]_vars, NEW a \in Agents, NEW s \in Cached, SignedVersions(a, s),
         sig'[a][s] = sig[a][s],
         report'[a][s] = report[a][s] \/ report'[a][s].kind # "parsed",
         \A e \in pending[a] : e \in pending'[a] \/ e.ver <= hub[e.src][e.key]
  PROVE  SignedVersions(a, s)'
<1>0. TypeOK /\ TypeOK'
  BY TypeStep DEF VersionsOrdered
<1>1. s \in Sources
  BY CachedAreSources
<1>2. \A k \in Keys : /\ sig[a][s][k] \in Int /\ hub[s][k] \in Int /\ hub'[s][k] \in Int
                      /\ Shown(s, k) \in Int /\ Shown(s, k)' \in Int
  BY <1>0, <1>1, SignatureTypes, ShownGrows DEF TypeOK, Table, Versions
<1>3. \A k \in Keys : hub[s][k] <= hub'[s][k] /\ Shown(s, k) <= Shown(s, k)'
  BY <1>0, <1>1, HubGrows, ShownGrows
<1>4. \A e \in pending[a] : e.ver \in Int
  BY <1>0, OrderTypes
<1>5. \A k \in Keys : sig'[a][s][k] <= Shown(s, k)'
  BY <1>2, <1>3 DEF SignedVersions
<1>6. ASSUME report'[a][s].kind = "parsed", NEW k \in Keys, ~(sig'[a][s][k] <= hub'[s][k])
      PROVE  \E e \in pending'[a] : e.src = s /\ e.key = k /\ sig'[a][s][k] <= e.ver
  <2>1. ~(sig[a][s][k] <= hub[s][k])
    BY <1>2, <1>3, <1>6
  <2>2. PICK e \in pending[a] : e.src = s /\ e.key = k /\ sig[a][s][k] <= e.ver
    BY <1>6, <2>1 DEF SignedVersions
  <2>3. e \in pending'[a]
    BY <1>2, <1>4, <2>1, <2>2
  <2> QED
    BY <2>2, <2>3
<1> QED
  BY <1>5, <1>6 DEF SignedVersions

\* The events of a parse cover the signature taken before it.
LEMMA ParseCovers ==
  ASSUME VersionsOrdered, NEW a \in Agents, NEW s \in Cached, SignedVersions(a, s), NEW k \in Keys
  PROVE  \/ sig[a][s][k] <= hub[s][k]
         \/ \E e \in Parsed(s, base[a][s]) : e.src = s /\ e.key = k /\ sig[a][s][k] <= e.ver
<1>0. TypeOK /\ s \in Sources
  BY CachedAreSources DEF VersionsOrdered
<1>1. sig[a][s][k] \in Int /\ hub[s][k] \in Int /\ 0 <= hub[s][k] /\ sig[a][s][k] <= Shown(s, k)
  BY <1>0, SignatureTypes DEF SignedVersions
<1>2. Shown(s, k) \in Versions
  BY <1>0, ShownType
<1>3. CASE Shown(s, k) = 0
  BY <1>1, <1>3
<1>4. CASE s \in Logs /\ k <= base[a][s]
  <2>1. hub[s][k] = 1
    BY <1>4 DEF VersionsOrdered, RecordsAccountedFor, BaseCovered, OnHub
  <2>2. Shown(s, k) <= 1
    BY <1>4 DEF Shown
  <2> QED
    BY <1>1, <1>2, <2>1, <2>2 DEF Versions
<1>5. CASE Shown(s, k) # 0 /\ (s \in Logs => ~(k <= base[a][s]))
  <2> DEFINE e == [src |-> s, key |-> k, ver |-> Shown(s, k)]
  <2>1. e \in Event /\ e.ver > 0 /\ e.src = s /\ e.key = k /\ e.ver = Shown(s, k)
    BY <1>0, <1>2, <1>5 DEF Event, Versions
  <2>2. s \in Logs => k > base[a][s]
    BY <1>0, <1>5 DEF TypeOK, Keys, Offsets
  <2>3. e \in Parsed(s, base[a][s])
    BY <2>1, <2>2 DEF Parsed
  <2> QED
    BY <1>1, <2>1, <2>3
<1> QED
  BY <1>3, <1>4, <1>5

\* What follows a pass covers every signature: there is none.
LEMMA EndPassSigned ==
  ASSUME TypeOK, [Next]_vars, NEW a \in Agents, EndPass(a), NEW s \in Cached
  PROVE  SignedVersions(a, s)'
<1>1. TypeOK' /\ s \in Sources
  BY TypeStep, CachedAreSources
<1>2. \A k \in Keys : sig'[a][s][k] = 0
  BY <1>1 DEF EndPass, TypeOK, NoSignature
<1>3. \A k \in Keys : Shown(s, k)' \in Versions
  BY <1>1, VersionTypes DEF TypeOK, Shown, Sources
<1>4. report'[a][s].kind # "parsed"
  BY <1>1, EndPassForgets DEF NoReport
<1> QED
  BY <1>2, <1>3, <1>4 DEF SignedVersions, Versions

\* The pass takes the signature of s.
LEMMA LookupSigned ==
  ASSUME VersionsOrdered, NEW a \in Agents, NEW t \in Sources, LookupHit(a, t) \/ LookupMiss(a, t),
         NEW s \in Cached, SignedVersions(a, s)
  PROVE  SignedVersions(a, s)'
<1>0. TypeOK /\ s \in Sources /\ Shape(a) /\ [Next]_vars
  BY CachedAreSources DEF VersionsOrdered, PassShape, Next, Progress
<1>1. UNCHANGED <<len, rows, hub, pending>>
  BY DEF LookupHit, LookupMiss
<1>2. CASE s = t
  <2>1. sig'[a][s] = Content(s)
    BY <1>0, <1>2 DEF LookupHit, LookupMiss, TypeOK
  <2>2. \A k \in Keys : sig'[a][s][k] = Shown(s, k)' /\ Shown(s, k)' \in Versions
    BY <1>0, <1>1, <2>1, ShownType DEF Content, Shown
  <2>3. report'[a][s].kind # "parsed"
    BY <1>0, <1>2 DEF LookupHit, LookupMiss, TypeOK, Shape, NoReport
  <2> QED
    BY <2>2, <2>3 DEF SignedVersions, Versions
<1>3. CASE s # t
  <2>1. sig'[a][s] = sig[a][s] /\ report'[a][s] = report[a][s]
    BY <1>0, <1>3 DEF LookupHit, LookupMiss, TypeOK
  <2> QED
    BY <1>0, <1>1, <2>1, SignatureKept
<1> QED
  BY <1>2, <1>3

LEMMA SignaturesStep ==
  ASSUME OneAgent, VersionsOrdered, SignaturesCovered, [Next]_vars
  PROVE  SignaturesCovered'
<1>0. TypeOK /\ FingerprintCovered
  BY DEF VersionsOrdered, VersionOrder
<1> SUFFICES ASSUME NEW a \in Agents, NEW s \in Cached PROVE SignedVersions(a, s)'
  BY DEF SignaturesCovered
<1>a. SignedVersions(a, s) /\ s \in Sources
  BY CachedAreSources DEF SignaturesCovered
<1>1. CASE Outside \/ UNCHANGED vars
  <2>1. UNCHANGED <<sig, report, pending>>
    BY <1>1, OutsideLeavesPasses
  <2> QED
    BY <1>a, <2>1, SignatureKept
<1>2. CASE Progress(a)
  <2>1. CASE BeginPass(a) \/ Send(a) \/ HubStores(a) \/ (Reply(a) /\ ~EndPass(a))
    <3>1. UNCHANGED <<sig, report, pending>>
      BY <2>1 DEF BeginPass, Send, HubStores, Reply, local
    <3> QED
      BY <1>a, <3>1, SignatureKept
  <2>2. ASSUME NEW t \in Sources, LookupHit(a, t) \/ LookupMiss(a, t) PROVE SignedVersions(a, s)'
    BY <1>a, <2>2, LookupSigned
  <2>4. CASE Parse(a)
    <3>1. UNCHANGED <<sig, len, rows, hub>>
      BY <2>4 DEF Parse
    <3>2. CASE s = reading[a]
      <4>1. pending'[a] = pending[a] \cup Parsed(s, base[a][s])
        BY <1>0, <2>4, <3>2 DEF Parse, TypeOK
      <4>2. \A k \in Keys : sig[a][s][k] <= Shown(s, k)'
        BY <1>a, <3>1 DEF SignedVersions, Shown
      <4>3. \A k \in Keys : \/ sig[a][s][k] <= hub[s][k]
                            \/ \E e \in pending'[a] : e.src = s /\ e.key = k /\ sig[a][s][k] <= e.ver
        BY <1>a, <4>1, ParseCovers
      <4> QED
        BY <3>1, <4>2, <4>3 DEF SignedVersions
    <3>3. CASE s # reading[a]
      <4>1. report'[a][s] = report[a][s] /\ pending[a] \subseteq pending'[a]
        BY <1>0, <1>a, <2>4, <3>3 DEF Parse, TypeOK
      <4> QED
        BY <1>a, <3>1, <4>1, SignatureKept
    <3> QED
      BY <3>2, <3>3
  <2>5. CASE Diff(a)
    <3>1. UNCHANGED <<sig, report>> /\ pending'[a] = Changed(pending[a])
      BY <1>0, <2>5 DEF Diff, TypeOK
    <3>2. \A e \in pending[a] : e \in pending'[a] \/ e.ver <= hub[e.src][e.key]
      BY <1>0, <3>1, OrderTypes DEF Changed, FingerprintCovered
    <3> QED
      BY <1>a, <3>1, <3>2, SignatureKept
  <2>6. CASE EndPass(a)
    BY <1>0, <2>6, EndPassSigned
  <2> QED
    BY <1>2, <2>1, <2>2, <2>4, <2>5, <2>6 DEF Progress, Commit
<1>3. CASE Failure(a)
  <2>1. CASE ParseFails(a)
    <3>1. UNCHANGED <<sig, pending>> /\ (report'[a][s] = report[a][s] \/ report'[a][s].kind # "parsed")
      BY <1>0, <1>a, <2>1 DEF ParseFails, TypeOK
    <3> QED
      BY <1>a, <3>1, SignatureKept
  <2>2. CASE HubRejects(a)
    <3>1. UNCHANGED <<sig, report, pending>>
      BY <2>2 DEF HubRejects
    <3> QED
      BY <1>a, <3>1, SignatureKept
  <2>3. CASE EndPass(a)
    BY <1>0, <2>3, EndPassSigned
  <2> QED
    BY <1>3, <2>1, <2>2, <2>3
       DEF Failure, RequestFails, RequestTimesOut, ReplyLost, LocalError, Crash
<1> QED
  BY <1>1, <1>2, <1>3 DEF Next, Outside, OneAgent

-----------------------------------------------------------------------------

\* Before a commit, the hub has what each source that was read showed.
LEMMA ReadReached ==
  ASSUME VersionsOrdered, SignaturesCovered, NEW a \in Agents, NEW s \in Cached,
         pc[a] = "commit", report[a][s].kind = "parsed"
  PROVE  Reached(a, s)
<1> SUFFICES ASSUME NEW k \in Keys, ~(sig[a][s][k] <= hub[s][k]) PROVE FALSE
  BY DEF Reached
<1>1. PICK e \in pending[a] : e.src = s /\ e.key = k /\ sig[a][s][k] <= e.ver
  BY DEF SignaturesCovered, SignedVersions
<1>2. unsent[a] = {} /\ ~rejected[a]
  BY DEF VersionsOrdered, RecordsAccountedFor, CommitGuarded
<1>3. e.ver <= hub[s][k]
  BY <1>1, <1>2 DEF VersionsOrdered, VersionOrder, Delivered, Stored
<1>4. e.ver \in Int
  BY OrderTypes DEF VersionsOrdered
<1> QED
  BY <1>1, <1>3, <1>4, SignatureTypes DEF VersionsOrdered

(***************************************************************************)
(* A pass that commits has delivered, for each cached source it has read,  *)
(* everything the source showed when its signature was taken, whatever     *)
(* failed before and however the tools write during the pass.              *)
(***************************************************************************)
THEOREM ReadsAreDelivered ==
  ASSUME OneAgent, ~Overtaking
  PROVE  Spec => ReadCommitDelivers
<1>1. VersionsOrdered /\ SignaturesCovered /\ [Next]_vars => SignaturesCovered'
  BY SignaturesStep
<1>2. VersionsOrdered /\ SignaturesCovered =>
        [\A a \in Agents, s \in Cached :
           Commits(a) /\ report[a][s].kind = "parsed" => Reached(a, s)]_vars
  BY ReadReached DEF Commits
<1> QED
  BY VersionsStayOrdered, SignaturesInit, <1>1, <1>2, PTL DEF Spec, ReadCommitDelivers


-----------------------------------------------------------------------------

(***************************************************************************)
(* The cache while nothing fails                                           *)
(***************************************************************************)

\* The cache holds no error, and its signature is on the hub unless the pass
\* is still delivering what it read under it.
CalmEntry(a, s) ==
  /\ cache[a][s] # NoEntry =>
       /\ ~cache[a][s].err
       /\ \/ \A k \in Keys : cache[a][s].sig[k] <= hub[s][k]
          \/ report[a][s].kind = "parsed" /\ sig[a][s] = cache[a][s].sig
  /\ report[a][s].kind = "cached" => Reached(a, s)

CalmCache ==
  faults = 0 =>
    /\ late = {} /\ \A a \in Agents : ~rejected[a]
    /\ \A a \in Agents, s \in Cached : CalmEntry(a, s)

LEMMA CalmInit == Init => CalmCache
<1> SUFFICES ASSUME Init PROVE CalmCache
  OBVIOUS
<1>1. \A a \in Agents, s \in Cached : cache[a][s] = NoEntry /\ report[a][s].kind = "none"
  BY CachedAreSources DEF Init, NoReport
<1>2. late = {} /\ \A a \in Agents : ~rejected[a]
  BY DEF Init
<1> QED
  BY <1>1, <1>2 DEF CalmCache, CalmEntry

\* A failure ends the calm.
LEMMA FailureCounted ==
  ASSUME TypeOK, NEW a \in Agents, Failure(a)
  PROVE  faults' # 0
<1>1. Fault
  BY DEF Failure, ParseFails, HubRejects, RequestFails, RequestTimesOut, ReplyLost, LocalError, Crash
<1> QED
  BY <1>1 DEF TypeOK, Fault

\* Steps that leave the cache and what it is compared with alone.
LEMMA EntryKept ==
  ASSUME VersionsOrdered, [Next]_vars, NEW a \in Agents, NEW s \in Cached, CalmEntry(a, s),
         cache'[a][s] = cache[a][s], sig'[a][s] = sig[a][s], report'[a][s] = report[a][s]
  PROVE  CalmEntry(a, s)'
<1>0. TypeOK /\ TypeOK' /\ s \in Sources
  BY TypeStep, CachedAreSources DEF VersionsOrdered
<1>1. \A k \in Keys : /\ hub[s][k] \in Int /\ hub'[s][k] \in Int /\ hub[s][k] <= hub'[s][k]
                      /\ sig[a][s][k] \in Int
  BY <1>0, HubGrows, SignatureTypes DEF TypeOK, Table, Versions
<1>2. cache[a][s] # NoEntry => \A k \in Keys : cache[a][s].sig[k] \in Int
  BY <1>0 DEF TypeOK, Entry, Signatures, Versions
<1>3. Reached(a, s) => Reached(a, s)'
  BY <1>1 DEF Reached
<1>4. cache[a][s] # NoEntry /\ (\A k \in Keys : cache[a][s].sig[k] <= hub[s][k])
        => \A k \in Keys : cache'[a][s].sig[k] <= hub'[s][k]
  BY <1>1, <1>2
<1> QED
  BY <1>3, <1>4 DEF CalmEntry

LEMMA LookupCalm ==
  ASSUME VersionsOrdered, NEW a \in Agents, NEW t \in Sources, LookupHit(a, t) \/ LookupMiss(a, t),
         NEW s \in Cached, CalmEntry(a, s)
  PROVE  CalmEntry(a, s)'
<1>0. TypeOK /\ s \in Sources /\ Shape(a) /\ [Next]_vars
  BY CachedAreSources DEF VersionsOrdered, PassShape, Next, Progress
<1>1. UNCHANGED <<hub, cache>>
  BY DEF LookupHit, LookupMiss
<1>2. CASE s = t
  <2>1. report[a][s].kind = "none"
    BY <1>0, <1>2 DEF LookupHit, LookupMiss, Shape, NoReport
  <2>2. cache[a][s] # NoEntry => ~cache[a][s].err /\ \A k \in Keys : cache[a][s].sig[k] <= hub[s][k]
    BY <2>1 DEF CalmEntry
  <2>3. CASE LookupHit(a, t)
    <3>1. cache[a][s] # NoEntry /\ sig'[a][s] = Content(s) /\ cache[a][s].sig = Content(s)
      BY <1>0, <1>2, <2>3 DEF LookupHit, Hit, TypeOK
    <3> QED
      BY <1>1, <2>2, <3>1 DEF CalmEntry, Reached
  <2>4. CASE LookupMiss(a, t)
    <3>1. report'[a][s].kind = "none"
      BY <2>1, <2>4 DEF LookupMiss
    <3> QED
      BY <1>1, <2>2, <3>1 DEF CalmEntry
  <2> QED
    BY <2>3, <2>4
<1>3. CASE s # t
  <2>1. sig'[a][s] = sig[a][s] /\ report'[a][s] = report[a][s]
    BY <1>0, <1>3 DEF LookupHit, LookupMiss, TypeOK
  <2> QED
    BY <1>0, <1>1, <2>1, EntryKept
<1> QED
  BY <1>2, <1>3

LEMMA ParseCalm ==
  ASSUME VersionsOrdered, NEW a \in Agents, Parse(a), NEW s \in Cached, CalmEntry(a, s)
  PROVE  CalmEntry(a, s)'
<1>0. TypeOK /\ s \in Sources /\ [Next]_vars
  BY CachedAreSources DEF VersionsOrdered, Next, Progress
<1>1. UNCHANGED <<sig, hub>>
  BY DEF Parse
<1>2. CASE s = reading[a]
  <2>1. cache'[a][s] = [sig |-> sig[a][s], request |-> base[a][s], result |-> ResultCursor(s), err |-> FALSE]
    BY <1>0, <1>2 DEF Parse, Store, TypeOK
  <2>2. report'[a][s].kind = "parsed"
    BY <1>0, <1>2 DEF Parse, TypeOK
  <2> QED
    BY <1>1, <2>1, <2>2 DEF CalmEntry
<1>3. CASE s # reading[a]
  <2>1. cache'[a][s] = cache[a][s] /\ report'[a][s] = report[a][s]
    BY <1>0, <1>3 DEF Parse, Store, TypeOK
  <2> QED
    BY <1>0, <1>1, <2>1, EntryKept
<1> QED
  BY <1>2, <1>3

\* A committed pass has delivered what it read under the cached signatures.
LEMMA CommitCalm ==
  ASSUME VersionsOrdered, SignaturesCovered, NEW a \in Agents, Commit(a), NEW s \in Cached, CalmEntry(a, s)
  PROVE  CalmEntry(a, s)'
<1>0. TypeOK /\ s \in Sources
  BY CachedAreSources DEF VersionsOrdered
<1>1. UNCHANGED <<hub, cache>> /\ pc[a] = "commit"
  BY DEF Commit
<1>2. report'[a][s].kind = "none"
  BY <1>0, EndPassForgets DEF Commit, NoReport
<1>3. report[a][s].kind = "parsed" => Reached(a, s)
  BY <1>1, ReadReached
<1> QED
  BY <1>1, <1>2, <1>3 DEF CalmEntry, Reached

LEMMA CalmStep ==
  ASSUME OneAgent, ~Overtaking, VersionsOrdered, SignaturesCovered, CalmCache, [Next]_vars
  PROVE  CalmCache'
<1>0. TypeOK
  BY DEF VersionsOrdered
<1> SUFFICES ASSUME faults' = 0 PROVE CalmCache'
  BY DEF CalmCache
<1>1. CASE Outside \/ UNCHANGED vars
  <2>1. UNCHANGED <<cache, sig, report, rejected, faults>>
    BY <1>1, OutsideLeavesPasses
  <2>2. late' \subseteq late
    BY <1>1 DEF Outside, AppendRecord, WriteRow, LateStores, LateDropped, vars
  <2>3. late' = {} /\ \A a \in Agents : ~rejected'[a]
    BY <2>1, <2>2 DEF CalmCache
  <2>4. ASSUME NEW a \in Agents, NEW s \in Cached PROVE CalmEntry(a, s)'
    BY <2>1, EntryKept DEF CalmCache
  <2> QED
    BY <2>3, <2>4 DEF CalmCache
<1>2. ASSUME NEW a \in Agents, Progress(a) PROVE CalmCache'
  <2>0. \A b \in Agents : b = a
    BY DEF OneAgent
  <2>1. faults' = faults
    BY <1>2 DEF Progress, BeginPass, LookupHit, LookupMiss, Parse, Diff, Send, HubStores, Reply, Commit
  <2>2. late = {} /\ ~rejected[a] /\ \A s \in Cached : CalmEntry(a, s)
    BY <2>1 DEF CalmCache
  <2>3. late' = {}
    BY <1>2, <2>2 DEF Progress, BeginPass, LookupHit, LookupMiss, Parse, Diff, Send, HubStores, Reply, Commit
  <2>4. ~rejected'[a]
    <3>1. CASE EndPass(a)
      BY <1>0, <3>1, EndPassForgets
    <3>2. CASE ~EndPass(a)
      BY <1>2, <2>2, <3>2 DEF Progress, BeginPass, LookupHit, LookupMiss, Parse, Diff, Send, HubStores,
                              Reply, Commit, local
    <3> QED
      BY <3>1, <3>2
  <2>5. ASSUME NEW s \in Cached PROVE CalmEntry(a, s)'
    <3>0. CASE BeginPass(a)
      <4>1. UNCHANGED <<sig, report, hub>>
        BY <3>0 DEF BeginPass
      <4>2. cache'[a][s] = cache[a][s] \/ cache'[a][s] = NoEntry
        BY <1>0, <3>0, CachedAreSources DEF BeginPass, TypeOK
      <4>3. CASE cache'[a][s] = NoEntry
        BY <2>2, <4>1, <4>3 DEF CalmEntry, Reached
      <4> QED
        BY <2>2, <4>1, <4>2, <4>3, EntryKept
    <3>1. CASE Diff(a) \/ Send(a) \/ HubStores(a) \/ Reply(a)
      <4>1. UNCHANGED <<cache, sig, report>>
        BY <2>2, <3>1 DEF Diff, Send, HubStores, Reply, local
      <4> QED
        BY <2>2, <4>1, EntryKept
    <3>2. ASSUME NEW t \in Sources, LookupHit(a, t) \/ LookupMiss(a, t) PROVE CalmEntry(a, s)'
      BY <2>2, <3>2, LookupCalm
    <3>3. CASE Parse(a)
      BY <2>2, <3>3, ParseCalm
    <3>4. CASE Commit(a)
      BY <2>2, <3>4, CommitCalm
    <3> QED
      BY <1>2, <3>0, <3>1, <3>2, <3>3, <3>4 DEF Progress
  <2> QED
    BY <2>0, <2>3, <2>4, <2>5 DEF CalmCache
<1>3. ASSUME NEW a \in Agents, Failure(a) PROVE FALSE
  BY <1>0, <1>3, FailureCounted
<1> QED
  BY <1>1, <1>2, <1>3 DEF Next, Outside

(***************************************************************************)
(* As long as nothing fails, a pass that commits has delivered what each   *)
(* cached source showed when it was looked at: the cache hides no change,  *)
(* although the tools write between the signature and the read.            *)
(***************************************************************************)
THEOREM CalmCacheHidesNothing ==
  ASSUME OneAgent, ~Overtaking
  PROVE  Spec => CalmCommitDelivers
<1>1. VersionsOrdered /\ SignaturesCovered /\ [Next]_vars => SignaturesCovered'
  BY SignaturesStep
<1>2. VersionsOrdered /\ SignaturesCovered /\ CalmCache /\ [Next]_vars => CalmCache'
  BY CalmStep
<1>3. VersionsOrdered /\ SignaturesCovered /\ CalmCache =>
        [\A a \in Agents, s \in Cached :
           faults = 0 /\ Commits(a) /\ Succeeded(report[a][s]) => Reached(a, s)]_vars
  BY ReadReached DEF Commits, CalmCache, CalmEntry, Succeeded
<1> QED
  BY VersionsStayOrdered, SignaturesInit, CalmInit, <1>1, <1>2, <1>3, PTL DEF Spec, CalmCommitDelivers

=============================================================================
