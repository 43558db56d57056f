------------------------------ MODULE AgentPass ------------------------------
(***************************************************************************)
(* One poll pass of `tokemon agent` (cmd/tokemon/main.go, the closure      *)
(* `pass` of runAgent) against the hub's batch endpoint, with everything   *)
(* the pass reads and writes:                                              *)
(*                                                                         *)
(*   - the provider sources on the machine: append-only session logs and   *)
(*     databases of mutable per-session aggregates;                        *)
(*   - the agent's in-memory SnapshotCache (internal/adapters/cache.go),   *)
(*     which dies with the process;                                        *)
(*   - the agent's state database (internal/agent/state.go), which does    *)
(*     not: the committed cursor of every source and the fingerprint of    *)
(*     every uploaded event;                                               *)
(*   - the rows of the hub, of which only "the version stored under this   *)
(*     event id" matters here (UsageStore models the hub's own rules).     *)
(*                                                                         *)
(* A version stands for the whole content of an event, so it also stands   *)
(* for the event's fingerprint, and the content of a source stands for its *)
(* FileSignature: every write changes size or modification time.           *)
(*                                                                         *)
(* Several agent processes may share one state database (the daemon and a  *)
(* manual `agent --once`, which makes one pass and exits).                 *)
(***************************************************************************)
EXTENDS Integers, FiniteSets

CONSTANTS
  Agents,      \* agent processes sharing one state database
  Polling,     \* of them, the daemons; the others are runs of --once
  Logs,        \* append-only sources: the cursor is the number of records read
  Snaps,       \* mutable aggregates: the cursor says only "seen before"
  Cached,      \* the sources whose adapter keeps a SnapshotCache
  MaxKey,      \* bound on the records of a log
  MaxRow,      \* bound on the sessions of a database, at most MaxKey
  MaxVer,      \* bound on the versions of a database row
  BatchMax,    \* maxIngestBatchEvents, client.go
  MaxFaults,   \* bound on the failures of a behaviour
  Overtaking,  \* may the hub apply an abandoned request after a later one?
  NoSource, NoEntry

Sources == Logs \cup Snaps
Keys == 1..MaxKey
Versions == 0..MaxVer
Offsets == 0..MaxKey
Event == [src: Sources, key: Keys, ver: Versions]
Table == [Sources -> [Keys -> Versions]]

ASSUME BoundsAssumption ==
  /\ MaxKey \in Nat \ {0} /\ MaxRow \in 0..MaxKey /\ MaxVer \in Nat \ {0}
  /\ BatchMax \in Nat \ {0} /\ MaxFaults \in Nat

ASSUME SourcesAssumption ==
  /\ Logs \cap Snaps = {} /\ Cached \subseteq Sources
  /\ NoSource \notin Sources /\ Overtaking \in BOOLEAN /\ Polling \subseteq Agents

VARIABLES
  len,       \* len[s]: complete records in log s
  rows,      \* rows[s][k]: version of session k in database s, 0 = no row
  cursor,    \* source_state: committed cursor, 0 = no row
  fps,       \* event_state: version whose fingerprint is recorded, 0 = none
  hub,       \* usage_events: version stored under the event's id, 0 = none
  late,      \* batches the agent gave up on that may still reach the hub
  cache,     \* SnapshotCache of each agent process
  pc,        \* where the agent is in its pass
  todo,      \* sources the pass has not looked at yet
  reading,   \* the source being parsed, NoSource between two sources
  sig,       \* the signature the pass took of each cached source; after the
             \* parse it is history
  base,      \* StateSnapshot: cursors at the start of the pass
  report,    \* SourceReport of each source
  pending,   \* collected events; after Pending, those new or changed
  unsent,    \* pending events not yet put in a batch
  batch,     \* the batch of the request in flight
  rejected,  \* IngestResult.Rejected > 0 so far in the pass
  faults     \* failures so far

stateDB == <<cursor, fps>>
local == <<todo, reading, sig, base, report, pending, unsent, batch, rejected>>
vars == <<len, rows, stateDB, hub, late, cache, pc, local, faults>>

(***************************************************************************)
(* Data                                                                    *)
(***************************************************************************)

Signatures == [Keys -> Versions]
NoSignature == [k \in Keys |-> 0]

Entry == [sig: Signatures, request: Offsets, result: Offsets, err: BOOLEAN]
Report == [kind: {"none", "failed", "cached", "parsed"}, cursor: Offsets]
NoReport == [kind |-> "none", cursor |-> 0]
Succeeded(r) == r.kind \in {"cached", "parsed"}

\* Faulty variant: the cursor counts a line that is still being written.
ResultCursorOffByOne(s) == IF s \in Logs THEN len[s] + 1 ELSE 1

\* Cursor returned by a parse: the end of a log, a constant identity otherwise.
ResultCursor(s) == IF s \in Logs THEN len[s] ELSE 1

\* Version under which the source currently shows record or session k.
Shown(s, k) ==
  IF s \in Logs THEN (IF k <= len[s] THEN 1 ELSE 0) ELSE rows[s][k]

\* What adapters.Signature tells apart.
Content(s) == [k \in Keys |-> Shown(s, k)]

\* The events of a parse that resumes at offset from: logs yield the tail,
\* databases every session.
Parsed(s, from) ==
  {e \in Event : /\ e.src = s
                 /\ e.ver = Shown(s, e.key) /\ e.ver > 0
                 /\ s \in Logs => e.key > from}

\* Faulty variant: the file may have changed since.
HitIgnoresSignature(a, s) ==
  /\ s \in Cached
  /\ cache[a][s] # NoEntry
  /\ base[a][s] = IF cache[a][s].err THEN cache[a][s].request
                                     ELSE cache[a][s].result

\* Faulty variant: the cursor of the cached result may not be committed.
HitIgnoresCursor(a, s) ==
  /\ s \in Cached
  /\ cache[a][s] # NoEntry
  /\ cache[a][s].sig = Content(s)

\* SnapshotCache.Lookup: a result whose cursor was committed since, or an
\* error of the same request.
Hit(a, s) ==
  /\ s \in Cached
  /\ cache[a][s] # NoEntry
  /\ cache[a][s].sig = Content(s)
  /\ base[a][s] = IF cache[a][s].err THEN cache[a][s].request
                                     ELSE cache[a][s].result

\* StateStore.Pending.
Changed(events) == {e \in events : fps[e.src][e.key] # e.ver}

\* INSERT OR IGNORE, else refreshUsageEvent: the incoming event wins.
Upsert(events) ==
  [s \in Sources |-> [k \in Keys |->
     IF \E e \in events : e.src = s /\ e.key = k
       THEN (CHOOSE e \in events : e.src = s /\ e.key = k).ver
       ELSE hub[s][k]]]

(***************************************************************************)
(* The providers' tools write their logs and databases.                    *)
(***************************************************************************)

AppendRecord(s) ==
  /\ len[s] < MaxKey
  /\ len' = [len EXCEPT ![s] = @ + 1]
  /\ UNCHANGED <<rows, stateDB, hub, late, cache, pc, local, faults>>

WriteRow(s, k) ==
  /\ k <= MaxRow /\ rows[s][k] < MaxVer
  /\ rows' = [rows EXCEPT ![s][k] = @ + 1]
  /\ UNCHANGED <<len, stateDB, hub, late, cache, pc, local, faults>>

(***************************************************************************)
(* The pass                                                                *)
(***************************************************************************)

\* The pass returns; its locals are garbage.
EndPass(a) ==
  /\ pc' = [pc EXCEPT ![a] = "idle"]
  /\ todo' = [todo EXCEPT ![a] = {}]
  /\ reading' = [reading EXCEPT ![a] = NoSource]
  /\ sig' = [sig EXCEPT ![a] = [s \in Sources |-> NoSignature]]
  /\ base' = [base EXCEPT ![a] = [s \in Sources |-> 0]]
  /\ report' = [report EXCEPT ![a] = [s \in Sources |-> NoReport]]
  /\ pending' = [pending EXCEPT ![a] = {}]
  /\ unsent' = [unsent EXCEPT ![a] = {}]
  /\ batch' = [batch EXCEPT ![a] = {}]
  /\ rejected' = [rejected EXCEPT ![a] = FALSE]

Fault == faults < MaxFaults /\ faults' = faults + 1

\* The health check answered and StateStore.Snapshot read the cursors. A pass
\* whose health check fails returns at once and changes nothing. A run of --once
\* is a new process each time, with an empty cache.
BeginPass(a) ==
  /\ pc[a] = "idle"
  /\ pc' = [pc EXCEPT ![a] = "collect"]
  /\ todo' = [todo EXCEPT ![a] = Sources]
  /\ base' = [base EXCEPT ![a] = cursor]
  /\ cache' = [cache EXCEPT ![a] = IF a \in Polling THEN @ ELSE [s \in Sources |-> NoEntry]]
  /\ UNCHANGED <<len, rows, stateDB, hub, late, reading, sig, report,
                 pending, unsent, batch, rejected, faults>>

\* Parse, first half: the signature is taken; the cache answers without events.
LookupHit(a, s) ==
  /\ pc[a] = "collect" /\ reading[a] = NoSource /\ s \in todo[a]
  /\ Hit(a, s)
  /\ todo' = [todo EXCEPT ![a] = @ \ {s}]
  /\ sig' = [sig EXCEPT ![a][s] = Content(s)]
  /\ report' = [report EXCEPT ![a][s] =
       IF cache[a][s].err THEN [kind |-> "failed", cursor |-> 0]
       ELSE [kind |-> "cached", cursor |-> cache[a][s].result]]
  /\ UNCHANGED <<len, rows, stateDB, hub, late, cache, pc, reading, base,
                 pending, unsent, batch, rejected, faults>>

\* Parse, first half: the signature is taken; the source has to be read.
LookupMiss(a, s) ==
  /\ pc[a] = "collect" /\ reading[a] = NoSource /\ s \in todo[a]
  /\ ~Hit(a, s)
  /\ todo' = [todo EXCEPT ![a] = @ \ {s}]
  /\ reading' = [reading EXCEPT ![a] = s]
  /\ sig' = IF s \in Cached THEN [sig EXCEPT ![a][s] = Content(s)] ELSE sig
  /\ UNCHANGED <<len, rows, stateDB, hub, late, cache, pc, base, report,
                 pending, unsent, batch, rejected, faults>>

\* SnapshotCache.Store at the end of Parse: only cursors are kept.
Store(a, s, result, err) ==
  cache' = IF s \in Cached
             THEN [cache EXCEPT ![a][s] = [sig |-> sig[a][s], request |-> base[a][s],
                                           result |-> result, err |-> err]]
             ELSE cache

\* Faulty variant: the signature is taken after the source was read.
ParseThenSign(a) ==
  LET s == reading[a] IN
  /\ pc[a] = "collect" /\ s # NoSource
  /\ pending' = [pending EXCEPT ![a] = @ \cup
       {e \in Event : e.src = s /\ e.ver = sig[a][s][e.key] /\ e.ver > 0
                      /\ (s \in Logs => e.key > base[a][s])}]
  /\ report' = [report EXCEPT ![a][s] =
                  [kind |-> "parsed", cursor |-> ResultCursor(s)]]
  /\ cache' = [cache EXCEPT ![a][s] = [sig |-> Content(s), request |-> base[a][s],
                                       result |-> ResultCursor(s), err |-> FALSE]]
  /\ reading' = [reading EXCEPT ![a] = NoSource]
  /\ sig' = [sig EXCEPT ![a][s] = Content(s)]
  /\ UNCHANGED <<len, rows, stateDB, hub, late, pc, todo, base, unsent, batch,
                 rejected, faults>>

\* Parse, second half: the source is read as it is now, which may be newer
\* than the signature.
Parse(a) ==
  LET s == reading[a] IN
  /\ pc[a] = "collect" /\ s # NoSource
  /\ pending' = [pending EXCEPT ![a] = @ \cup Parsed(s, base[a][s])]
  /\ report' = [report EXCEPT ![a][s] =
                  [kind |-> "parsed", cursor |-> ResultCursor(s)]]
  /\ Store(a, s, ResultCursor(s), FALSE)
  /\ reading' = [reading EXCEPT ![a] = NoSource]
  /\ UNCHANGED <<len, rows, stateDB, hub, late, pc, todo, sig, base, unsent,
                 batch, rejected, faults>>

\* The source cannot be read or decoded: only this source is given up. The
\* error is cached, unless the signature itself could not be taken or the
\* parse was cancelled.
ParseFails(a) ==
  LET s == reading[a] IN
  /\ pc[a] = "collect" /\ s # NoSource
  /\ Fault
  /\ report' = [report EXCEPT ![a][s] = [kind |-> "failed", cursor |-> 0]]
  /\ Store(a, s, 0, TRUE) \/ UNCHANGED cache
  /\ reading' = [reading EXCEPT ![a] = NoSource]
  /\ UNCHANGED <<len, rows, stateDB, hub, late, pc, todo, sig, base, pending,
                 unsent, batch, rejected>>

\* Every source is reported: Pending drops what was uploaded before.
Diff(a) ==
  /\ pc[a] = "collect" /\ reading[a] = NoSource /\ todo[a] = {}
  /\ pending' = [pending EXCEPT ![a] = Changed(@)]
  /\ unsent' = [unsent EXCEPT ![a] = Changed(pending[a])]
  /\ pc' = [pc EXCEPT ![a] = IF Changed(pending[a]) = {} THEN "commit" ELSE "send"]
  /\ UNCHANGED <<len, rows, stateDB, hub, late, cache, todo, reading, sig, base,
                 report, batch, rejected, faults>>

\* Faulty variant: the hub keeps working on requests the agent gave up on.
SendLeavesLate(a) ==
  /\ pc[a] = "send"
  /\ \E b \in (SUBSET unsent[a]) \ {{}} :
       /\ Cardinality(b) <= BatchMax
       /\ b # unsent[a] => Cardinality(b) = BatchMax
       /\ batch' = [batch EXCEPT ![a] = b]
       /\ unsent' = [unsent EXCEPT ![a] = @ \ b]
  /\ pc' = [pc EXCEPT ![a] = "wait"]
  /\ UNCHANGED <<len, rows, stateDB, hub, late, cache, todo, reading, sig, base,
                 report, pending, rejected, faults>>

\* Client.Ingest sends its batches one after the other.
Send(a) ==
  /\ pc[a] = "send"
  /\ \E b \in (SUBSET unsent[a]) \ {{}} :
       /\ Cardinality(b) <= BatchMax
       /\ b # unsent[a] => Cardinality(b) = BatchMax
       /\ batch' = [batch EXCEPT ![a] = b]
       /\ unsent' = [unsent EXCEPT ![a] = @ \ b]
  /\ pc' = [pc EXCEPT ![a] = "wait"]
  /\ late' = IF Overtaking THEN late ELSE {}
  /\ UNCHANGED <<len, rows, stateDB, hub, cache, todo, reading, sig, base, report,
                 pending, rejected, faults>>

\* The hub stores the batch in one transaction.
HubStores(a) ==
  /\ pc[a] = "wait"
  /\ hub' = Upsert(batch[a])
  /\ pc' = [pc EXCEPT ![a] = "replied"]
  /\ UNCHANGED <<len, rows, stateDB, late, cache, local, faults>>

\* Faulty variant: the skipped events are not counted.
HubRejectsUncounted(a) ==
  /\ pc[a] = "wait"
  /\ Fault
  /\ \E valid \in SUBSET batch[a] \ {batch[a]} : hub' = Upsert(valid)
  /\ pc' = [pc EXCEPT ![a] = "replied"]
  /\ UNCHANGED <<len, rows, stateDB, late, cache, local>>

\* Store.Ingest stores the events it finds valid and counts the others as
\* rejected. A handler of the same version refuses such a batch before that,
\* which is RequestFails: the agent is prepared for hubs of other versions.
HubRejects(a) ==
  /\ pc[a] = "wait"
  /\ Fault
  /\ \E valid \in SUBSET batch[a] \ {batch[a]} : hub' = Upsert(valid)
  /\ rejected' = [rejected EXCEPT ![a] = TRUE]
  /\ pc' = [pc EXCEPT ![a] = "replied"]
  /\ UNCHANGED <<len, rows, stateDB, late, cache, todo, reading, sig, base, report,
                 pending, unsent, batch>>

\* Faulty variant: only a failed request keeps the pass from committing.
ReplyIgnoresRejected(a) ==
  /\ pc[a] = "replied"
  /\ pc' = [pc EXCEPT ![a] = IF unsent[a] # {} THEN "send" ELSE "commit"]
  /\ UNCHANGED <<len, rows, stateDB, hub, late, cache, local, faults>>

\* The answer arrives: next batch, commit, or give up because of a rejection.
Reply(a) ==
  /\ pc[a] = "replied"
  /\ \/ /\ unsent[a] # {}
        /\ pc' = [pc EXCEPT ![a] = "send"]
        /\ UNCHANGED local
     \/ /\ unsent[a] = {} /\ ~rejected[a]
        /\ pc' = [pc EXCEPT ![a] = "commit"]
        /\ UNCHANGED local
     \/ /\ unsent[a] = {} /\ rejected[a]
        /\ EndPass(a)
  /\ UNCHANGED <<len, rows, stateDB, hub, late, cache, faults>>

\* Faulty variant: sources that reported an error are committed too.
CommitIgnoresErrors(a) ==
  /\ pc[a] = "commit"
  /\ cursor' = [s \in Sources |-> report[a][s].cursor]
  /\ fps' = [s \in Sources |-> [k \in Keys |->
               IF \E e \in pending[a] : e.src = s /\ e.key = k
                 THEN (CHOOSE e \in pending[a] : e.src = s /\ e.key = k).ver
                 ELSE fps[s][k]]]
  /\ EndPass(a)
  /\ UNCHANGED <<len, rows, hub, late, cache, faults>>

\* StateStore.Commit: one transaction for the cursors of the sources without
\* an error and the fingerprints of the pending events.
Commit(a) ==
  /\ pc[a] = "commit"
  /\ cursor' = [s \in Sources |->
                  IF Succeeded(report[a][s]) /\ report[a][s].cursor # base[a][s]
                    THEN report[a][s].cursor ELSE cursor[s]]
  /\ fps' = [s \in Sources |-> [k \in Keys |->
               IF \E e \in pending[a] : e.src = s /\ e.key = k
                 THEN (CHOOSE e \in pending[a] : e.src = s /\ e.key = k).ver
                 ELSE fps[s][k]]]
  /\ EndPass(a)
  /\ UNCHANGED <<len, rows, hub, late, cache, faults>>

(***************************************************************************)
(* Failures                                                                *)
(***************************************************************************)

\* The request never reaches the store: refused, answered with an error
\* status, or cancelled before the hub's transaction commits.
RequestFails(a) ==
  /\ pc[a] = "wait"
  /\ Fault
  /\ EndPass(a)
  /\ UNCHANGED <<len, rows, stateDB, hub, late, cache>>

\* The request deadline expires while the hub still works on the request.
RequestTimesOut(a) ==
  /\ pc[a] = "wait"
  /\ Fault
  /\ late' = late \cup {batch[a]}
  /\ EndPass(a)
  /\ UNCHANGED <<len, rows, stateDB, hub, cache>>

\* The batch is stored but its answer is lost or late.
ReplyLost(a) ==
  /\ pc[a] = "replied"
  /\ Fault
  /\ EndPass(a)
  /\ UNCHANGED <<len, rows, stateDB, hub, late, cache>>

\* A local error: the outbound privacy check refuses the batch before the
\* first request, or the state database cannot be read or written.
LocalError(a) ==
  /\ pc[a] \in {"send", "commit"}
  /\ pc[a] = "send" => unsent[a] = pending[a]
  /\ Fault
  /\ EndPass(a)
  /\ UNCHANGED <<len, rows, stateDB, hub, late, cache>>

\* The agent process dies and is started again.
Crash(a) ==
  /\ Fault
  /\ cache' = [cache EXCEPT ![a] = [s \in Sources |-> NoEntry]]
  /\ late' = IF pc[a] = "wait" THEN late \cup {batch[a]} ELSE late
  /\ EndPass(a)
  /\ UNCHANGED <<len, rows, stateDB, hub>>

\* A request nobody waits for reaches the store, or is dropped.
LateStores(b) ==
  /\ hub' = Upsert(b)
  /\ late' = late \ {b}
  /\ UNCHANGED <<len, rows, stateDB, cache, pc, local, faults>>

LateDropped(b) ==
  /\ late' = late \ {b}
  /\ UNCHANGED <<len, rows, stateDB, hub, cache, pc, local, faults>>

-----------------------------------------------------------------------------

Init ==
  /\ len = [s \in Logs |-> 0]
  /\ rows = [s \in Snaps |-> [k \in Keys |-> 0]]
  /\ cursor = [s \in Sources |-> 0]
  /\ fps = [s \in Sources |-> [k \in Keys |-> 0]]
  /\ hub = [s \in Sources |-> [k \in Keys |-> 0]]
  /\ late = {}
  /\ cache = [a \in Agents |-> [s \in Sources |-> NoEntry]]
  /\ pc = [a \in Agents |-> "idle"]
  /\ todo = [a \in Agents |-> {}]
  /\ reading = [a \in Agents |-> NoSource]
  /\ sig = [a \in Agents |-> [s \in Sources |-> NoSignature]]
  /\ base = [a \in Agents |-> [s \in Sources |-> 0]]
  /\ report = [a \in Agents |-> [s \in Sources |-> NoReport]]
  /\ pending = [a \in Agents |-> {}]
  /\ unsent = [a \in Agents |-> {}]
  /\ batch = [a \in Agents |-> {}]
  /\ rejected = [a \in Agents |-> FALSE]
  /\ faults = 0

\* What an agent does when nothing fails, and what the hub does for it.
Progress(a) ==
  \/ BeginPass(a)
  \/ \E s \in Sources : LookupHit(a, s) \/ LookupMiss(a, s)
  \/ Parse(a) \/ Diff(a) \/ Send(a) \/ HubStores(a) \/ Reply(a) \/ Commit(a)

Failure(a) ==
  \/ ParseFails(a) \/ HubRejects(a) \/ RequestFails(a) \/ RequestTimesOut(a)
  \/ ReplyLost(a) \/ LocalError(a) \/ Crash(a)

Next ==
  \/ \E s \in Logs : AppendRecord(s)
  \/ \E s \in Snaps, k \in Keys : WriteRow(s, k)
  \/ \E a \in Agents : Progress(a) \/ Failure(a)
  \/ \E b \in late : LateStores(b) \/ LateDropped(b)

Spec == Init /\ [][Next]_vars

\* A daemon polls for ever, and a poll that is not hit by one of the MaxFaults
\* failures goes on to its end: the hub answers within the deadline. Nobody has
\* to run --once, and such a run may stop anywhere.
FairSpec == Spec /\ \A a \in Polling : WF_vars(Progress(a))

-----------------------------------------------------------------------------

TypeOK ==
  /\ len \in [Logs -> 0..MaxKey]
  /\ rows \in [Snaps -> [Keys -> Versions]]
  /\ cursor \in [Sources -> Offsets]
  /\ fps \in Table
  /\ hub \in Table
  /\ late \subseteq SUBSET Event
  /\ cache \in [Agents -> [Sources -> Entry \cup {NoEntry}]]
  /\ pc \in [Agents -> {"idle", "collect", "send", "wait", "replied", "commit"}]
  /\ todo \in [Agents -> SUBSET Sources]
  /\ reading \in [Agents -> Sources \cup {NoSource}]
  /\ sig \in [Agents -> [Sources -> Signatures]]
  /\ base \in [Agents -> [Sources -> Offsets]]
  /\ report \in [Agents -> [Sources -> Report]]
  /\ pending \in [Agents -> SUBSET Event]
  /\ unsent \in [Agents -> SUBSET Event]
  /\ batch \in [Agents -> SUBSET Event]
  /\ rejected \in [Agents -> BOOLEAN]
  /\ faults \in 0..MaxFaults

=============================================================================
