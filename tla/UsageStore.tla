------------------------------ MODULE UsageStore ------------------------------
(***************************************************************************)
(* The hub's usage_events table and the rules by which Store.Ingest        *)
(* (internal/database/database.go) folds a batch of events into it: the    *)
(* event id is the primary key, detailed Codex rows are unique in their    *)
(* dimensions, a detailed Codex event supersedes the aggregate snapshot of *)
(* its session, and an event that is already stored refreshes its row.     *)
(*                                                                         *)
(* One transaction at a time works on a private copy of the table          *)
(* (SetMaxOpenConns(1)); it may be rolled back at any point, by an error,  *)
(* a cancelled request or the death of the process. The table outlives the *)
(* process; opening it again runs migrate, which removes duplicates.       *)
(*                                                                         *)
(* An event is a machine's: the model keeps one machine. Which token       *)
(* columns are NULL is abstracted to the kind:                             *)
(*   aggregate - Codex, no component, a total (thread snapshots);          *)
(*   partial   - Codex, components, no total (SanitizeOutbound dropped it);*)
(*   summed    - Codex, input and a total, another component missing;      *)
(*   detailed  - Codex, all six columns (session logs);                    *)
(*   other     - any other adapter.                                        *)
(* The dimensions of a detailed row other than the session are a timestamp *)
(* and a total. Invalid events are skipped by the loop and change nothing. *)
(***************************************************************************)
EXTENDS Integers

CONSTANTS
  Ids,         \* event ids
  Sessions,    \* session ids
  NoSession,   \* the empty session id, stored as NULL
  Stamps,      \* timestamps
  Totals,      \* total_tokens, of the events that carry one
  KindsOf,     \* KindsOf[i]: the kinds under which id i is sent
  SessionOf,   \* SessionOf[i]: its session, which is part of the hashed id
  MaxBatch,    \* bound on the events of a transaction
  NoRow

Kinds == {"aggregate", "partial", "summed", "detailed", "other"}

ASSUME StoreAssumption ==
  /\ NoSession \notin Sessions
  /\ Stamps \subseteq Nat /\ Totals \subseteq Nat
  /\ KindsOf \in [Ids -> SUBSET Kinds]
  /\ SessionOf \in [Ids -> Sessions \cup {NoSession}]
  /\ MaxBatch \in Nat \ {0}

Row == [kind: Kinds, sess: Sessions \cup {NoSession}, stamp: Stamps, total: Totals]

ASSUME NoRowAssumption == NoRow \notin Row

Event == {e \in [id: Ids, row: Row] :
            /\ e.row.kind \in KindsOf[e.id]
            /\ e.row.sess = SessionOf[e.id]}

Table == [Ids -> Row \cup {NoRow}]

VARIABLES
  table,     \* committed rows, by event id
  work,      \* the rows as the open transaction sees them
  phase,     \* "down", "idle", or "tx"
  size       \* events the open transaction has processed

vars == <<table, work, phase, size>>

(***************************************************************************)
(* Predicates of the SQL statements                                        *)
(***************************************************************************)

HasComponents(r) == r.kind \in {"partial", "summed", "detailed"}

\* Codex, session known, input_tokens and total_tokens present.
Supersedes(r) == r.kind \in {"summed", "detailed"} /\ r.sess # NoSession

Counts(r) == r.kind # "partial"

\* isDetailedCodexEvent, and the WHERE of idx_usage_events_codex_usage.
Indexed(r) == r.kind = "detailed"

SameDimensions(r, q) == r.sess = q.sess /\ r.stamp = q.stamp /\ r.total = q.total

\* The unique index does not compare NULL sessions.
Conflict(r, q) ==
  Indexed(r) /\ Indexed(q) /\ r.sess # NoSession /\ SameDimensions(r, q)

\* A row of t other than that of id i occupies the index entry of r.
Occupied(t, i, r) == \E j \in Ids \ {i} : t[j] # NoRow /\ Conflict(t[j], r)

\* The SELECT at the top of the loop: a session with component rows.
DetailedExists(t, s) == \E j \in Ids : t[j] # NoRow /\ t[j].sess = s /\ HasComponents(t[j])

(***************************************************************************)
(* One event of the loop of Ingest                                         *)
(***************************************************************************)

\* DELETE of the aggregates that r supersedes.
WithoutAggregates(t, r) ==
  [j \in Ids |->
     IF /\ Supersedes(r) /\ t[j] # NoRow
        /\ t[j].kind = "aggregate" /\ t[j].sess = r.sess
       THEN NoRow ELSE t[j]]

\* Faulty variant: the stored timestamp is formatted with fewer digits.
DuplicatesByEarlierStamp(t, r) ==
  {j \in Ids : t[j] # NoRow /\ Indexed(t[j]) /\ t[j].sess = r.sess
               /\ t[j].total = r.total /\ t[j].stamp < r.stamp}

\* findDetailedCodexDuplicate: IS compares NULL sessions as equal.
Duplicates(t, r) ==
  {j \in Ids : t[j] # NoRow /\ Indexed(t[j]) /\ SameDimensions(t[j], r)}

\* INSERT OR IGNORE stores the row, or UPDATE OR IGNORE replaces it in place.
Placed(t, i, r) == ~Occupied(t, i, r)

\* Faulty variant: there is no unique index to ignore the row.
RefreshedWithoutIndex(t, i, r) == [t EXCEPT ![i] = r]

\* Faulty variant: the row with the same dimensions is deleted in favour of
\* the one that carries the incoming id.
RefreshedDropsDuplicate(t, i, r) ==
  IF Placed(t, i, r)
    THEN [t EXCEPT ![i] = r]
    ELSE LET d == CHOOSE j \in Duplicates(t, r) : TRUE
         IN  [t EXCEPT ![d] = NoRow]

\* INSERT, or refreshUsageEvent: in place, or by deleting the row of the
\* incoming id and giving that id to the row with the same dimensions.
Refreshed(t, i, r) ==
  IF Placed(t, i, r)
    THEN [t EXCEPT ![i] = r]
    ELSE LET d == CHOOSE j \in Duplicates(t, r) : TRUE
         IN  IF d = i THEN t ELSE [t EXCEPT ![d] = NoRow, ![i] = r]

\* "was ignored without a matching stored row": the transaction fails.
Ignored(t, e) ==
  LET u == WithoutAggregates(t, e.row)
  IN  ~Placed(u, e.id, e.row) /\ Duplicates(u, e.row) = {} /\ u[e.id] = NoRow

\* Faulty variant: only full detail makes the aggregate obsolete.
ObsoleteByDetail(t, r) ==
  /\ r.kind = "aggregate" /\ r.sess # NoSession
  /\ \E j \in Ids : t[j] # NoRow /\ t[j].sess = r.sess /\ Indexed(t[j])

\* The aggregate of a session with component rows is dropped as a duplicate.
Obsolete(t, r) ==
  r.kind = "aggregate" /\ r.sess # NoSession /\ DetailedExists(t, r.sess)

Apply(t, e) ==
  IF Obsolete(t, e.row) THEN t
  ELSE Refreshed(WithoutAggregates(t, e.row), e.id, e.row)

(***************************************************************************)
(* Actions                                                                 *)
(***************************************************************************)

BeginTx ==
  /\ phase = "idle"
  /\ phase' = "tx" /\ work' = table /\ size' = 0
  /\ UNCHANGED table

IngestEvent(e) ==
  /\ phase = "tx" /\ size < MaxBatch /\ ~Ignored(work, e)
  /\ work' = Apply(work, e)
  /\ size' = size + 1
  /\ UNCHANGED <<table, phase>>

CommitTx ==
  /\ phase = "tx" /\ size > 0
  /\ table' = work
  /\ phase' = "idle" /\ size' = 0
  /\ UNCHANGED work

\* Faulty variant: statements that succeeded stay visible.
RollbackTxKeepsWork ==
  /\ phase = "tx"
  /\ phase' = "idle" /\ size' = 0
  /\ UNCHANGED <<table, work>>

\* An ignored event, a failing statement or a cancelled request.
RollbackTx ==
  /\ phase = "tx"
  /\ phase' = "idle" /\ work' = table /\ size' = 0
  /\ UNCHANGED table

\* The server stops, with or without a transaction open.
Stop ==
  /\ phase # "down"
  /\ phase' = "down" /\ work' = table /\ size' = 0
  /\ UNCHANGED table

\* Faulty variant: the timestamp is missing in the GROUP BY.
TwinsAtAnyTime(t, i) ==
  {j \in Ids : t[j] # NoRow /\ Indexed(t[j])
               /\ t[j].sess = t[i].sess /\ t[j].total = t[i].total}

\* The rows that migrate groups with row i; GROUP BY takes NULLs as equal.
Twins(t, i) == Duplicates(t, t[i])

\* Open runs migrate: of each group of detailed rows only MIN(rowid) stays.
\* Row ids follow no order the model knows, so any one of the group may.
Open ==
  /\ phase = "down"
  /\ \E keep \in SUBSET {i \in Ids : table[i] # NoRow /\ Indexed(table[i])} :
       /\ \A i \in Ids : table[i] # NoRow /\ Indexed(table[i]) =>
            \E j \in keep : Twins(table, i) \cap keep = {j}
       /\ table' = [i \in Ids |-> IF table[i] # NoRow /\ Indexed(table[i]) /\ i \notin keep
                                    THEN NoRow ELSE table[i]]
  /\ phase' = "idle"
  /\ work' = table'
  /\ UNCHANGED size

\* `tokemon purge` works on the closed database.
PurgeBefore(cut) ==
  /\ phase = "down"
  /\ table' = [i \in Ids |-> IF table[i] # NoRow /\ table[i].stamp < cut
                               THEN NoRow ELSE table[i]]
  /\ work' = table'
  /\ UNCHANGED <<phase, size>>

Init ==
  /\ table = [i \in Ids |-> NoRow]
  /\ work = table
  /\ phase = "down" /\ size = 0

Next ==
  \/ BeginTx \/ (\E e \in Event : IngestEvent(e)) \/ CommitTx \/ RollbackTx
  \/ Stop \/ Open \/ (\E cut \in Stamps : PurgeBefore(cut))

Spec == Init /\ [][Next]_vars

-----------------------------------------------------------------------------

\* Types, and: an uncommitted row is visible to its transaction only.
TypeOK ==
  /\ table \in Table
  /\ work \in Table
  /\ phase \in {"down", "idle", "tx"}
  /\ size \in 0..MaxBatch
  /\ phase # "tx" => work = table

\* No two rows compete for one entry of the unique index.
UniqueIn(t) ==
  \A i, j \in Ids :
    i # j /\ t[i] # NoRow /\ t[j] # NoRow => ~Conflict(t[i], t[j])

\* A session is counted by its aggregate or by rows that supersede it.
SingleIn(t) ==
  \A i, j \in Ids :
    t[i] # NoRow /\ t[j] # NoRow /\ t[i].kind = "aggregate" /\ Supersedes(t[j])
      => t[i].sess # t[j].sess

(***************************************************************************)
(* No usage is counted twice (Store.Ingest): one row per detailed record   *)
(* of a session, whatever ids it was sent under.                           *)
(***************************************************************************)
UniqueDetail == UniqueIn(table) /\ UniqueIn(work)

(***************************************************************************)
(* No session is counted by its aggregate snapshot and by its records at   *)
(* once, in whichever order old and new agents deliver them.               *)
(***************************************************************************)
NoDoubleCount == SingleIn(table) /\ SingleIn(work)

(***************************************************************************)
(* The error path of Ingest that fails the whole batch because an event    *)
(* was "ignored without a matching stored row" is never taken: an ignored  *)
(* insert always finds the row it collided with.                           *)
(***************************************************************************)
NeverIgnored == phase = "tx" => \A e \in Event : ~Ignored(work, e)

(***************************************************************************)
(* Sending any two events a second time changes nothing: an agent that     *)
(* lost the answer may repeat its batch.                                   *)
(***************************************************************************)
ResendIdempotent ==
  phase = "idle" =>
    \A e, f \in Event :
      LET once == Apply(Apply(table, e), f)
      IN  Apply(Apply(once, e), f) = once

(***************************************************************************)
(* "A sanitized event whose contradictory provider total was dropped       *)
(* [...] must keep the aggregate counting until a corrected event with a   *)
(* real total arrives, otherwise the session's contribution collapses to   *)
(* zero" (database.go, 762-767): once the aggregate of a session has been  *)
(* delivered, some row of the session is counted.                          *)
(***************************************************************************)
AggregateCounts ==
  phase = "idle" =>
    \A e \in Event : e.row.kind = "aggregate" /\ e.row.sess # NoSession =>
      LET t == Apply(table, e)
      IN  \E j \in Ids : t[j] # NoRow /\ t[j].sess = e.row.sess /\ Counts(t[j])

\* The detailed records of a session that t counts.
Detail(t) ==
  {[sess |-> t[i].sess, stamp |-> t[i].stamp, total |-> t[i].total] :
     i \in {j \in Ids : t[j] # NoRow /\ Indexed(t[j]) /\ t[j].sess # NoSession}}

(***************************************************************************)
(* Storing an event replaces at most the record its own id stood for:      *)
(* moving an id from one row to another loses no other record.             *)
(***************************************************************************)
NoRecordLost ==
  [][phase = "tx" /\ size' = size + 1 =>
       \E i \in Ids : Detail(work) \subseteq Detail(work') \cup Detail([j \in Ids |->
                        IF j = i /\ work'[i] # NoRow THEN work[i] ELSE NoRow])]_vars

(***************************************************************************)
(* Opening the database again keeps each row the running store accepted    *)
(* for a known session: migrate finds nothing to remove.                   *)
(***************************************************************************)
ReopenKeepsRows ==
  [][phase = "down" /\ phase' = "idle" =>
       \A i \in Ids : table[i] # NoRow /\ table[i].sess # NoSession
                        => table'[i] = table[i]]_vars

=============================================================================
