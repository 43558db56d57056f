-------------------------- MODULE UsageStoreProofs --------------------------
(***************************************************************************)
(* Proofs about UsageStore, for any events, sessions and batch sizes:      *)
(* whatever is ingested, rolled back, purged or reopened, no session is    *)
(* counted twice, no two rows share an entry of the unique index, no       *)
(* record is lost to another, and events may be sent again.                *)
(***************************************************************************)
EXTENDS UsageStore, TLAPS

\* u has rows of t, unchanged, and no other.
InTx(u, t) == \A j \in Ids : u[j] = NoRow \/ u[j] = t[j]

(***************************************************************************)
(* Removing rows keeps what holds of every two rows.                       *)
(***************************************************************************)
LEMMA WithinKeeps ==
  ASSUME NEW t, NEW u, InTx(u, t)
  PROVE  /\ SingleIn(t) => SingleIn(u)
         /\ UniqueIn(t) => UniqueIn(u)
<1>1. \A j \in Ids : u[j] # NoRow => u[j] = t[j]
  BY DEF InTx
<1>2. SingleIn(t) => SingleIn(u)
  BY <1>1 DEF SingleIn
<1>3. UniqueIn(t) => UniqueIn(u)
  BY <1>1 DEF UniqueIn
<1> QED
  BY <1>2, <1>3

LEMMA WithoutAggregatesWithin ==
  ASSUME NEW t \in Table, NEW r
  PROVE  WithoutAggregates(t, r) \in Table /\ InTx(WithoutAggregates(t, r), t)
BY DEF WithoutAggregates, Table, InTx

(***************************************************************************)
(* A row is stored under the incoming id or not at all; all others are     *)
(* rows that were there.                                                   *)
(***************************************************************************)
LEMMA RefreshedRows ==
  ASSUME NEW t \in Table, NEW i \in Ids, NEW r \in Row
  PROVE  /\ Refreshed(t, i, r) \in Table
         /\ \A j \in Ids : \/ Refreshed(t, i, r)[j] \in {NoRow, t[j]}
                           \/ j = i /\ Refreshed(t, i, r)[j] = r
<1> DEFINE d == CHOOSE j \in Duplicates(t, r) : TRUE
<1>1. CASE Placed(t, i, r)
  BY <1>1 DEF Refreshed, Table
<1>2. CASE ~Placed(t, i, r)
  <2>1. Duplicates(t, r) # {}
    BY <1>2 DEF Placed, Occupied, Conflict, Duplicates, SameDimensions
  <2>2. d \in Ids
    BY <2>1 DEF Duplicates
  <2>3. Refreshed(t, i, r) = IF d = i THEN t ELSE [t EXCEPT ![d] = NoRow, ![i] = r]
    BY <1>2 DEF Refreshed
  <2> HIDE DEF d
  <2> QED
    BY <2>2, <2>3 DEF Table
<1> QED
  BY <1>1, <1>2

LEMMA ApplyTable ==
  ASSUME NEW t \in Table, NEW e \in Event
  PROVE  Apply(t, e) \in Table
BY WithoutAggregatesWithin, RefreshedRows DEF Apply, Event

(***************************************************************************)
(* Folding an event into the table never leaves an aggregate beside rows   *)
(* that supersede it.                                                      *)
(***************************************************************************)
LEMMA ApplySingle ==
  ASSUME NEW t \in Table, NEW e \in Event, SingleIn(t)
  PROVE  SingleIn(Apply(t, e))
<1> DEFINE w == WithoutAggregates(t, e.row)
           u == Refreshed(w, e.id, e.row)
<1>1. CASE Obsolete(t, e.row)
  BY <1>1 DEF Apply
<1>2. CASE ~Obsolete(t, e.row)
  <2>1. Apply(t, e) = u
    BY <1>2 DEF Apply
  <2>2. e.id \in Ids /\ e.row \in Row /\ w \in Table /\ InTx(w, t)
    BY WithoutAggregatesWithin DEF Event
  <2>3. \A j \in Ids : u[j] \in {NoRow, w[j]} \/ (j = e.id /\ u[j] = e.row)
    BY <2>2, RefreshedRows
  <2>4. SUFFICES ASSUME NEW a \in Ids, NEW s \in Ids, u[a] # NoRow, u[s] # NoRow,
                        u[a].kind = "aggregate", Supersedes(u[s]), u[a].sess = u[s].sess
                 PROVE  FALSE
    BY <2>1 DEF SingleIn
  <2>5. CASE u[a] = w[a] /\ u[s] = w[s]
    BY <2>2, <2>4, <2>5, WithinKeeps DEF SingleIn
  <2>6. CASE u[a] = w[a] /\ u[s] = e.row
    <3>1. w[a] = t[a] /\ t[a] # NoRow
      BY <2>2, <2>4, <2>6 DEF InTx
    <3>2. w[a] = NoRow
      BY <2>4, <2>6, <3>1 DEF WithoutAggregates
    <3> QED
      BY <3>1, <3>2
  <2>7. CASE u[a] = e.row /\ u[s] = w[s]
    <3>1. w[s] = t[s] /\ t[s] # NoRow
      BY <2>2, <2>4, <2>7 DEF InTx
    <3>2. Obsolete(t, e.row)
      BY <2>4, <2>7, <3>1 DEF Obsolete, DetailedExists, HasComponents, Supersedes
    <3> QED
      BY <1>2, <3>2
  <2>8. CASE u[a] = e.row /\ u[s] = e.row
    BY <2>4, <2>8 DEF Supersedes
  <2> QED
    BY <2>3, <2>4, <2>5, <2>6, <2>7, <2>8
<1> QED
  BY <1>1, <1>2

(***************************************************************************)
(* INSERT OR IGNORE and refreshUsageEvent keep the unique index.           *)
(***************************************************************************)
LEMMA RefreshedUnique ==
  ASSUME NEW t \in Table, NEW i \in Ids, NEW r \in Row, UniqueIn(t)
  PROVE  UniqueIn(Refreshed(t, i, r))
<1> DEFINE d == CHOOSE j \in Duplicates(t, r) : TRUE
<1>1. CASE Placed(t, i, r)
  BY <1>1 DEF Refreshed, UniqueIn, Placed, Occupied, Conflict, SameDimensions, Table
<1>2. CASE ~Placed(t, i, r)
  <2>1. PICK o \in Ids \ {i} : t[o] # NoRow /\ Conflict(t[o], r)
    BY <1>2 DEF Placed, Occupied
  <2>2. d \in Duplicates(t, r)
    BY <2>1 DEF Duplicates, Conflict, SameDimensions
  <2>3. Refreshed(t, i, r) = IF d = i THEN t ELSE [t EXCEPT ![d] = NoRow, ![i] = r]
    BY <1>2 DEF Refreshed
  <2> HIDE DEF d
  <2>4. d \in Ids /\ t[d] # NoRow /\ Indexed(t[d]) /\ SameDimensions(t[d], r)
    BY <2>2 DEF Duplicates
  <2>5. \A j \in Ids \ {d} : t[j] # NoRow => ~Conflict(t[j], r)
    BY <2>1, <2>4 DEF UniqueIn, Conflict, SameDimensions
  <2> QED
    BY <2>3, <2>4, <2>5 DEF UniqueIn, Conflict, SameDimensions, Table
<1> QED
  BY <1>1, <1>2

LEMMA ApplyUnique ==
  ASSUME NEW t \in Table, NEW e \in Event, UniqueIn(t)
  PROVE  UniqueIn(Apply(t, e))
BY WithoutAggregatesWithin, WithinKeeps, RefreshedUnique DEF Apply, Event

-----------------------------------------------------------------------------

StoreInv == TypeOK /\ NoDoubleCount /\ UniqueDetail

LEMMA StoreInit == Init => StoreInv
BY NoRowAssumption, StoreAssumption
   DEF Init, StoreInv, TypeOK, NoDoubleCount, UniqueDetail, SingleIn, UniqueIn, Table

LEMMA StoreStep == StoreInv /\ [Next]_vars => StoreInv'
<1> SUFFICES ASSUME StoreInv, [Next]_vars PROVE StoreInv'
  OBVIOUS
<1> USE StoreAssumption DEF StoreInv, TypeOK, NoDoubleCount, UniqueDetail
<1>1. CASE BeginTx
  BY <1>1 DEF BeginTx
<1>2. ASSUME NEW e \in Event, IngestEvent(e) PROVE StoreInv'
  <2>1. work' \in Table /\ SingleIn(work') /\ UniqueIn(work')
    BY <1>2, ApplyTable, ApplySingle, ApplyUnique DEF IngestEvent
  <2> QED
    BY <1>2, <2>1 DEF IngestEvent
<1>3. CASE CommitTx
  BY <1>3 DEF CommitTx
<1>4. CASE RollbackTx
  BY <1>4 DEF RollbackTx
<1>5. CASE Stop
  BY <1>5 DEF Stop
<1>6. CASE Open
  <2>1. table' \in Table /\ InTx(table', table)
    BY <1>6 DEF Open, InTx, Table
  <2> QED
    BY <1>6, <2>1, WithinKeeps DEF Open
<1>7. ASSUME NEW cut \in Stamps, PurgeBefore(cut) PROVE StoreInv'
  <2>1. table' \in Table /\ InTx(table', table)
    BY <1>7 DEF PurgeBefore, InTx, Table
  <2> QED
    BY <1>7, <2>1, WithinKeeps DEF PurgeBefore
<1>8. CASE UNCHANGED vars
  BY <1>8 DEF vars
<1> QED
  BY <1>1, <1>2, <1>3, <1>4, <1>5, <1>6, <1>7, <1>8 DEF Next

(***************************************************************************)
(* The tables hold rows of the declared shape, and only an open            *)
(* transaction differs from what is committed.                             *)
(***************************************************************************)
THEOREM TypeCorrect == Spec => []TypeOK
<1>1. StoreInv => TypeOK
  BY DEF StoreInv
<1> QED
  BY <1>1, StoreInit, StoreStep, PTL DEF Spec

(***************************************************************************)
(* No session is counted by its aggregate and its records at once, in      *)
(* whatever order and batches they are delivered.                          *)
(***************************************************************************)
THEOREM NoSessionCountedTwice == Spec => []NoDoubleCount
<1>1. StoreInv => NoDoubleCount
  BY DEF StoreInv
<1> QED
  BY <1>1, StoreInit, StoreStep, PTL DEF Spec

(***************************************************************************)
(* No detailed record has two rows, under whatever ids it is delivered.    *)
(***************************************************************************)
THEOREM NoRecordCountedTwice == Spec => []UniqueDetail
<1>1. StoreInv => UniqueDetail
  BY DEF StoreInv
<1> QED
  BY <1>1, StoreInit, StoreStep, PTL DEF Spec


-----------------------------------------------------------------------------

(***************************************************************************)
(* An event that cannot be placed finds the row it collides with, so no    *)
(* batch fails because one of its events was ignored without a match.      *)
(***************************************************************************)
THEOREM InsertNeverIgnored == Spec => []NeverIgnored
<1>1. ASSUME NEW t, NEW e \in Event PROVE ~Ignored(t, e)
  <2> DEFINE u == WithoutAggregates(t, e.row)
  <2> SUFFICES ASSUME ~Placed(u, e.id, e.row) PROVE Duplicates(u, e.row) # {}
    BY DEF Ignored
  <2>1. PICK j \in Ids \ {e.id} : u[j] # NoRow /\ Conflict(u[j], e.row)
    BY DEF Placed, Occupied
  <2>2. j \in Duplicates(u, e.row)
    BY <2>1 DEF Duplicates, Conflict
  <2> QED
    BY <2>2
<1>2. NeverIgnored
  BY <1>1 DEF NeverIgnored
<1> QED
  BY <1>2, PTL

-----------------------------------------------------------------------------

(***************************************************************************)
(* Folding an event into a table, row by row                               *)
(***************************************************************************)

\* Row r takes the place of row q of another id.
Beats(r, q) ==
  Conflict(q, r) \/ (Supersedes(r) /\ q.kind = "aggregate" /\ q.sess = r.sess)

Folded(t, e) ==
  [j \in Ids |-> IF j = e.id THEN e.row
                 ELSE IF t[j] = NoRow \/ Beats(e.row, t[j]) THEN NoRow ELSE t[j]]

(***************************************************************************)
(* An event that is not obsolete stands under its own id, and the rows it  *)
(* beats are gone.                                                         *)
(***************************************************************************)
LEMMA ApplyFolds ==
  ASSUME NEW t \in Table, UniqueIn(t), NEW e \in Event, ~Obsolete(t, e.row)
  PROVE  Apply(t, e) = Folded(t, e)
<1> DEFINE i == e.id
           r == e.row
           u == WithoutAggregates(t, r)
           d == CHOOSE j \in Duplicates(u, r) : TRUE
<1>0. i \in Ids /\ r \in Row /\ r # NoRow
  BY NoRowAssumption DEF Event
<1>1. u \in Table /\ InTx(u, t) /\ UniqueIn(u)
  BY WithoutAggregatesWithin, WithinKeeps
<1>2. Apply(t, e) = Refreshed(u, i, r)
  BY DEF Apply
<1>3. \A j \in Ids :
        u[j] = IF Supersedes(r) /\ t[j] # NoRow /\ t[j].kind = "aggregate" /\ t[j].sess = r.sess
                 THEN NoRow ELSE t[j]
  BY DEF WithoutAggregates
<1>4. \A j \in Ids : t[j] # NoRow /\ Conflict(t[j], r) => u[j] = t[j]
  BY <1>3 DEF Conflict, Indexed
<1>5. Folded(t, e) = [j \in Ids |-> IF j = i THEN r
                        ELSE IF t[j] = NoRow \/ Beats(r, t[j]) THEN NoRow ELSE t[j]]
  BY DEF Folded
<1>6. \A j \in Ids : t[j] # NoRow /\ Beats(r, t[j]) /\ ~Conflict(t[j], r) => u[j] = NoRow
  BY <1>3 DEF Beats
<1>7. \A j \in Ids : u[j] = NoRow => t[j] = NoRow \/ Beats(r, t[j])
  BY <1>3 DEF Beats
<1> HIDE DEF u, i, r
<1>8. CASE Placed(u, i, r)
  <2>1. Refreshed(u, i, r) = [u EXCEPT ![i] = r]
    BY <1>8 DEF Refreshed
  <2>2. \A j \in Ids \ {i} : t[j] # NoRow => ~Conflict(t[j], r)
    BY <1>4, <1>8 DEF Placed, Occupied
  <2>3. \A j \in Ids \ {i} : u[j] = IF t[j] = NoRow \/ Beats(r, t[j]) THEN NoRow ELSE t[j]
    BY <1>1, <1>6, <1>7, <2>2 DEF InTx
  <2>4. [u EXCEPT ![i] = r] = [j \in Ids |-> IF j = i THEN r ELSE u[j]]
    BY <1>0, <1>1 DEF Table
  <2> QED
    BY <1>2, <1>5, <2>1, <2>3, <2>4
<1>9. CASE ~Placed(u, i, r)
  <2>1. PICK o \in Ids \ {i} : u[o] # NoRow /\ Conflict(u[o], r)
    BY <1>9 DEF Placed, Occupied
  <2>2. d \in Duplicates(u, r)
    BY <2>1 DEF Duplicates, Conflict
  <2>3. Refreshed(u, i, r) = IF d = i THEN u ELSE [u EXCEPT ![d] = NoRow, ![i] = r]
    BY <1>9 DEF Refreshed
  <2> HIDE DEF d
  <2>4. d \in Ids /\ u[d] # NoRow /\ Conflict(u[d], r)
    BY <2>1, <2>2 DEF Duplicates, Conflict, SameDimensions
  <2>5. \A j \in Ids : u[j] # NoRow /\ Conflict(u[j], r) => j = d
    BY <1>1, <2>4 DEF UniqueIn, Conflict, SameDimensions
  <2>6. d # i
    BY <2>1, <2>5
  <2>7. [u EXCEPT ![d] = NoRow, ![i] = r] = [j \in Ids |-> IF j = i THEN r ELSE IF j = d THEN NoRow ELSE u[j]]
    BY <1>0, <1>1, <2>4, <2>6 DEF Table
  <2>8. \A j \in Ids \ {i} : (IF j = d THEN NoRow ELSE u[j])
                               = IF t[j] = NoRow \/ Beats(r, t[j]) THEN NoRow ELSE t[j]
    <3>1. t[d] = u[d] /\ Beats(r, t[d])
      BY <1>1, <2>4 DEF InTx, Beats
    <3>2. \A j \in Ids \ {d} : t[j] # NoRow => ~Conflict(t[j], r)
      BY <1>4, <2>5
    <3> QED
      BY <1>1, <1>6, <1>7, <3>1, <3>2 DEF InTx
  <2> QED
    BY <1>2, <1>5, <2>3, <2>6, <2>7, <2>8
<1> QED
  BY <1>8, <1>9

(***************************************************************************)
(* Storing an event replaces at most the record its own id stood for.      *)
(***************************************************************************)
THEOREM RefreshLosesNoRecord == Spec => NoRecordLost
<1> DEFINE Kept == \E i \in Ids : Detail(work) \subseteq Detail(work') \cup
                     Detail([j \in Ids |-> IF j = i /\ work'[i] # NoRow THEN work[i] ELSE NoRow])
<1>1. ASSUME NEW e \in Event, StoreInv, IngestEvent(e) PROVE Kept
  <2>0. work \in Table /\ UniqueIn(work) /\ work' = Apply(work, e) /\ e.id \in Ids /\ e.row # NoRow
    BY <1>1, NoRowAssumption DEF IngestEvent, StoreInv, TypeOK, UniqueDetail, Event
  <2>1. CASE Obsolete(work, e.row)
    BY <2>0, <2>1 DEF Apply
  <2>2. CASE ~Obsolete(work, e.row)
    <3>1. \A j \in Ids : work'[j] = IF j = e.id THEN e.row
                                    ELSE IF work[j] = NoRow \/ Beats(e.row, work[j]) THEN NoRow ELSE work[j]
      BY <2>0, <2>2, ApplyFolds DEF Folded
    <3> DEFINE old == [j \in Ids |-> IF j = e.id /\ work'[e.id] # NoRow THEN work[e.id] ELSE NoRow]
    <3>2. SUFFICES ASSUME NEW q \in Detail(work) PROVE q \in Detail(work') \cup Detail(old)
      BY <2>0
    <3>3. PICK j \in Ids : /\ work[j] # NoRow /\ Indexed(work[j]) /\ work[j].sess # NoSession
                           /\ q = [sess |-> work[j].sess, stamp |-> work[j].stamp, total |-> work[j].total]
      BY DEF Detail
    <3>4. CASE j = e.id
      <4>1. old[j] = work[j]
        BY <2>0, <3>1, <3>4
      <4> HIDE DEF old
      <4> QED
        BY <3>3, <4>1 DEF Detail
    <3>5. CASE j # e.id /\ Beats(e.row, work[j])
      <4>1. Conflict(work[j], e.row)
        BY <3>3, <3>5 DEF Beats, Indexed
      <4>2. work'[e.id] = e.row
        BY <2>0, <3>1
      <4> QED
        BY <2>0, <3>3, <4>1, <4>2 DEF Detail, Conflict, SameDimensions
    <3>6. CASE j # e.id /\ ~Beats(e.row, work[j])
      <4>1. work'[j] = work[j]
        BY <3>1, <3>3, <3>6
      <4> QED
        BY <3>3, <4>1 DEF Detail
    <3> QED
      BY <3>4, <3>5, <3>6
  <2> QED
    BY <2>1, <2>2
<1>2. StoreInv /\ [Next]_vars => [phase = "tx" /\ size' = size + 1 => Kept]_vars
  <2> SUFFICES ASSUME StoreInv, Next, phase = "tx", size' = size + 1 PROVE Kept
    OBVIOUS
  <2>1. size \in Nat
    BY StoreAssumption DEF StoreInv, TypeOK
  <2>2. \E e \in Event : IngestEvent(e)
    BY <2>1 DEF Next, BeginTx, CommitTx, RollbackTx, Stop, Open, PurgeBefore
  <2> QED
    BY <1>1, <2>2
<1> QED
  BY StoreInit, StoreStep, <1>2, PTL DEF Spec, NoRecordLost

(***************************************************************************)
(* Opening the database again removes no row of a known session that the   *)
(* running store has accepted.                                             *)
(***************************************************************************)
THEOREM ReopenRemovesNothing == Spec => ReopenKeepsRows
<1>1. ASSUME StoreInv, Open, NEW i \in Ids, table[i] # NoRow, table[i].sess # NoSession
      PROVE  table'[i] = table[i]
  <2>1. PICK keep \in SUBSET {j \in Ids : table[j] # NoRow /\ Indexed(table[j])} :
          /\ \A j \in Ids : table[j] # NoRow /\ Indexed(table[j]) =>
               \E k \in keep : Twins(table, j) \cap keep = {k}
          /\ table' = [j \in Ids |-> IF table[j] # NoRow /\ Indexed(table[j]) /\ j \notin keep
                                       THEN NoRow ELSE table[j]]
    BY <1>1 DEF Open
  <2>2. CASE Indexed(table[i])
    <3>1. PICK k \in keep : k \in Twins(table, i)
      BY <1>1, <2>1, <2>2
    <3>2. k \in Ids /\ table[k] # NoRow /\ Conflict(table[i], table[k])
      BY <1>1, <2>2, <3>1 DEF Twins, Duplicates, Conflict, SameDimensions
    <3>3. k = i
      BY <1>1, <3>2 DEF StoreInv, UniqueDetail, UniqueIn
    <3> QED
      BY <2>1, <3>1, <3>3
  <2>3. CASE ~Indexed(table[i])
    BY <2>1, <2>3
  <2> QED
    BY <2>2, <2>3
<1>2. StoreInv /\ [Next]_vars =>
        [phase = "down" /\ phase' = "idle" =>
           \A i \in Ids : table[i] # NoRow /\ table[i].sess # NoSession => table'[i] = table[i]]_vars
  <2> SUFFICES ASSUME StoreInv, Next, phase = "down", phase' = "idle",
                      NEW i \in Ids, table[i] # NoRow, table[i].sess # NoSession
               PROVE  table'[i] = table[i]
    OBVIOUS
  <2>1. Open
    BY DEF Next, BeginTx, IngestEvent, CommitTx, RollbackTx, Stop, PurgeBefore
  <2> QED
    BY <1>1, <2>1
<1> QED
  BY StoreInit, StoreStep, <1>2, PTL DEF Spec, ReopenKeepsRows


(***************************************************************************)
(* Sending events again                                                    *)
(***************************************************************************)

\* Event ids are hashes over the adapter (usage.DeterministicID), so no id is
\* sent by Codex and by another adapter.
IdsOfOneAdapter == \A i \in Ids : "other" \in KindsOf[i] => KindsOf[i] = {"other"}

\* Each row could have been sent under its id.
RowsSent(t) == \A i \in Ids : t[i] # NoRow => [id |-> i, row |-> t[i]] \in Event

SentInv == StoreInv /\ RowsSent(table) /\ RowsSent(work)

\* The rows of t with components of session s.
Parts(t, s) == {j \in Ids : t[j] # NoRow /\ t[j].sess = s /\ HasComponents(t[j])}

LEMMA ObsoleteParts ==
  ASSUME NEW t, NEW r
  PROVE  Obsolete(t, r) <=> r.kind = "aggregate" /\ r.sess # NoSession /\ Parts(t, r.sess) # {}
BY DEF Obsolete, DetailedExists, Parts

LEMMA WithinSent ==
  ASSUME NEW t, NEW u, InTx(u, t), RowsSent(t)
  PROVE  RowsSent(u)
BY DEF InTx, RowsSent

LEMMA ApplySent ==
  ASSUME NEW t \in Table, UniqueIn(t), RowsSent(t), NEW e \in Event
  PROVE  RowsSent(Apply(t, e))
<1>1. CASE Obsolete(t, e.row)
  BY <1>1 DEF Apply
<1>2. CASE ~Obsolete(t, e.row)
  <2>1. \A j \in Ids : Folded(t, e)[j] \in {NoRow, t[j]} \/ (j = e.id /\ Folded(t, e)[j] = e.row)
    BY DEF Folded
  <2>2. [id |-> e.id, row |-> e.row] = e
    BY DEF Event
  <2> QED
    BY <1>2, <2>1, <2>2, ApplyFolds DEF RowsSent
<1> QED
  BY <1>1, <1>2

LEMMA FoldedAgain ==
  ASSUME NEW t, NEW e \in Event
  PROVE  Folded(Folded(t, e), e) = Folded(t, e)
<1>1. ASSUME NEW j \in Ids PROVE Folded(Folded(t, e), e)[j] = Folded(t, e)[j]
  BY DEF Folded
<1> QED
  BY <1>1 DEF Folded

\* An aggregate adds no components, and an event beats none but those it has
\* itself.
LEMMA PartsAfter ==
  ASSUME NEW t \in Table, RowsSent(t), NEW f \in Event, NEW s \in Sessions, IdsOfOneAdapter,
         ~Obsolete(t, f.row)
  PROVE  /\ Parts(t, s) # {} => Parts(Folded(t, f), s) # {}
         /\ ~HasComponents(f.row) => Parts(Folded(t, f), s) \subseteq Parts(t, s)
<1>0. f.id \in Ids /\ f.row \in Row /\ f.row # NoRow /\ f.row.kind \in KindsOf[f.id] /\ f.row.sess = SessionOf[f.id]
  BY NoRowAssumption DEF Event
<1>1. \A j \in Ids : Folded(t, f)[j] = IF j = f.id THEN f.row
                        ELSE IF t[j] = NoRow \/ Beats(f.row, t[j]) THEN NoRow ELSE t[j]
  BY DEF Folded
<1>2. ~HasComponents(f.row) => Parts(Folded(t, f), s) \subseteq Parts(t, s)
  BY <1>1 DEF Parts
<1>3. ASSUME NEW j \in Parts(t, s) PROVE Parts(Folded(t, f), s) # {}
  <2>1. j \in Ids /\ t[j] # NoRow /\ t[j].sess = s /\ HasComponents(t[j])
    BY DEF Parts
  <2>2. CASE j = f.id
    <3>1. t[j].kind \in KindsOf[j] /\ t[j].sess = SessionOf[j]
      BY <2>1 DEF RowsSent, Event
    <3>2. f.row.kind # "other"
      BY <1>0, <2>1, <2>2, <3>1 DEF IdsOfOneAdapter, HasComponents
    <3>3. f.row.kind # "aggregate"
      BY <1>0, <2>1, <2>2, <3>1, StoreAssumption, ObsoleteParts DEF Parts
    <3>4. HasComponents(f.row)
      BY <1>0, <3>2, <3>3 DEF HasComponents, Row, Kinds
    <3>5. j \in Parts(Folded(t, f), s)
      BY <1>0, <1>1, <2>1, <2>2, <3>1, <3>4 DEF Parts
    <3> QED
      BY <3>5
  <2>3. CASE j # f.id /\ Beats(f.row, t[j])
    <3>1. Conflict(t[j], f.row)
      BY <2>1, <2>3 DEF Beats, HasComponents
    <3>2. HasComponents(f.row) /\ f.row.sess = s
      BY <2>1, <3>1 DEF Conflict, Indexed, HasComponents, SameDimensions
    <3>3. f.id \in Parts(Folded(t, f), s)
      BY <1>0, <1>1, <3>2 DEF Parts
    <3> QED
      BY <3>3
  <2>4. CASE j # f.id /\ ~Beats(f.row, t[j])
    <3>1. j \in Parts(Folded(t, f), s)
      BY <1>1, <2>1, <2>4 DEF Parts
    <3> QED
      BY <3>1
  <2> QED
    BY <2>2, <2>3, <2>4
<1> QED
  BY <1>2, <1>3


\* Folding e and f in turn, where e was folded before f.
LEMMA FoldedInTurn ==
  ASSUME NEW t, NEW e \in Event, NEW f \in Event
  PROVE  LET b == Folded(Folded(t, e), f)
         IN  Folded(Folded(b, e), f) = b
<1> DEFINE a == Folded(t, e)
           b == Folded(a, f)
           c == Folded(b, e)
           d == Folded(c, f)
<1>1. \A j \in Ids : a[j] = IF j = e.id THEN e.row
                            ELSE IF t[j] = NoRow \/ Beats(e.row, t[j]) THEN NoRow ELSE t[j]
  BY DEF Folded
<1>2. \A j \in Ids : b[j] = IF j = f.id THEN f.row
                            ELSE IF a[j] = NoRow \/ Beats(f.row, a[j]) THEN NoRow ELSE a[j]
  BY DEF Folded
<1>3. \A j \in Ids : c[j] = IF j = e.id THEN e.row
                            ELSE IF b[j] = NoRow \/ Beats(e.row, b[j]) THEN NoRow ELSE b[j]
  BY DEF Folded
<1>4. \A j \in Ids : d[j] = IF j = f.id THEN f.row
                            ELSE IF c[j] = NoRow \/ Beats(f.row, c[j]) THEN NoRow ELSE c[j]
  BY DEF Folded
<1>5. d = [j \in Ids |-> d[j]] /\ b = [j \in Ids |-> b[j]]
  BY DEF Folded
<1> HIDE DEF a, b, c, d
<1>6. ASSUME NEW j \in Ids PROVE d[j] = b[j]
  <2>1. CASE j = f.id
    BY <1>2, <1>4, <2>1
  <2>2. CASE j # f.id /\ j = e.id
    BY <1>1, <1>2, <1>3, <1>4, <2>2
  <2>3. CASE j # f.id /\ j # e.id
    <3>1. b[j] = NoRow \/ (~Beats(e.row, b[j]) /\ ~Beats(f.row, b[j]))
      BY <1>1, <1>2, <2>3
    <3> QED
      BY <1>3, <1>4, <2>3, <3>1
  <2> QED
    BY <2>1, <2>2, <2>3
<1>7. d = b
  BY <1>5, <1>6
<1> QED
  BY <1>7 DEF a, b, c, d

LEMMA ResentTwice ==
  ASSUME IdsOfOneAdapter, NEW t \in Table, UniqueIn(t), RowsSent(t), NEW e \in Event, NEW f \in Event
  PROVE  LET once == Apply(Apply(t, e), f)
         IN  Apply(Apply(once, e), f) = once
<1> DEFINE a == Apply(t, e)
           b == Apply(a, f)
           c == Apply(b, e)
<1>1. a \in Table /\ UniqueIn(a) /\ RowsSent(a)
  BY ApplyTable, ApplyUnique, ApplySent
<1>2. b \in Table /\ UniqueIn(b) /\ RowsSent(b)
  BY <1>1, ApplyTable, ApplyUnique, ApplySent
<1>3. c \in Table /\ UniqueIn(c)
  BY <1>2, ApplyTable, ApplyUnique
<1>4. /\ e.row.sess # NoSession => e.row.sess \in Sessions
      /\ f.row.sess # NoSession => f.row.sess \in Sessions
      /\ e.row.kind = "aggregate" => ~HasComponents(e.row)
      /\ f.row.kind = "aggregate" => ~HasComponents(f.row)
  BY DEF Event, Row, HasComponents
<1>e. Obsolete(t, e.row) => a = t
  BY DEF Apply
<1>f. Obsolete(a, f.row) => b = a
  BY DEF Apply
<1>c. Obsolete(b, e.row) => c = b
  BY DEF Apply
<1>d. Obsolete(c, f.row) => Apply(c, f) = c
  BY DEF Apply
<1>a. ~Obsolete(t, e.row) => a = Folded(t, e)
  BY ApplyFolds
<1>b. ~Obsolete(a, f.row) => b = Folded(a, f)
  BY <1>1, ApplyFolds
<1>g. ~Obsolete(b, e.row) => c = Folded(b, e)
  BY <1>2, ApplyFolds
<1>h. ~Obsolete(c, f.row) => Apply(c, f) = Folded(c, f)
  BY <1>3, ApplyFolds
<1> SUFFICES Apply(c, f) = b
  OBVIOUS
<1> HIDE DEF a, b, c
\* e or f alone, again
<1>5. ~Obsolete(t, e.row) => ~Obsolete(a, e.row)
  BY <1>4, <1>a, PartsAfter, ObsoleteParts
<1>6. ~Obsolete(a, f.row) => ~Obsolete(b, f.row)
  BY <1>1, <1>4, <1>b, PartsAfter, ObsoleteParts
<1>7. CASE Obsolete(a, f.row)
  <2>1. c = a
    <3>1. CASE Obsolete(t, e.row)
      BY <1>7, <1>e, <1>f, <1>c, <3>1
    <3>2. CASE ~Obsolete(t, e.row)
      BY <1>7, <1>5, <1>f, <1>a, <1>g, <3>2, FoldedAgain
    <3> QED
      BY <3>1, <3>2
  <2> QED
    BY <1>7, <1>d, <1>f, <2>1
<1>8. CASE ~Obsolete(a, f.row) /\ Obsolete(b, e.row)
  BY <1>8, <1>6, <1>c, <1>b, <1>h, FoldedAgain
<1>9. CASE ~Obsolete(a, f.row) /\ ~Obsolete(b, e.row)
  <2>1. ~Obsolete(t, e.row)
    <3> SUFFICES ASSUME Obsolete(t, e.row) PROVE FALSE
      OBVIOUS
    <3>1. Parts(b, e.row.sess) # {}
      BY <1>1, <1>4, <1>9, <1>b, <1>e, PartsAfter, ObsoleteParts
    <3>2. Obsolete(b, e.row)
      BY <3>1, ObsoleteParts
    <3> QED
      BY <1>9, <3>2
  <2>2. ~Obsolete(c, f.row)
    <3> SUFFICES ASSUME Obsolete(c, f.row) PROVE FALSE
      OBVIOUS
    <3> DEFINE s == f.row.sess
    <3>1. f.row.kind = "aggregate" /\ s # NoSession /\ Parts(c, s) # {}
      BY ObsoleteParts
    <3>2. Parts(a, s) = {}
      BY <1>9, <3>1, ObsoleteParts
    <3>3. Parts(b, s) = {}
      BY <1>1, <1>4, <1>9, <1>b, <3>1, <3>2, PartsAfter
    <3>4. PICK j \in Ids : c[j] # NoRow /\ c[j].sess = s /\ HasComponents(c[j])
      BY <3>1 DEF Parts
    <3>5. c[j] = b[j] \/ (j = e.id /\ c[j] = e.row)
      BY <1>9, <1>g, <3>4 DEF Folded
    <3>6. CASE c[j] = b[j]
      BY <3>3, <3>4, <3>6 DEF Parts
    <3>7. CASE j = e.id /\ c[j] = e.row
      <4>1. a[j] = e.row
        BY <1>a, <2>1, <3>7 DEF Folded
      <4> QED
        BY <3>2, <3>4, <3>7, <4>1 DEF Parts
    <3> QED
      BY <3>5, <3>6, <3>7
  <2> QED
    BY <1>9, <1>a, <1>b, <1>g, <1>h, <2>1, <2>2, FoldedInTurn
<1> QED
  BY <1>7, <1>8, <1>9

LEMMA SentInit == Init => SentInv
BY StoreInit DEF Init, SentInv, RowsSent

LEMMA SentStep == SentInv /\ [Next]_vars => SentInv'
<1> SUFFICES ASSUME SentInv, [Next]_vars PROVE RowsSent(table)' /\ RowsSent(work)'
  BY StoreStep DEF SentInv
<1> USE DEF SentInv
<1>1. CASE BeginTx
  BY <1>1 DEF BeginTx, RowsSent
<1>2. ASSUME NEW e \in Event, IngestEvent(e) PROVE RowsSent(table)' /\ RowsSent(work)'
  <2>1. RowsSent(Apply(work, e))
    BY ApplySent DEF StoreInv, TypeOK, UniqueDetail
  <2> QED
    BY <1>2, <2>1 DEF IngestEvent, RowsSent
<1>3. CASE CommitTx
  BY <1>3 DEF CommitTx, RowsSent
<1>4. CASE RollbackTx
  BY <1>4 DEF RollbackTx, RowsSent
<1>5. CASE Stop
  BY <1>5 DEF Stop, RowsSent
<1>6. CASE Open
  <2>1. InTx(table', table) /\ work' = table'
    BY <1>6 DEF Open, InTx
  <2> QED
    BY <2>1 DEF InTx, RowsSent
<1>7. ASSUME NEW cut \in Stamps, PurgeBefore(cut) PROVE RowsSent(table)' /\ RowsSent(work)'
  <2>1. InTx(table', table) /\ work' = table'
    BY <1>7 DEF PurgeBefore, InTx
  <2> QED
    BY <2>1 DEF InTx, RowsSent
<1>8. CASE UNCHANGED vars
  BY <1>8 DEF vars, RowsSent
<1> QED
  BY <1>1, <1>2, <1>3, <1>4, <1>5, <1>6, <1>7, <1>8 DEF Next

(***************************************************************************)
(* A batch may be repeated: sending any two events again, in their order,  *)
(* changes nothing in the committed table, whatever it holds.              *)
(***************************************************************************)
THEOREM ResendChangesNothing ==
  ASSUME IdsOfOneAdapter
  PROVE  Spec => []ResendIdempotent
<1>1. SentInv => ResendIdempotent
  BY ResentTwice DEF SentInv, StoreInv, TypeOK, UniqueDetail, ResendIdempotent
<1> QED
  BY <1>1, SentInit, SentStep, PTL DEF Spec

=============================================================================
