------------------------------- MODULE Upload -------------------------------
(* One upload of a pass: sanitising, the outbound guard, the division into    *)
(* batches, the requests one after the other, and the hub's handler, whose    *)
(* two reads of the lifetime total are outside the transaction between them.  *)
(* Several machines upload at once; a machine's log is one source, whose      *)
(* records are numbered in the order they were written.                       *)
EXTENDS Integers, Sequences, FiniteSets, SequencesExt

CONSTANTS
    Machines,      \* agents that upload to the one hub
    MaxLog,        \* bound: records per machine
    Written,       \* bound: Written[m] is the kinds of records m writes
    BatchEvents,   \* maxIngestBatchEvents
    BatchBytes,    \* maxIngestBatchBytes, in units of a small event
    Thresholds,    \* lowerThreshold of the forms after the egg, ascending
    UploadFaults   \* bound: refused, lost or failed requests

(* What tells records apart here: a "plain" one passes; so does a "torn" one, *)
(* which is longer and whose total contradicts its parts; the guard refuses a *)
(* "private" one; the hub refuses one stamped "ahead" of its clock; a "huge"  *)
(* one fits no batch.                                                         *)
RecordKinds == {"plain", "torn", "private", "ahead", "huge"}

ASSUME UploadAssumption ==
    /\ MaxLog \in Nat /\ BatchEvents \in Nat \ {0} /\ BatchBytes \in Nat
    /\ UploadFaults \in Nat /\ Thresholds \in Seq(Nat \ {0})
    /\ Written \in [Machines -> SUBSET RecordKinds]

VARIABLES
    log,        \* log[m]: the kinds of the records machine m has written
    done,       \* done[m]: records whose fingerprints are committed
    upload,     \* upload[m]: the Ingest call of m's pass
    stored,     \* <<m, i>>: record i of m is a row of the hub
    ahead,      \* the hub's clock is a day behind the "ahead" records
    announced,  \* history: the stages some successful Ingest reported
    unheard,    \* history: a pass failed although the hub had stored from it
    refusals    \* requests that failed so far

upvars == <<log, done, upload, stored, ahead, announced, unheard, refusals>>

(* The length of a record as JSON.                                           *)
Bytes(k) == CASE k = "torn" -> 2 [] k = "huge" -> BatchBytes + 1 [] OTHER -> 1

(* validateTokenTotals and SanitizeOutbound: a contradicted total becomes     *)
(* unknown, and an unknown total adds nothing to the lifetime total.          *)
Tokens(k) == IF k = "torn" THEN 0 ELSE 1

Sensitive(k) == k = "private"
Invalid(k) == k = "ahead" /\ ahead

Total == Cardinality({e \in stored : Tokens(log[e[1]][e[2]]) = 1})
Stage(t) == Cardinality({k \in DOMAIN Thresholds : t >= Thresholds[k]})

----------------------------------------------------------------------------
(* splitIngestBatches as a fold over the records: a record that would exceed  *)
(* a limit closes the open batch.                                             *)
SplitState == [closed |-> <<>>, open |-> <<>>, bytes |-> 0]
AddTo(m, s, i) ==
    LET b == Bytes(log[m][i]) IN
    IF s.open # <<>> /\ (s.bytes + b > BatchBytes \/ Len(s.open) >= BatchEvents)
    THEN [closed |-> Append(s.closed, s.open), open |-> <<i>>, bytes |-> b]
    ELSE [closed |-> s.closed, open |-> Append(s.open, i), bytes |-> s.bytes + b]

(* a faulty variant: the open batch is dropped when it is closed              *)
SplitLosing(m, records) ==
    LET s == FoldLeft(LAMBDA acc, i : AddTo(m, acc, i), SplitState, records)
    IN IF s.closed = <<>> THEN <<s.open>> ELSE Append(Tail(s.closed), s.open)

Split(m, records) ==
    LET s == FoldLeft(LAMBDA acc, i : AddTo(m, acc, i), SplitState, records)
    IN Append(s.closed, s.open)

Uncommitted(m) == {i \in 1..Len(log[m]) : i \notin done[m]}
Collected(m) ==
    CHOOSE s \in [1..Cardinality(Uncommitted(m)) -> Uncommitted(m)] :
        \A i, j \in DOMAIN s : i < j => s[i] < s[j]

(* The guard sees the complete batch before the first request.                *)
Withheld(m, records) ==
    \E n \in DOMAIN records : \/ Sensitive(log[m][records[n]])
                              \/ Bytes(log[m][records[n]]) > BatchBytes

NoUpload == [at |-> "idle", batches |-> <<>>, index |-> 0, prev |-> 0, span |-> {}]

UploadInit ==
    /\ log = [m \in Machines |-> <<>>]
    /\ done = [m \in Machines |-> {}]
    /\ upload = [m \in Machines |-> NoUpload]
    /\ stored = {} /\ ahead = TRUE
    /\ announced = {} /\ unheard = FALSE /\ refusals = 0

(* A tool writes one more record.                                             *)
Record(m) ==
    /\ Len(log[m]) < MaxLog
    /\ \E k \in Written[m] : log' = [log EXCEPT ![m] = Append(@, k)]
    /\ UNCHANGED <<done, upload, stored, ahead, announced, unheard, refusals>>

(* The hub's clock reaches the records that were ahead of it.                 *)
HubClock ==
    /\ ahead
    /\ ahead' = FALSE
    /\ UNCHANGED <<log, done, upload, stored, announced, unheard, refusals>>

(* Client.Ingest up to its first request; a batch that is withheld leaves     *)
(* the pass as it was.                                                        *)
BeginUpload(m) ==
    /\ upload[m].at = "idle" /\ Uncommitted(m) # {}
    /\ ~Withheld(m, Collected(m))
    /\ upload' = [upload EXCEPT ![m] = [NoUpload EXCEPT !.at = "send", !.index = 1,
                                            !.batches = Split(m, Collected(m))]]
    /\ UNCHANGED <<log, done, stored, ahead, announced, unheard, refusals>>

Batch(m) == Range(upload[m].batches[upload[m].index])
Advance(m, at) == upload' = [upload EXCEPT ![m].at = at]

(* Store.Ingest reads the total before it begins its transaction.             *)
ReadBefore(m) ==
    /\ upload[m].at = "send"
    /\ \A i \in Batch(m) : ~Invalid(log[m][i])
    /\ upload' = [upload EXCEPT ![m].at = "read", ![m].prev = Stage(Total)]
    /\ UNCHANGED <<log, done, stored, ahead, announced, unheard, refusals>>

(* The transaction stores the whole batch: new rows are accepted, known ones  *)
(* are refreshed in place.                                                    *)
StoreBatch(m) ==
    /\ upload[m].at = "read"
    /\ stored' = stored \cup {<<m, i>> : i \in Batch(m)}
    /\ Advance(m, "stored")
    /\ UNCHANGED <<log, done, ahead, announced, unheard, refusals>>

(* a faulty variant: the combined result is the last batch's                  *)
LastOnly(m) == upload[m].prev + 1 .. Stage(Total)

(* What the combined result of all batches so far says was crossed: the first *)
(* batch's previous stage to this batch's current one.                        *)
Combined(m) == upload[m].span \cup (upload[m].prev + 1 .. Stage(Total))

(* The total is read again after the commit and the batch is answered; after  *)
(* the last one the pass commits what it collected.                           *)
Answer(m) ==
    /\ upload[m].at = "stored"
    /\ IF upload[m].index < Len(upload[m].batches)
       THEN /\ upload' = [upload EXCEPT ![m].at = "send", ![m].index = @ + 1,
                                        ![m].span = Combined(m)]
            /\ UNCHANGED <<done, announced>>
       ELSE /\ upload' = [upload EXCEPT ![m] = NoUpload]
            /\ done' = [done EXCEPT ![m] =
                    @ \cup UNION {Range(upload[m].batches[n]) :
                                      n \in DOMAIN upload[m].batches}]
            /\ announced' = announced \cup Combined(m)
    /\ UNCHANGED <<log, stored, ahead, unheard, refusals>>

(* The hub refuses the whole batch for one record it finds invalid. Ingest    *)
(* then returns an empty result whatever earlier batches stored, and the pass *)
(* commits nothing.                                                           *)
Refuse(m) ==
    /\ upload[m].at = "send"
    /\ \E i \in Batch(m) : Invalid(log[m][i])
    /\ upload' = [upload EXCEPT ![m] = NoUpload]
    /\ unheard' = (unheard \/ upload[m].index > 1)
    /\ UNCHANGED <<log, done, stored, ahead, announced, refusals>>

(* A request fails before the commit or after it, or its answer is lost.      *)
UploadFails(m) ==
    /\ upload[m].at # "idle" /\ refusals < UploadFaults
    /\ upload' = [upload EXCEPT ![m] = NoUpload]
    /\ unheard' = (unheard \/ upload[m].index > 1 \/ upload[m].at = "stored")
    /\ refusals' = refusals + 1
    /\ UNCHANGED <<log, done, stored, ahead, announced>>

UploadNext ==
    \/ HubClock
    \/ \E m \in Machines :
        Record(m) \/ BeginUpload(m) \/ ReadBefore(m) \/ StoreBatch(m)
            \/ Answer(m) \/ Refuse(m) \/ UploadFails(m)

UploadSpec == UploadInit /\ [][UploadNext]_upvars

----------------------------------------------------------------------------
(* The state is well formed and a batch under way is within both limits.      *)
UploadTypeOK ==
    /\ log \in [Machines -> Seq(RecordKinds)]
    /\ \A m \in Machines :
        /\ done[m] \subseteq 1..Len(log[m])
        /\ upload[m].at \in {"idle", "send", "read", "stored"}
        /\ \A n \in DOMAIN upload[m].batches :
            LET batch == upload[m].batches[n] IN
            /\ batch # <<>> /\ Len(batch) <= BatchEvents
            /\ FoldLeft(LAMBDA s, i : s + Bytes(log[m][i]), 0, batch) <= BatchBytes
    /\ stored \subseteq Machines \X (1..MaxLog)
    /\ announced \subseteq 1..Len(Thresholds)
    /\ refusals \in 0..UploadFaults

(* What a machine has at the hub is an unbroken beginning of its log: no      *)
(* record is passed over by the division into batches, none overtakes one     *)
(* that is withheld or refused, nothing withheld is sent, and what is         *)
(* committed locally is at the hub (client.go:112-121, privacy.go:83-85).     *)
StoredInOrder ==
    \A m \in Machines :
        LET there == {i \in 1..Len(log[m]) : <<m, i>> \in stored} IN
        /\ \A i \in there : 1..i \subseteq there
        /\ \A i \in there : ~Withheld(m, <<i>>) /\ ~Invalid(log[m][i])
        /\ done[m] \subseteq there

(* Every stage the lifetime total has reached was announced by some upload,   *)
(* once all uploads have ended and none of them failed after it had stored a  *)
(* batch, although other machines store between the two reads of a batch and  *)
(* between two batches (database.go:720-838, client.go:125-138).              *)
EvolutionAnnounced ==
    (~unheard /\ \A m \in Machines : upload[m].at = "idle")
        => 1..Stage(Total) \subseteq announced
=============================================================================
