----------------------------- MODULE LocalProofs -----------------------------
(*****************************************************************************)
(* What is proved of an agent beside its log adapters: of its heartbeats,    *)
(* and of the snapshots of the tools' databases, for any sources, rows,      *)
(* writes and failures.                                                      *)
(*****************************************************************************)
EXTENDS MCLocal, CodexProofs, FoldLemmas, FiniteSetTheorems, SequenceTheorems, TLAPS

------------------------------------------------------------------------------
(*****************************************************************************)
(* What the machines page says of a machine is true of it. HealthIsHonest is *)
(* not inductive. HealthInv adds what the shown state is made of: where      *)
(* last_seen_at comes from (SeenIsContact), that no report under way, a late *)
(* one included, is ahead of the reads it speaks of (ReadSoFar), and how far *)
(* a pass and the timer after it can take an agent from its last heartbeat   *)
(* (ContactWithinPass).                                                      *)
(*****************************************************************************)

(* The longest the timer of the poll loop runs.                               *)
Ceiling == Larger(Interval, MaxBackoff)

Report == [sync : 0..MaxNow, ok : BOOLEAN, moved : BOOLEAN]
Shown == [sync : 0..MaxNow, ok : BOOLEAN]

(* The types HealthTypeOK leaves out.                                         *)
History == [beat : 0..MaxNow, stamp : 0..MaxNow + 1, read : [Sources -> 0..MaxNow],
            missed : BOOLEAN, faults : 0..HealthFaults]

Fields ==
    /\ pace \in 0..Ceiling
    /\ reports \in [DOMAIN reports -> Report]
    /\ beat \in [DOMAIN beat -> Report] /\ DOMAIN beat \subseteq found
    /\ rows \in [DOMAIN rows -> Shown]
    /\ past \in History

Formed == HealthTypeOK /\ Fields

LEMMA Numbers ==
    /\ Interval \in 0..Ceiling /\ Ceiling \in Nat /\ Ceiling = Larger(Interval, MaxBackoff)
    /\ MaxNow \in Nat /\ MaxNow >= 1 /\ PassTime \in Nat /\ HealthFaults \in Nat
BY HealthAssumption DEF Ceiling, Larger

LEMMA NextPaceBounded ==
    ASSUME NEW p \in 0..Ceiling
    PROVE  NextPace(p) \in 0..Ceiling
BY HealthAssumption DEF NextPace, Ceiling, Larger, Smaller

LEMMA FailingCount ==
    ASSUME NEW list, DOMAIN list \subseteq Sources
    PROVE  Cardinality({s \in DOMAIN list : ~list[s].ok}) \in 0..Cardinality(Sources)
<1> DEFINE F == {s \in DOMAIN list : ~list[s].ok}
<1>1. F \subseteq Sources /\ IsFiniteSet(Sources)
  BY HealthAssumption
<1> HIDE DEF F
<1>2. Cardinality(F) \in Nat /\ Cardinality(Sources) \in Nat
      /\ Cardinality(F) <= Cardinality(Sources)
  BY <1>1, FS_Subset, FS_CardinalityType
<1>3. Cardinality(F) \in 0..Cardinality(Sources)
  BY <1>2
<1> QED
  BY <1>3 DEF F

LEMMA FormedInit == HealthInit => Formed
<1> SUFFICES ASSUME HealthInit PROVE Formed
  OBVIOUS
<1>1. Cardinality(Sources) \in Nat
  BY FS_CardinalityType, HealthAssumption
<1>2. DOMAIN NoReports = {} /\ NoReports \in [DOMAIN NoReports -> Report]
      /\ NoReports \in [DOMAIN NoReports -> Shown]
  BY DEF NoReports
<1>3. HealthTypeOK
  BY <1>1, <1>2, Numbers DEF HealthInit, HealthTypeOK, Ceiling
<1>4. Fields
  BY <1>2, Numbers DEF HealthInit, Fields, History
<1> QED
  BY <1>3, <1>4 DEF Formed

LEMMA FormedStep ==
    ASSUME Formed, [HealthNext]_health
    PROVE  Formed'
<1> USE Numbers DEF Formed, HealthTypeOK, Fields
<1>n. DOMAIN NoReports = {} /\ NoReports \in [DOMAIN NoReports -> Report]
  BY DEF NoReports
<1>m. ASSUME NEW c \in BOOLEAN, Faulty \/ ~c
      PROVE  Missed(c) \in History
  <2>1. past.faults + (IF c THEN 1 ELSE 0) \in 0..HealthFaults
    BY <1>m DEF Faulty, History
  <2>2. Missed(c) = [[past EXCEPT !.missed = TRUE]
                     EXCEPT !.faults = past.faults + (IF c THEN 1 ELSE 0)]
    BY DEF Missed, History
  <2> QED
    BY <2>1, <2>2 DEF History
<1>s. ASSUME NEW p \in 0..Ceiling, SleepAt(p)
      PROVE  /\ agent' \in {"off", "sleep", "pass", "told"} /\ pace' \in 0..Ceiling
             /\ wait' \in 0..Ceiling /\ spent' \in 0..PassTime
             /\ reports' = NoReports
  BY <1>s DEF SleepAt
<1>r. ASSUME NEW list, DOMAIN list \subseteq found, list \in [DOMAIN list -> Report],
             RecordHeartbeat(list)
      PROVE  /\ seen' \in 0..MaxNow + 1 /\ errors' \in 0..Cardinality(Sources)
             /\ DOMAIN rows' \subseteq found /\ rows' \in [DOMAIN rows' -> Shown]
  <2>1. rows' \in [DOMAIN list -> Shown]
    BY <1>r DEF RecordHeartbeat, Replaced, Report, Shown
  <2>2. errors' \in 0..Cardinality(Sources)
    BY <1>r, FailingCount DEF RecordHeartbeat
  <2> QED
    BY <1>r, <2>1, <2>2 DEF RecordHeartbeat
<1>1. CASE Tick
  BY <1>1 DEF Tick, hub
<1>2. ASSUME NEW s \in Sources, Appear(s) PROVE Formed'
  BY <1>2 DEF Appear, loop, hub
<1>3. CASE HubDown
  BY <1>3, <1>m, <1>s, <1>n, NextPaceBounded DEF HubDown, hub
<1>4. CASE Collect
  <2>1. PICK ok \in SUBSET found, known \in {TRUE} \cup {~Faulty} : \E moved \in SUBSET ok :
           /\ reports' = [s \in found |-> [sync |-> Reported(s, s \in ok, known),
                                           ok |-> s \in ok, moved |-> s \in moved]]
           /\ past' = [past EXCEPT
                   !.read = [s \in Sources |-> IF s \in ok THEN now ELSE @[s]],
                   !.faults = @ + (IF known THEN 0 ELSE 1)]
    BY <1>4 DEF Collect
  <2>2. \A s \in found : Reported(s, s \in ok, known) \in 0..MaxNow
    BY DEF Reported
  <2>3. DOMAIN reports' = found /\ reports' \in [found -> Report]
    BY <2>1, <2>2 DEF Report
  <2>4. [s \in Sources |-> IF s \in ok THEN now ELSE past.read[s]] \in [Sources -> 0..MaxNow]
    BY DEF History
  <2>5. past.faults + (IF known THEN 0 ELSE 1) \in 0..HealthFaults
    <3>1. past.faults \in 0..HealthFaults
      BY DEF History
    <3>2. ~known => past.faults < HealthFaults
      BY DEF Faulty
    <3>3. CASE known
      BY <3>1, <3>3
    <3>4. CASE ~known
      BY <3>1, <3>2, <3>4
    <3> QED
      BY <3>3, <3>4
  <2>6. past' \in History
    BY <2>1, <2>4, <2>5 DEF History
  <2> QED
    BY <1>4, <2>3, <2>6 DEF Collect, hub
<1>5. CASE Heartbeat
  <2>1. /\ seen' \in 0..MaxNow + 1 /\ errors' \in 0..Cardinality(Sources)
        /\ DOMAIN rows' \subseteq found /\ rows' \in [DOMAIN rows' -> Shown]
    BY <1>5, <1>r DEF Heartbeat, hub
  <2>2. past' \in History
    <3>1. [past EXCEPT !.beat = now, !.missed = FALSE] \in History
      <4>1. [past EXCEPT !.beat = now] \in History
        BY DEF History
      <4>2. [past EXCEPT !.beat = now, !.missed = FALSE]
              = [[past EXCEPT !.beat = now] EXCEPT !.missed = FALSE]
        BY DEF History
      <4> QED
        BY <4>1, <4>2 DEF History
    <3> QED
      BY <1>5, <1>m, <3>1 DEF Heartbeat
  <2>3. beat' \in [DOMAIN beat' -> Report] /\ DOMAIN beat' \subseteq found
    BY <1>5, <1>n DEF Heartbeat
  <2>4. agent' = "told"
    BY <1>5 DEF Heartbeat
  <2> QED
    BY <1>5, <2>1, <2>2, <2>3, <2>4 DEF Heartbeat
<1>6. CASE LateHeartbeat
  <2>1. past' \in History
    BY <1>6 DEF LateHeartbeat, History
  <2>2. /\ seen' \in 0..MaxNow + 1 /\ errors' \in 0..Cardinality(Sources)
        /\ DOMAIN rows' \subseteq found /\ rows' \in [DOMAIN rows' -> Shown]
    BY <1>6, <1>r DEF LateHeartbeat
  <2> QED
    BY <1>6, <1>n, <2>1, <2>2 DEF LateHeartbeat, loop
<1>7. CASE Finish
  <2>1. synced' \in [Sources -> 0..MaxNow]
    BY <1>7 DEF Finish
  <2>2. \E p \in 0..Ceiling : SleepAt(p)
    BY <1>7, NextPaceBounded DEF Finish
  <2>3. [s \in Sources |-> IF synced'[s] # synced[s] THEN now ELSE past.read[s]]
           \in [Sources -> 0..MaxNow]
    BY DEF History
  <2>4. seen' \in 0..MaxNow + 1 /\ past' \in History
    <3>1. CASE /\ UNCHANGED seen
               /\ past' = [past EXCEPT !.read = [s \in Sources |->
                     IF synced'[s] # synced[s] THEN now ELSE @[s]]]
      BY <3>1, <2>3 DEF History
    <3>2. ASSUME NEW instant \in {now, now + 1}, seen' = Larger(seen, instant),
                 past' = [past EXCEPT !.stamp = Larger(@, instant),
                     !.read = [s \in Sources |-> IF synced'[s] # synced[s]
                                                 THEN now ELSE @[s]]]
          PROVE  seen' \in 0..MaxNow + 1 /\ past' \in History
      <4>1. past.stamp \in 0..MaxNow + 1 /\ instant \in 0..MaxNow + 1
        BY DEF History
      <4>2. Larger(past.stamp, instant) \in 0..MaxNow + 1 /\ Larger(seen, instant) \in 0..MaxNow + 1
        BY <4>1 DEF Larger
      <4> QED
        BY <3>2, <4>2, <2>3 DEF History
    <3> QED
      BY <1>7, <3>1, <3>2 DEF Finish
  <2> QED
    BY <1>7, <1>s, <1>n, <2>1, <2>2, <2>4 DEF Finish
<1>8. CASE UploadLost
  <2>1. \E p \in 0..Ceiling : SleepAt(p)
    BY <1>8, NextPaceBounded DEF UploadLost
  <2>2. past' \in History
    BY <1>8 DEF UploadLost, Faulty, History
  <2> QED
    BY <1>8, <1>s, <1>n, <2>1, <2>2 DEF UploadLost, hub
<1>9. CASE Stop
  <2>1. past' \in History
    BY <1>9, <1>m DEF Stop
  <2>2. /\ agent' = "off" /\ reports' = NoReports
        /\ wait' \in 0..Ceiling /\ spent' \in 0..PassTime /\ pace' \in 0..Ceiling
    BY <1>9 DEF Stop
  <2> QED
    BY <1>9, <2>1, <2>2, <1>n DEF Stop, hub
<1>10. CASE Start
  BY <1>10 DEF Start, hub
<1>11. CASE UNCHANGED health
  BY <1>11 DEF health
<1> QED
  BY <1>1, <1>2, <1>3, <1>4, <1>5, <1>6, <1>7, <1>8, <1>9, <1>10, <1>11 DEF HealthNext

(* The agent's and the hub's view of a machine keep their types; the timer    *)
(* never runs longer than the larger of interval and ceiling, and no source   *)
(* is reported that was not discovered (nextAgentFailureInterval,             *)
(* RecordHeartbeat).                                                          *)
THEOREM HealthTypeCorrect == HealthSpec => []HealthTypeOK
<1>1. HealthSpec => []Formed
  BY FormedInit, FormedStep, PTL DEF HealthSpec
<1>2. Formed => HealthTypeOK
  BY DEF Formed
<1> QED
  BY <1>1, <1>2, PTL

-----------------------------------------------------------------------------

(* last_seen_at is never behind the last heartbeat, and never ahead of every  *)
(* contact: a heartbeat takes back what an event stamped ahead has raised.    *)
SeenIsContact == past.beat <= seen /\ seen <= Larger(past.beat, past.stamp)

LEMMA SeenStep ==
    ASSUME Formed, SeenIsContact, [HealthNext]_health
    PROVE  SeenIsContact'
<1> USE DEF SeenIsContact
<1>t. /\ past.beat \in Nat /\ past.stamp \in Nat /\ seen \in Nat /\ now \in Nat
      /\ past \in History
  BY Numbers DEF Formed, HealthTypeOK, Fields, History
<1>1. ASSUME seen' = seen, past'.beat = past.beat, past'.stamp = past.stamp
      PROVE  SeenIsContact'
  BY <1>1
<1>2. ASSUME seen' = now, past'.beat = now, past'.stamp = past.stamp
      PROVE  SeenIsContact'
  BY <1>2, <1>t DEF Larger
<1>m. \A c : Missed(c).beat = past.beat /\ Missed(c).stamp = past.stamp
  BY <1>t DEF Missed, History
<1>3. CASE Heartbeat
  BY <1>3, <1>1, <1>2, <1>m, <1>t DEF Heartbeat, RecordHeartbeat, hub, History
<1>4. CASE LateHeartbeat
  BY <1>4, <1>2, <1>t DEF LateHeartbeat, RecordHeartbeat, History
<1>5. CASE Finish
  <2>1. CASE UNCHANGED seen /\ past'.beat = past.beat /\ past'.stamp = past.stamp
    BY <2>1, <1>1
  <2>2. ASSUME NEW instant \in {now, now + 1}, seen' = Larger(seen, instant),
               past'.stamp = Larger(past.stamp, instant), past'.beat = past.beat
        PROVE  SeenIsContact'
    BY <2>2, <1>t DEF Larger
  <2>3. \/ UNCHANGED seen /\ past'.beat = past.beat /\ past'.stamp = past.stamp
        \/ \E instant \in {now, now + 1} :
             /\ seen' = Larger(seen, instant) /\ past'.beat = past.beat
             /\ past'.stamp = Larger(past.stamp, instant)
    BY <1>5, <1>t DEF Finish, History
  <2> QED
    BY <2>1, <2>2, <2>3
<1>6. CASE Tick \/ HubDown \/ Collect \/ UploadLost \/ Stop \/ Start
           \/ \E s \in Sources : Appear(s)
  <2>1. seen' = seen
    BY <1>6 DEF Tick, HubDown, Collect, UploadLost, Stop, Start, Appear, hub
  <2>2. past'.beat = past.beat /\ past'.stamp = past.stamp
    BY <1>6, <1>m, <1>t DEF Tick, HubDown, Collect, UploadLost, Stop, Start, Appear, History
  <2> QED
    BY <2>1, <2>2, <1>1
<1>7. CASE UNCHANGED health
  BY <1>7, <1>1 DEF health
<1> QED
  BY <1>3, <1>4, <1>5, <1>6, <1>7 DEF HealthNext

-----------------------------------------------------------------------------

(* Whatever carries a time of sync, stored or on its way, carries one at      *)
(* which the source had been read.                                            *)
ReadSoFar ==
    /\ past.beat <= now
    /\ \A s \in Sources : synced[s] <= past.read[s] /\ past.read[s] <= now
    /\ \A s \in DOMAIN reports : reports[s].sync <= past.read[s]
    /\ \A s \in DOMAIN beat : beat[s].sync <= past.read[s]
    /\ SyncWasRead

LEMMA ReadStep ==
    ASSUME Formed, ReadSoFar, [HealthNext]_health
    PROVE  ReadSoFar'
<1> USE DEF ReadSoFar, SyncWasRead
<1>t. /\ past.beat \in Nat /\ now \in Nat /\ past \in History
      /\ \A s \in Sources : past.read[s] \in Nat /\ synced[s] \in Nat
  BY Numbers DEF Formed, HealthTypeOK, Fields, History
<1>d. DOMAIN reports \subseteq Sources /\ DOMAIN beat \subseteq Sources
      /\ DOMAIN rows \subseteq Sources
  BY DEF Formed, HealthTypeOK, Fields
<1>y. /\ \A s \in DOMAIN reports : reports[s].sync \in Nat
      /\ \A s \in DOMAIN beat : beat[s].sync \in Nat
      /\ \A s \in DOMAIN rows : rows[s].sync \in Nat
  BY Numbers DEF Formed, Fields, Report, Shown
<1>n. DOMAIN NoReports = {}
  BY DEF NoReports
<1>m. \A c : Missed(c).beat = past.beat /\ Missed(c).read = past.read
  BY <1>t DEF Missed, History
<1>1. ASSUME past'.beat = past.beat, past'.read = past.read, now' \in {now, now + 1},
             synced' = synced, reports' \in {reports, NoReports},
             beat' \in {beat, NoReports, reports}, rows' = rows
      PROVE  ReadSoFar'
  BY <1>1, <1>t, <1>n
<1>2. ASSUME NEW list \in {reports, beat}, RecordHeartbeat(list), now' = now,
             past'.beat = now, past'.read = past.read, synced' = synced,
             reports' = reports, beat' = NoReports
      PROVE  ReadSoFar'
  <2>1. rows' = Replaced(list)
    BY <1>2 DEF RecordHeartbeat
  <2>2. \A s \in DOMAIN rows' : s \in DOMAIN list /\ rows'[s].sync = list[s].sync
    BY <2>1 DEF Replaced
  <2>3. SyncWasRead'
    BY <1>2, <2>2
  <2> QED
    BY <1>2, <2>3, <1>t, <1>n
<1>3. CASE Collect
  <2>1. PICK ok \in SUBSET found, known \in {TRUE} \cup {~Faulty} : \E moved \in SUBSET ok :
           /\ reports' = [s \in found |-> [sync |-> Reported(s, s \in ok, known),
                                           ok |-> s \in ok, moved |-> s \in moved]]
           /\ past' = [past EXCEPT
                   !.read = [s \in Sources |-> IF s \in ok THEN now ELSE @[s]],
                   !.faults = @ + (IF known THEN 0 ELSE 1)]
    BY <1>3 DEF Collect
  <2>2. past'.beat = past.beat
        /\ past'.read = [s \in Sources |-> IF s \in ok THEN now ELSE past.read[s]]
    BY <2>1, <1>t DEF History
  <2>3. \A s \in Sources : past.read[s] <= past'.read[s] /\ past'.read[s] <= now
    BY <2>2, <1>t
  <2>4. DOMAIN reports' = found /\ \A s \in found : reports'[s].sync = Reported(s, s \in ok, known)
    BY <2>1
  <2>5. \A s \in found : Reported(s, s \in ok, known) <= past'.read[s]
    <3> TAKE s \in found
    <3>1. s \in Sources
      BY DEF Formed, HealthTypeOK
    <3>2. CASE s \in ok
      BY <3>1, <3>2, <2>2, <1>t DEF Reported
    <3>3. CASE s \notin ok
      BY <3>1, <3>3, <2>2, <1>t DEF Reported
    <3> QED
      BY <3>2, <3>3
  <2>6. now' = now /\ synced' = synced /\ beat' = beat /\ rows' = rows
    BY <1>3 DEF Collect, hub
  <2>r. \A s \in Sources : past'.read[s] \in Nat
    BY <2>2, <1>t
  <2>7. \A s \in Sources : synced'[s] <= past'.read[s] /\ past'.read[s] <= now'
    BY <2>3, <2>6, <2>r, <1>t
  <2>8. \A s \in DOMAIN beat' : beat'[s].sync <= past'.read[s]
    BY <2>3, <2>6, <2>r, <1>t, <1>d, <1>y
  <2>9. \A s \in DOMAIN rows' : rows'[s].sync <= past'.read[s]
    BY <2>3, <2>6, <2>r, <1>t, <1>d, <1>y
  <2> QED
    BY <2>2, <2>4, <2>5, <2>6, <2>7, <2>8, <2>9
<1>4. CASE Heartbeat
  <2>1. CASE Accepted(reports) /\ RecordHeartbeat(reports)
             /\ past' = [past EXCEPT !.beat = now, !.missed = FALSE] /\ beat' = NoReports
    <3>1. past'.beat = now /\ past'.read = past.read
      BY <2>1, <1>t DEF History
    <3> QED
      BY <1>4, <2>1, <3>1, <1>2 DEF Heartbeat
  <2>2. CASE (past' = Missed(FALSE) \/ past' = Missed(TRUE))
             /\ beat' \in {NoReports, reports} /\ UNCHANGED hub
    BY <1>4, <2>2, <1>1, <1>m DEF Heartbeat, hub
  <2> QED
    BY <1>4, <2>1, <2>2 DEF Heartbeat
<1>5. CASE LateHeartbeat
  <2>1. past'.beat = now /\ past'.read = past.read
    BY <1>5, <1>t DEF LateHeartbeat, History
  <2> QED
    BY <1>5, <2>1, <1>2 DEF LateHeartbeat, loop
<1>6. CASE Finish
  <2>1. past'.beat = past.beat
        /\ past'.read = [s \in Sources |-> IF synced'[s] # synced[s] THEN now ELSE past.read[s]]
    BY <1>6, <1>t DEF Finish, History
  <2>2. \A s \in Sources : synced'[s] \in {now, synced[s]}
    BY <1>6 DEF Finish
  <2>3. \A s \in Sources : past.read[s] <= past'.read[s] /\ past'.read[s] <= now
    BY <2>1, <1>t
  <2>4. now' = now /\ reports' = NoReports /\ beat' = beat /\ rows' = rows
    BY <1>6 DEF Finish, SleepAt
  <2>r. \A s \in Sources : past'.read[s] \in Nat
    BY <2>1, <1>t
  <2>5. \A s \in Sources : synced'[s] <= past'.read[s] /\ past'.read[s] <= now'
    BY <2>1, <2>2, <2>3, <2>4, <1>t
  <2>6. \A s \in DOMAIN beat' : beat'[s].sync <= past'.read[s]
    BY <2>3, <2>4, <2>r, <1>t, <1>d, <1>y
  <2>7. \A s \in DOMAIN rows' : rows'[s].sync <= past'.read[s]
    BY <2>3, <2>4, <2>r, <1>t, <1>d, <1>y
  <2> QED
    BY <2>1, <2>4, <2>5, <2>6, <2>7, <1>n
<1>7. CASE Tick \/ HubDown \/ UploadLost \/ Stop \/ Start
           \/ \E s \in Sources : Appear(s)
  <2>1. past'.beat = past.beat /\ past'.read = past.read
    BY <1>7, <1>m, <1>t DEF Tick, HubDown, UploadLost, Stop, Start, Appear, History
  <2>2. /\ now' \in {now, now + 1} /\ synced' = synced /\ reports' \in {reports, NoReports}
        /\ beat' = beat /\ rows' = rows
    BY <1>7 DEF Tick, HubDown, UploadLost, Stop, Start, Appear, hub, SleepAt
  <2> QED
    BY <2>1, <2>2, <1>1
<1>8. CASE UNCHANGED health
  BY <1>8, <1>1 DEF health
<1> QED
  BY <1>3, <1>4, <1>5, <1>6, <1>7, <1>8 DEF HealthNext

LEMMA CountStep ==
    ASSUME RowsMatchCount, [HealthNext]_health
    PROVE  RowsMatchCount'
<1>1. ASSUME NEW list, RecordHeartbeat(list) PROVE RowsMatchCount'
  <2>1. DOMAIN rows' = DOMAIN list /\ \A s \in DOMAIN list : rows'[s].ok = list[s].ok
    BY <1>1 DEF RecordHeartbeat, Replaced
  <2>2. {s \in DOMAIN rows' : ~rows'[s].ok} = {s \in DOMAIN list : ~list[s].ok}
    BY <2>1
  <2> QED
    BY <1>1, <2>2 DEF RecordHeartbeat, RowsMatchCount
<1>2. CASE UNCHANGED <<errors, rows>>
  BY <1>2 DEF RowsMatchCount
<1>3. CASE UNCHANGED health
  BY <1>2, <1>3 DEF health
<1> QED
  BY <1>1, <1>2, <1>3 DEF HealthNext, Tick, HubDown, Collect, Heartbeat, LateHeartbeat, Finish,
     UploadLost, Stop, Start, Appear, hub

-----------------------------------------------------------------------------

(* How old the last heartbeat is at each step of the loop, while none was     *)
(* missed: the rest of its pass, the time the timer has run, and the next     *)
(* pass until its own heartbeat.                                              *)
ContactWithinPass ==
    /\ agent = "off" => past.missed
    /\ agent = "pass" => wait = 0
    /\ ~past.missed =>
        /\ agent = "told" => now - past.beat <= spent
        /\ agent = "sleep" => now - past.beat <= PassTime + pace - wait
        /\ agent = "pass" => now - past.beat <= PassTime + pace + spent

LEMMA ContactStep ==
    ASSUME Formed, ContactWithinPass, past.beat <= now, [HealthNext]_health
    PROVE  ContactWithinPass'
<1> USE DEF ContactWithinPass
<1>t. /\ past.beat \in Nat /\ now \in Nat /\ past \in History /\ PassTime \in Nat
      /\ pace \in Nat /\ wait \in Nat /\ spent \in Nat /\ spent <= PassTime
  BY Numbers DEF Formed, HealthTypeOK, Fields, History
<1>m. \A c : Missed(c).missed = TRUE
  BY <1>t DEF Missed, History
<1>1. ASSUME past'.missed, agent' # "pass" \/ wait' = 0 PROVE ContactWithinPass'
  BY <1>1
<1>2. CASE Tick
  <2>1. past' = past /\ agent' = agent /\ now' = now + 1 /\ pace' = pace
    BY <1>2 DEF Tick
  <2>2. CASE agent = "sleep" /\ wait > 0 /\ wait' = wait - 1
    BY <2>1, <2>2, <1>t
  <2>3. CASE agent \in {"pass", "told"} /\ spent' = spent + 1 /\ UNCHANGED wait
    BY <2>1, <2>3, <1>t
  <2>4. CASE agent = "off"
    BY <2>1, <2>4
  <2> QED
    BY <1>2, <2>2, <2>3, <2>4 DEF Tick
<1>3. ASSUME NEW s \in Sources, Appear(s) PROVE ContactWithinPass'
  BY <1>3 DEF Appear, loop
<1>4. CASE HubDown
  BY <1>4, <1>1, <1>m DEF HubDown, SleepAt
<1>5. CASE Collect
  <2>1. past'.beat = past.beat /\ past'.missed = past.missed
    BY <1>5, <1>t DEF Collect, History
  <2> QED
    BY <1>5, <2>1, <1>t DEF Collect
<1>6. CASE Heartbeat
  <2>1. CASE past' = [past EXCEPT !.beat = now, !.missed = FALSE]
    <3>1. past'.beat = now /\ past'.missed = FALSE
      BY <2>1, <1>t DEF History
    <3> QED
      BY <1>6, <3>1, <1>t DEF Heartbeat
  <2>2. CASE past' = Missed(FALSE) \/ past' = Missed(TRUE)
    BY <1>6, <2>2, <1>1, <1>m DEF Heartbeat
  <2> QED
    BY <1>6, <2>1, <2>2 DEF Heartbeat
<1>7. CASE LateHeartbeat
  <2>1. past'.beat = now /\ past'.missed = past.missed
    BY <1>7, <1>t DEF LateHeartbeat, History
  <2>2. now' = now /\ agent' = agent /\ wait' = wait /\ pace' = pace /\ spent' = spent
    BY <1>7 DEF LateHeartbeat, loop
  <2> QED
    BY <2>1, <2>2, <1>t
<1>8. CASE Finish
  <2>1. past'.beat = past.beat /\ past'.missed = past.missed
    BY <1>8, <1>t DEF Finish, History
  <2>2. agent = "told" /\ agent' = "sleep" /\ wait' = pace' /\ now' = now
    BY <1>8 DEF Finish, SleepAt
  <2>3. pace' \in Nat
    BY FormedStep, Numbers DEF Formed, Fields
  <2> QED
    BY <2>1, <2>2, <2>3, <1>t
<1>9. CASE UploadLost
  <2>1. past'.beat = past.beat /\ past'.missed = past.missed
    BY <1>9, <1>t DEF UploadLost, History
  <2>2. agent = "told" /\ agent' = "sleep" /\ wait' = pace' /\ now' = now
    BY <1>9 DEF UploadLost, SleepAt
  <2>3. pace' \in Nat
    BY FormedStep, Numbers DEF Formed, Fields
  <2> QED
    BY <2>1, <2>2, <2>3, <1>t
<1>10. CASE Stop
  BY <1>10, <1>1, <1>m DEF Stop
<1>11. CASE Start
  BY <1>11 DEF Start
<1>12. CASE UNCHANGED health
  BY <1>12 DEF health
<1> QED
  BY <1>2, <1>3, <1>4, <1>5, <1>6, <1>7, <1>8, <1>9, <1>10, <1>11, <1>12 DEF HealthNext

-----------------------------------------------------------------------------

HealthInv == Formed /\ SeenIsContact /\ ReadSoFar /\ RowsMatchCount /\ ContactWithinPass

LEMMA HealthInvInit == HealthInit => HealthInv
<1> SUFFICES ASSUME HealthInit PROVE HealthInv
  OBVIOUS
<1>1. past.beat = 0 /\ past.stamp = 0 /\ seen = 0 /\ now = 1 /\ errors = 0
      /\ past.missed = TRUE /\ past.read = [s \in Sources |-> 0] /\ agent = "sleep"
      /\ synced = [s \in Sources |-> 0]
  BY DEF HealthInit
<1>2. DOMAIN reports = {} /\ DOMAIN beat = {} /\ DOMAIN rows = {}
  BY DEF HealthInit, NoReports
<1>3. RowsMatchCount
  <2>1. {s \in DOMAIN rows : ~rows[s].ok} = {}
    BY <1>2
  <2> QED
    BY <2>1, <1>1, FS_EmptySet DEF RowsMatchCount
<1>4. SeenIsContact
  BY <1>1 DEF SeenIsContact, Larger
<1>5. ReadSoFar
  BY <1>1, <1>2 DEF ReadSoFar, SyncWasRead
<1>6. ContactWithinPass
  BY <1>1 DEF ContactWithinPass
<1> QED
  BY <1>3, <1>4, <1>5, <1>6, FormedInit DEF HealthInv

LEMMA HealthInvStep == HealthInv /\ [HealthNext]_health => HealthInv'
BY FormedStep, SeenStep, ReadStep, CountStep, ContactStep DEF HealthInv, ReadSoFar

LEMMA HealthInvHolds == HealthSpec => []HealthInv
BY HealthInvInit, HealthInvStep, PTL DEF HealthSpec

LEMMA ContactShown == HealthInv => StatusFollowsContact
<1> SUFFICES ASSUME HealthInv PROVE StatusFollowsContact
  OBVIOUS
<1>t. /\ past.beat \in Nat /\ past.stamp \in Nat /\ seen \in Nat /\ now \in Nat
      /\ ConnectedWindow \in Nat /\ StaleWindow \in Nat
  BY Numbers, HealthAssumption DEF HealthInv, Formed, HealthTypeOK, Fields, History
<1>1. past.beat <= seen /\ seen <= Larger(past.beat, past.stamp)
  BY DEF HealthInv, SeenIsContact
<1>2. now - past.beat <= ConnectedWindow => Status(seen) = "Connected"
  BY <1>1, <1>t DEF Status
<1>3. Status(seen) = "Connected" => now - Larger(past.beat, past.stamp) <= ConnectedWindow
  <2>1. Status(seen) = "Connected" => now - seen <= ConnectedWindow
    BY DEF Status
  <2> QED
    BY <2>1, <1>1, <1>t DEF Larger
<1> QED
  BY <1>2, <1>3 DEF StatusFollowsContact

(* The longest wait and two passes fit into the stale window; five minutes    *)
(* (main.go:40) into thirty (dashboard.go:20) unless the interval is longer.  *)
PollsWithinStaleWindow == 2 * PassTime + Larger(Interval, MaxBackoff) <= StaleWindow

LEMMA RunningShown == HealthInv /\ PollsWithinStaleWindow => RunningNeverOffline
<1> SUFFICES ASSUME HealthInv, PollsWithinStaleWindow, agent # "off", ~past.missed
             PROVE  Status(seen) # "Offline"
  BY DEF RunningNeverOffline
<1>t. /\ past.beat \in Nat /\ seen \in Nat /\ now \in Nat
      /\ ConnectedWindow \in Nat /\ StaleWindow \in Nat /\ PassTime \in Nat
      /\ pace \in 0..Ceiling /\ wait \in Nat /\ spent \in 0..PassTime /\ Ceiling \in Nat
      /\ agent \in {"off", "sleep", "pass", "told"}
  BY Numbers, HealthAssumption DEF HealthInv, Formed, HealthTypeOK, Fields, History
<1>1. past.beat <= seen
  BY DEF HealthInv, SeenIsContact
<1>2. now - past.beat <= 2 * PassTime + Ceiling
  BY <1>t DEF HealthInv, ContactWithinPass
<1>3. now - seen <= StaleWindow
  BY <1>t, <1>1, <1>2 DEF PollsWithinStaleWindow, Ceiling
<1> QED
  BY <1>3 DEF Status

(* Whatever the interval: a machine is Connected for the window after a       *)
(* heartbeat and never without a contact in it, no row claims a sync that was *)
(* not a read, and the count of failing sources is that of the rows           *)
(* (MachinesAt, machineStatus, RecordHeartbeat).                              *)
THEOREM StatusIsHonest ==
    HealthSpec => [](StatusFollowsContact /\ SyncWasRead /\ RowsMatchCount)
<1>1. HealthInv => StatusFollowsContact /\ SyncWasRead /\ RowsMatchCount
  BY ContactShown DEF HealthInv, ReadSoFar
<1> QED
  BY <1>1, HealthInvHolds, PTL

(* An agent that runs and whose heartbeats arrive is never shown Offline, at  *)
(* any depth of backoff, when its waits fit into the stale window; with an    *)
(* interval longer than the window the page says Offline of a machine that    *)
(* is only waiting (runAgent's loop, machineStatus).                          *)
THEOREM HealthStaysHonest ==
    ASSUME PollsWithinStaleWindow
    PROVE  HealthSpec => []HealthIsHonest
<1>1. HealthInv => HealthIsHonest
  BY ContactShown, RunningShown DEF HealthInv, ReadSoFar, HealthIsHonest
<1> QED
  BY <1>1, HealthInvHolds, PTL

------------------------------------------------------------------------------
(*****************************************************************************)
(* The databases. A poll is calm while nothing has been written since its    *)
(* signature was taken: what it has read is then what the source is          *)
(* (CalmHolds). A write moves the signature, so that no calm poll and no     *)
(* valid entry survives it (ToolWrites), and an entry that is valid at rest  *)
(* was made by a calm poll (EntryTrue). antigravity signs again after its    *)
(* read; there the invariant follows the generations before the cursor       *)
(* instead (GenerationsKept).                                                *)
(*****************************************************************************)

-----------------------------------------------------------------------------
\* The greatest of zero, or any, and some positive numbers.
LEMMA MaxOfSome ==
  ASSUME NEW n \in Nat, NEW S \in SUBSET (0..n), S # {}
  PROVE  Max(S) \in S /\ \A y \in S : Max(S) >= y
<1> DEFINE T == S \cap (1..n)
<1>1. \E x \in S : \A y \in S : x >= y
  <2>1. CASE T = {}
    <3>1. \A y \in S : y = 0
      BY <2>1
    <3>2. 0 \in S
      BY <3>1
    <3> QED
      BY <3>1, <3>2
  <2>2. CASE T # {}
    <3>1. Max(T) \in T /\ \A y \in T : Max(T) >= y
      BY <2>2, MaxExists
    <3>2. \A y \in S : y \in T \/ y = 0
      OBVIOUS
    <3> DEFINE t == Max(T)
    <3>3. t \in S /\ t \in Nat /\ \A y \in S : t >= y
      BY <3>1, <3>2
    <3> QED
      BY <3>3
  <2> QED
    BY <2>1, <2>2
<1> QED
  BY <1>1 DEF Max

\* The greater of two numbers.
LEMMA MaxOfTwo ==
  ASSUME NEW x \in Int
  PROVE  Max({0, x}) = IF x > 0 THEN x ELSE 0
<1> DEFINE m == IF x > 0 THEN x ELSE 0
<1>1. m \in {0, x} /\ \A y \in {0, x} : m >= y
  OBVIOUS
<1>2. \A k \in {0, x} : (\A y \in {0, x} : k >= y) => k = m
  OBVIOUS
<1> QED
  BY <1>1, <1>2 DEF Max

\* SumRows is the sum of the rows.
LEMMA SumRowsIs == \A amounts : SumRows(amounts) = Sum(amounts, Rows)
<1> SUFFICES ASSUME NEW amounts PROVE SumRows(amounts) = Sum(amounts, Rows)
  OBVIOUS
<1>1. SumRows(amounts) = SumOn(amounts, Rows)[Rows]
  BY DEF SumRows, FoldSet, MapThenFoldSet, SumOn, SumRec, OneOf
<1> QED
  BY <1>1, SumUnfold

\* There are finitely many rows, and the residual is none of them.
LEMMA RowsFinite == IsFiniteSet(Rows) /\ Rows \subseteq Nat \ {0} /\ Residual \notin Rows
<1>1. 1 \in Int /\ MaxRow \in Int
  BY DatabaseAssumption
<1>2. IsFiniteSet(1..MaxRow)
  BY <1>1, FS_Interval
<1> QED
  BY <1>2 DEF Rows, Residual

\* Rows that count for more have a greater sum.
LEMMA SumRowsGrows ==
  ASSUME NEW v \in [Rows -> Nat], NEW w \in [Rows -> Nat], \A r \in Rows : v[r] <= w[r]
  PROVE  SumRows(v) \in Nat /\ SumRows(w) \in Nat /\ SumRows(v) <= SumRows(w)
<1>1. Weighs(v, Rows) /\ Weighs(w, Rows) /\ AtMost(v, w, Rows)
  BY DEF Weighs, AtMost
<1>2. Sum(v, Rows) \in Nat /\ Sum(w, Rows) \in Nat
  BY <1>1, RowsFinite, SumSteps DEF SumFacts
<1>3. Sum(v, Rows) <= Sum(w, Rows)
  BY <1>1, RowsFinite, SumGrows
<1> QED
  BY <1>2, <1>3, SumRowsIs

\* The sum of the rows is a natural number.
LEMMA SumRowsNat == \A v \in [Rows -> Nat] : SumRows(v) \in Nat
<1> SUFFICES ASSUME NEW v \in [Rows -> Nat] PROVE SumRows(v) \in Nat
  OBVIOUS
<1>1. \A r \in Rows : v[r] <= v[r]
  OBVIOUS
<1> QED
  BY <1>1, SumRowsGrows

-----------------------------------------------------------------------------
Contents == [rows : [Rows -> Nat], main : [Rows -> Nat], open : Nat, lines : Nat]
Deliveries == UNION {[R -> Nat] : R \in SUBSET (Rows \cup {Residual})}
Handles == [id : Nat, db : Nat]

DbTyped ==
  /\ tool \in Tools /\ writes \in 0..MaxWrites /\ stamp = writes + 1 /\ dbFaults \in 0..DbFaults
  /\ content \in Seq(Contents) /\ Len(content) \in 1..2
  /\ tail \in [Rows -> Nat] /\ (tool # "copilot" => tail = NoRows)
  /\ handle \in Handles
  /\ entry = NoEntry \/ entry \in Entries
  /\ poll = NoPoll \/ poll \in Polls
  /\ dbCursor \in 0..(MaxWrites + MaxRow + 1)
  /\ dbHub \in [Rows \cup {Residual} -> 0..MaxWrites]
  /\ late \subseteq Rows /\ hidden \in BOOLEAN

\* Nothing counts more than was written.
Bounded(c) ==
  /\ \A r \in Rows : c.rows[r] + c.open <= writes /\ c.main[r] <= writes
  /\ c.lines <= writes /\ (tool # "hermes" => c.open = 0)

FilesBounded ==
  /\ \A i \in 1..Len(content) : Bounded(content[i])
  /\ \A r \in Rows : tail[r] <= writes

HandleTrue == handle # NoHandle => 1 <= handle.id /\ handle.id <= handle.db /\ handle.db <= Len(content)

PollHolds(p) ==
  /\ 1 <= p.stamp /\ p.stamp <= stamp /\ p.id <= Len(content) /\ p.db <= Len(content)
  /\ p.at # "stat" => 1 <= p.id
  /\ p.at \in {"session", "rows"} => p.id <= p.db
  /\ p.at \in {"wal", "copied"} => tool = "zcode"
  /\ p.at = "session" => tool = "hermes"
  /\ \A r \in Rows : p.copy[r] <= MaxWrites
  /\ p.at = "rows" /\ tool = "hermes" =>
       p.session <= MaxWrites + SumRows(content[p.db].rows)
  /\ p.at \in {"store", "upload"} =>
       /\ p.result <= MaxWrites + MaxRow + 1
       /\ \A r \in DOMAIN p.events : p.events[r] <= MaxWrites
  /\ p.read <= stamp

PollTrue == poll # NoPoll => PollHolds(poll)

\* Events that show a source as it is.
Matches(e) ==
  /\ \A r \in Rows : Current.rows[r] > 0 => r \in DOMAIN e /\ e[r] = Current.rows[r]
  /\ tool = "hermes" /\ Current.open > 0 => Residual \in DOMAIN e /\ e[Residual] = Current.open

\* A poll during which nothing has been written.
CalmHolds(p) ==
  p.stamp = stamp /\ tool # "antigravity" =>
    /\ p.at # "stat" => p.id = Len(content)
    /\ p.at \in {"session", "rows"} => p.db = Len(content)
    /\ p.at = "rows" /\ tool = "hermes" =>
         p.session = Current.open + SumRows(Current.rows)
    /\ p.at = "wal" => p.copy = Current.main
    /\ p.at = "copied" => p.copy = Current.rows
    /\ p.at \in {"store", "upload"} => Matches(p.events)

PollCalm == poll # NoPoll => CalmHolds(poll)

SourceShown ==
  /\ \A r \in Rows : Current.rows[r] > 0 => dbHub[r] = Current.rows[r]
  /\ tool = "hermes" /\ Current.open > 0 => dbHub[Residual] = Current.open

EntryTrue ==
  /\ entry # NoEntry => 1 <= entry.stamp /\ entry.stamp <= stamp
  /\ poll # NoPoll /\ poll.at = "upload" =>
       /\ entry # NoEntry /\ ~entry.failed /\ entry.result = poll.result
       /\ tool # "antigravity" => entry.stamp = poll.stamp
  /\ poll = NoPoll /\ Hit /\ ~entry.failed /\ tool # "antigravity" => SourceShown

\* antigravity: generations are written once, and a cursor is behind one that
\* is written; what is before the cursor is on the hub, or was written late.
Written(c, k) == k > 1 => k - 1 \in Rows /\ c.rows[k - 1] > 0

GenPoll(p) ==
  /\ p.at \in {"store", "upload"} =>
       /\ Written(Current, p.result)
       /\ \A r \in DOMAIN p.events : r \in Rows /\ p.events[r] = 1
       /\ \A r \in Rows \ late : dbCursor <= r /\ r < p.result /\ Current.rows[r] > 0
              => r \in DOMAIN p.events
  /\ p.at = "store" /\ p.read = stamp =>
       \A r \in Rows : Current.rows[r] > 0 => r < p.result

GenerationsKept ==
  tool = "antigravity" =>
    /\ \A i \in 1..Len(content), r \in Rows :
         /\ content[i].rows[r] \in {0, 1} /\ content[i].rows[r] <= Current.rows[r]
         /\ \A s \in Rows : s > r /\ content[i].rows[s] > 0 /\ content[i].rows[r] = 0
                /\ Current.rows[r] > 0 => r \in late
    /\ Written(Current, dbCursor)
    /\ \A r \in Rows \ late : r < dbCursor /\ Current.rows[r] > 0 => dbHub[r] = 1
    /\ poll # NoPoll => GenPoll(poll)
    /\ entry # NoEntry /\ ~entry.failed /\ entry.stamp = stamp /\ ~hidden =>
         \A r \in Rows : Current.rows[r] > 0 => r < entry.result

DbInv ==
  /\ DbTyped /\ FilesBounded /\ HandleTrue /\ PollTrue /\ PollCalm /\ EntryTrue
  /\ GenerationsKept

\* A file of the source, the current one included.
LEMMA FilesTyped ==
  ASSUME DbTyped
  PROVE  /\ Len(content) \in Nat /\ Len(content) \in {1, 2} /\ Len(content) \in 1..Len(content)
         /\ \A i \in 1..Len(content) : content[i] \in Contents
         /\ Current \in Contents
         /\ Current.rows \in [Rows -> Nat] /\ Current.main \in [Rows -> Nat]
         /\ Current.open \in Nat /\ Current.lines \in Nat
<1>1. content \in Seq(Contents) /\ Len(content) \in 1..2
  BY DEF DbTyped
<1>2. \A i \in 1..Len(content) : content[i] \in Contents
  BY <1>1
<1>3. Len(content) \in Nat /\ Len(content) \in {1, 2} /\ Len(content) \in 1..Len(content)
  BY SMTT(40), <1>1
<1>4. Current \in Contents
  BY <1>2, <1>3 DEF Current
<1> QED
  BY <1>2, <1>3, <1>4 DEF Contents

\* What the invariant says of a calm source is what a run checks.
LEMMA DbInvShows == DbInv => HubShowsSource
<1> SUFFICES ASSUME DbInv, Hit, ~entry.failed, ~hidden, poll = NoPoll
             PROVE  /\ \A r \in Rows \ late : Current.rows[r] > 0 => dbHub[r] = Current.rows[r]
                    /\ tool = "hermes" /\ Current.open > 0 => dbHub[Residual] = Current.open
  BY DEF HubShowsSource
<1>1. CASE tool # "antigravity"
  BY <1>1 DEF DbInv, EntryTrue, SourceShown
<1>2. CASE tool = "antigravity"
  <2>1. entry # NoEntry /\ entry.stamp = stamp /\ entry.result = dbCursor
    BY DEF Hit
  <2>2. \A r \in Rows : Current.rows[r] > 0 => r < dbCursor
    BY <1>2, <2>1 DEF DbInv, GenerationsKept, GenPoll
  <2>3. \A r \in Rows : Current.rows[r] \in {0, 1}
    <3>1. DbTyped
      BY DEF DbInv
    <3>2. Len(content) \in 1..Len(content)
      BY <3>1, FilesTyped
    <3> QED
      BY <1>2, <3>2 DEF DbInv, GenerationsKept, GenPoll, Current
  <2>4. \A r \in Rows \ late : r < dbCursor /\ Current.rows[r] > 0 => dbHub[r] = 1
    BY <1>2 DEF DbInv, GenerationsKept, GenPoll
  <2> QED
    BY <1>2, <2>2, <2>3, <2>4
<1> QED
  BY <1>1, <1>2

\* The invariant holds of a new database.
LEMMA DbInitHolds == DbInit => DbInv
<1> SUFFICES ASSUME DbInit PROVE DbInv
  OBVIOUS
<1> USE DatabaseAssumption
<1> DEFINE c == [rows |-> NoRows, main |-> NoRows, open |-> 0, lines |-> 0]
<1>1. /\ tool \in Tools /\ content = <<c>> /\ tail = NoRows /\ stamp = 1 /\ handle = NoHandle
      /\ entry = NoEntry /\ poll = NoPoll /\ dbCursor = 0
      /\ dbHub = [r \in Rows \cup {Residual} |-> 0]
      /\ hidden = FALSE /\ late = {} /\ writes = 0 /\ dbFaults = 0
  BY DEF DbInit
<1>2. NoRows \in [Rows -> Nat] /\ \A r \in Rows : NoRows[r] = 0
  BY DEF NoRows
<1>3. c \in Contents /\ c.rows = NoRows /\ c.main = NoRows /\ c.open = 0 /\ c.lines = 0
  BY <1>2 DEF Contents
<1> HIDE DEF c
<1>4. content \in Seq(Contents) /\ Len(content) = 1 /\ content[1] = c /\ Current = c
  BY <1>1, <1>3 DEF Current
<1>5. DbTyped
  <2>1. handle \in Handles
    BY <1>1 DEF NoHandle, Handles
  <2>2. dbCursor \in 0..(MaxWrites + MaxRow + 1) /\ writes \in 0..MaxWrites /\ dbFaults \in 0..DbFaults
    BY <1>1
  <2>3. dbHub \in [Rows \cup {Residual} -> 0..MaxWrites]
    BY <1>1
  <2>4. tail \in [Rows -> Nat] /\ (tool # "copilot" => tail = NoRows)
    BY <1>1, <1>2
  <2>5. Len(content) \in 1..2
    BY <1>4
  <2>6. stamp = writes + 1
    BY <1>1
  <2>7. hidden \in BOOLEAN
    BY <1>1, Zenon
  <2>8. late \subseteq Rows
    BY <1>1, Zenon
  <2> QED
    BY <1>1, <1>4, <2>1, <2>2, <2>3, <2>4, <2>5, <2>6, <2>7, <2>8 DEF DbTyped
<1>6. FilesBounded
  BY <1>1, <1>2, <1>3, <1>4 DEF FilesBounded, Bounded
<1>7. ~Hit
  BY <1>1 DEF Hit
<1>8. GenerationsKept
  <2>1. Written(Current, dbCursor)
    BY <1>1 DEF Written
  <2>2. \A i \in 1..Len(content) : content[i] = c
    BY <1>4
  <2> QED
    BY <1>1, <1>2, <1>3, <1>4, <2>1, <2>2 DEF GenerationsKept, GenPoll
<1> QED
  BY <1>1, <1>5, <1>6, <1>7, <1>8 DEF DbInv, HandleTrue, PollTrue, PollHolds, PollCalm, CalmHolds, EntryTrue

-----------------------------------------------------------------------------
\* The sums of the files do not shrink.
Grown == \A i \in 1..Len(content) : SumRows(content[i].rows) <= SumRows(content'[i].rows)

\* A write moves the signature: nothing the agent holds is signed with it.
LEMMA ToolWrites ==
  ASSUME DbInv, writes < MaxWrites, writes' = writes + 1, stamp' = stamp + 1, Tool,
         content' \in Seq(Contents), Len(content) <= Len(content'), Len(content') <= 2,
         tool = "hermes" => Grown,
         tail' \in [Rows -> Nat], tool # "copilot" => tail' = NoRows, late' \subseteq Rows,
         FilesBounded', GenerationsKept'
  PROVE  DbInv'
<1> USE DatabaseAssumption
<1>1. UNCHANGED <<tool, handle, entry, poll, dbCursor, dbHub, hidden, dbFaults>>
  BY DEF Tool
<1>2. DbTyped
  BY DEF DbInv
<1>3. Len(content) \in {1, 2} /\ Len(content') \in {1, 2} /\ stamp \in Nat /\ writes \in 0..MaxWrites
  <2>1. Len(content) \in {1, 2}
    BY <1>2, FilesTyped
  <2>2. Len(content') \in {1, 2}
    <3> DEFINE n == Len(content)  k == Len(content')
    <3>1. n \in {1, 2} /\ k \in Nat /\ n <= k /\ k <= 2
      BY <2>1
    <3> HIDE DEF n, k
    <3>2. k \in {1, 2}
      BY <3>1
    <3> QED
      BY <3>2 DEF k
  <2>3. stamp \in Nat /\ writes \in 0..MaxWrites
    BY <1>2 DEF DbTyped
  <2> QED
    BY <2>1, <2>2, <2>3
<1>4. DbTyped'
  BY <1>1, <1>2, <1>3 DEF DbTyped
<1>5. HandleTrue'
  <2>1. HandleTrue /\ handle \in Handles
    BY <1>2 DEF DbInv, DbTyped
  <2> QED
    BY <1>1, <1>3, <2>1 DEF HandleTrue, Handles
<1>6. PollTrue'
  <2>1. PollTrue /\ (poll # NoPoll => poll \in Polls)
    BY <1>2 DEF DbInv, DbTyped
  <2> SUFFICES ASSUME poll # NoPoll PROVE PollTrue'
    BY <1>1 DEF PollTrue, PollHolds
  <2>2. poll \in Polls
    BY <2>1
  <2>3. ASSUME poll.at = "rows", tool = "hermes"
        PROVE  poll.session <= MaxWrites + SumRows(content'[poll.db].rows)
    <3>1. poll.db \in 1..Len(content) /\ poll.session <= MaxWrites + SumRows(content[poll.db].rows)
      BY <1>3, <2>1, <2>2, <2>3 DEF PollTrue, PollHolds, Polls
    <3>2. SumRows(content[poll.db].rows) <= SumRows(content'[poll.db].rows)
      BY <2>3, <3>1 DEF Grown
    <3>3. content[poll.db].rows \in [Rows -> Nat] /\ content'[poll.db].rows \in [Rows -> Nat]
      <4>1. content \in Seq(Contents) /\ poll.db \in 1..Len(content')
        BY <1>2, <1>3, <3>1 DEF DbTyped
      <4>2. content[poll.db] \in Contents /\ content'[poll.db] \in Contents
        BY <3>1, <4>1
      <4> QED
        BY <4>2 DEF Contents
    <3>4. SumRows(content[poll.db].rows) \in Nat /\ SumRows(content'[poll.db].rows) \in Nat
      BY <3>3, SumRowsNat
    <3>5. poll.session \in Nat
      BY <2>2 DEF Polls
    <3> QED
      BY <3>1, <3>2, <3>4, <3>5
  <2>4. poll.stamp \in Nat /\ poll.id \in Nat /\ poll.db \in Nat /\ poll.read \in Nat
    BY <2>2 DEF Polls
  <2> QED
    BY <1>1, <1>3, <2>1, <2>3, <2>4 DEF PollTrue, PollHolds
<1>7. PollCalm'
  <2>1. poll # NoPoll => poll.stamp < stamp'
    <3>1. poll # NoPoll => poll.stamp \in Nat
      BY <1>2 DEF DbTyped, Polls
    <3> QED
      BY <1>3, <3>1 DEF DbInv, PollTrue, PollHolds
  <2>2. poll # NoPoll => poll.stamp # stamp'
    <3>1. poll # NoPoll => poll.stamp \in Nat
      BY <1>2 DEF DbTyped, Polls
    <3> QED
      BY <1>3, <2>1, <3>1
  <2> QED
    BY <1>1, <2>2 DEF PollCalm, CalmHolds
<1>8. EntryTrue'
  <2>1. entry # NoEntry => entry.stamp \in Nat /\ 1 <= entry.stamp /\ entry.stamp <= stamp
    BY <1>2 DEF DbInv, DbTyped, EntryTrue, Entries
  <2>2. entry # NoEntry => entry.stamp <= stamp' /\ entry.stamp # stamp'
    BY <1>3, <2>1
  <2>3. ~Hit'
    BY <1>1, <2>2 DEF Hit
  <2>4. poll # NoPoll /\ poll.at = "upload" =>
          /\ entry # NoEntry /\ ~entry.failed /\ entry.result = poll.result
          /\ tool # "antigravity" => entry.stamp = poll.stamp
    BY DEF DbInv, EntryTrue
  <2> QED
    BY <1>1, <2>1, <2>2, <2>3, <2>4 DEF EntryTrue
<1> QED
  BY <1>4, <1>5, <1>6, <1>7, <1>8 DEF DbInv

\* A write changes the file at the path.
LEMMA WriteIs ==
  ASSUME DbTyped, NEW c \in Contents, WriteTo(c)
  PROVE  /\ writes < MaxWrites /\ writes' = writes + 1 /\ stamp' = stamp + 1 /\ Tool
         /\ content' \in Seq(Contents) /\ Len(content') = Len(content) /\ Current' = c
         /\ \A i \in 1..Len(content) :
              content'[i] = IF i = Len(content) THEN c ELSE content[i]
<1>1. content \in Seq(Contents) /\ Len(content) \in 1..Len(content)
  BY FilesTyped DEF DbTyped
<1>2. content' = [content EXCEPT ![Len(content)] = c]
  BY DEF WriteTo
<1>3. content' \in Seq(Contents) /\ Len(content') = Len(content)
  BY <1>1, <1>2
<1>4. \A i \in 1..Len(content) : content'[i] = IF i = Len(content) THEN c ELSE content[i]
  BY <1>1, <1>2
<1>5. Current' = c
  BY <1>1, <1>3, <1>4 DEF Current
<1> QED
  BY <1>3, <1>4, <1>5 DEF WriteTo

\* What a write leaves in a file stays within what has been written.
Within(c, n) ==
  /\ \A r \in Rows : c.rows[r] + c.open <= n /\ c.main[r] <= n
  /\ c.lines <= n /\ (tool # "hermes" => c.open = 0)

\* A write of the tool that keeps its files' history keeps the invariant.
LEMMA WriteKeeps ==
  ASSUME DbInv, NEW c \in Contents, WriteTo(c), Within(c, writes + 1),
         tool = "hermes" => SumRows(Current.rows) <= SumRows(c.rows),
         tail' \in [Rows -> Nat], tool # "copilot" => tail' = NoRows,
         \A r \in Rows : tail'[r] <= writes + 1,
         late' \subseteq Rows, tool = "antigravity" => GenerationsKept'
  PROVE  DbInv'
<1> USE DatabaseAssumption
<1>1. DbTyped
  BY DEF DbInv
<1>2. /\ writes < MaxWrites /\ writes' = writes + 1 /\ stamp' = stamp + 1 /\ Tool
      /\ content' \in Seq(Contents) /\ Len(content') = Len(content) /\ Current' = c
      /\ \A i \in 1..Len(content) : content'[i] = IF i = Len(content) THEN c ELSE content[i]
  BY <1>1, WriteIs
<1>3. tool' = tool
  BY <1>2 DEF Tool
<1>4. Len(content) \in {1, 2} /\ writes \in Nat
  BY <1>1, FilesTyped DEF DbTyped
<1>5. FilesBounded'
  <2>1. ASSUME NEW i \in 1..Len(content) PROVE Within(content'[i], writes + 1)
    <3>1. CASE i = Len(content)
      BY <1>2, <3>1
    <3>2. CASE i # Len(content)
      <4>1. content'[i] = content[i] /\ Bounded(content[i])
        BY <1>2, <3>2 DEF DbInv, FilesBounded
      <4>2. content[i] \in Contents
        BY <1>1, FilesTyped
      <4> DEFINE d == content[i]
      <4>3. d \in Contents /\ Bounded(d)
        BY <4>1, <4>2
      <4> HIDE DEF d
      <4>4. Within(d, writes + 1)
        BY <1>4, <4>3 DEF Within, Bounded, Contents
      <4> QED
        BY <4>1, <4>4 DEF d
    <3> QED
      BY <3>1, <3>2
  <2>2. \A i \in 1..Len(content') : Bounded(content[i])'
    BY <1>2, <1>3, <2>1 DEF Within, Bounded
  <2>3. \A r \in Rows : tail'[r] <= writes'
    BY <1>2
  <2> QED
    BY <2>2, <2>3 DEF FilesBounded
<1>6. tool = "hermes" => Grown
  <2> SUFFICES ASSUME tool = "hermes", NEW i \in 1..Len(content)
               PROVE  SumRows(content[i].rows) <= SumRows(content'[i].rows)
    BY DEF Grown
  <2>1. content[i].rows \in [Rows -> Nat]
    BY <1>1, FilesTyped DEF Contents
  <2>2. SumRows(content[i].rows) \in Nat
    BY <2>1, SumRowsNat
  <2>3. CASE i = Len(content)
    BY <1>2, <2>3 DEF Current
  <2>4. CASE i # Len(content)
    <3>1. content'[i] = content[i]
      BY <1>2, <2>4
    <3> QED
      BY <2>2, <3>1
  <2> QED
    BY <2>3, <2>4
<1>7. GenerationsKept'
  BY <1>3 DEF GenerationsKept, GenPoll
<1>8. Len(content) <= Len(content') /\ Len(content') <= 2
  BY <1>2, <1>4
<1> QED
  BY <1>2, <1>5, <1>6, <1>7, <1>8, ToolWrites

\* What the file at the path holds.
LEMMA CurrentIs ==
  ASSUME DbInv
  PROVE  /\ Current \in Contents /\ Current.rows \in [Rows -> Nat]
         /\ Current.main \in [Rows -> Nat] /\ Current.open \in Nat /\ Current.lines \in Nat
         /\ Bounded(Current) /\ writes \in Nat /\ writes <= MaxWrites
         /\ tail \in [Rows -> Nat] /\ (tool # "copilot" => tail = NoRows)
         /\ (\A r \in Rows : tail[r] <= writes) /\ late \subseteq Rows
<1>1. DbTyped
  BY DEF DbInv
<1>2. Bounded(Current)
  <2>1. Len(content) \in 1..Len(content)
    BY <1>1, FilesTyped
  <2> QED
    BY <2>1 DEF DbInv, FilesBounded, Current
<1>3. writes \in Nat /\ writes <= MaxWrites
  BY <1>1, DatabaseAssumption DEF DbTyped
<1> QED
  BY <1>1, <1>2, <1>3, FilesTyped DEF DbInv, DbTyped, FilesBounded

\* A step of the tool: a row comes.
LEMMA AddKeeps == ASSUME DbInv, NEW r \in Rows, Add(r) PROVE DbInv'
<1> DEFINE c == [Current EXCEPT !.rows[r] = @ + 1]
<1>1. /\ tool \in {"opencode", "zcode"} /\ WriteTo(c) /\ UNCHANGED <<tail, late>>
  BY DEF Add
<1>2. c \in Contents /\ Within(c, writes + 1)
  <2>1. c \in Contents
    BY CurrentIs DEF Contents
  <2>2. c.main = Current.main /\ c.open = 0 /\ c.lines = Current.lines
    BY <1>1, CurrentIs DEF Contents, Bounded
  <2>3. \A q \in Rows : c.rows[q] <= writes + 1
    BY CurrentIs DEF Contents, Bounded
  <2> HIDE DEF c
  <2>4. \A q \in Rows : c.rows[q] \in Nat
    BY <2>1 DEF Contents
  <2>5. \A q \in Rows : c.main[q] <= writes + 1
    BY <2>2, CurrentIs DEF Bounded
  <2>6. c.lines <= writes + 1
    BY <2>2, CurrentIs DEF Bounded
  <2> QED
    BY <2>1, <2>2, <2>3, <2>4, <2>5, <2>6 DEF Within
<1> HIDE DEF c
<1>3. \A q \in Rows : tail'[q] <= writes + 1
  BY <1>1, CurrentIs
<1> QED
  BY <1>1, <1>2, <1>3, CurrentIs, WriteKeeps

\* The write-ahead log goes into the main file.
LEMMA CheckpointKeeps == ASSUME DbInv, Checkpoint PROVE DbInv'
<1> DEFINE c == [Current EXCEPT !.main = Current.rows]
<1>1. tool = "zcode" /\ WriteTo(c) /\ UNCHANGED <<tail, late>>
  BY DEF Checkpoint
<1>2. c \in Contents /\ Within(c, writes + 1)
  <2>1. c \in Contents
    BY CurrentIs DEF Contents
  <2>2. c.main = Current.rows /\ c.rows = Current.rows /\ c.open = 0 /\ c.lines = Current.lines
    BY <1>1, CurrentIs DEF Contents, Bounded
  <2> HIDE DEF c
  <2>3. \A q \in Rows : c.rows[q] \in Nat /\ c.rows[q] <= writes + 1
    BY <2>2, CurrentIs DEF Bounded
  <2>4. c.lines <= writes + 1
    BY <2>2, CurrentIs DEF Bounded
  <2> QED
    BY <2>1, <2>2, <2>3, <2>4 DEF Within
<1> HIDE DEF c
<1>3. \A q \in Rows : tail'[q] <= writes + 1
  BY <1>1, CurrentIs
<1> QED
  BY <1>1, <1>2, <1>3, CurrentIs, WriteKeeps

\* A session spends what no row has yet.
LEMMA SpendKeeps == ASSUME DbInv, Spend PROVE DbInv'
<1> DEFINE c == [Current EXCEPT !.open = @ + 1]
<1>1. tool = "hermes" /\ WriteTo(c) /\ UNCHANGED <<tail, late>>
  BY DEF Spend
<1>2. c \in Contents /\ Within(c, writes + 1) /\ c.rows = Current.rows
  <2>1. c \in Contents
    BY CurrentIs DEF Contents
  <2>2. /\ c.main = Current.main /\ c.rows = Current.rows /\ c.open = Current.open + 1
        /\ c.lines = Current.lines
    BY CurrentIs DEF Contents
  <2> HIDE DEF c
  <2>3. \A q \in Rows : c.rows[q] + c.open <= writes + 1 /\ c.main[q] <= writes + 1
    <3> TAKE q \in Rows
    <3>1. Current.rows[q] \in Nat /\ Current.rows[q] + Current.open <= writes
      BY CurrentIs DEF Bounded
    <3>2. Current.main[q] \in Nat /\ Current.main[q] <= writes
      BY CurrentIs DEF Bounded
    <3> QED
      BY <2>2, <3>1, <3>2, CurrentIs
  <2>4. c.lines <= writes + 1
    BY <2>2, CurrentIs DEF Bounded
  <2> QED
    BY <1>1, <2>1, <2>2, <2>3, <2>4 DEF Within
<1> HIDE DEF c
<1>3. \A q \in Rows : tail'[q] <= writes + 1
  BY <1>1, CurrentIs
<1>4. SumRows(Current.rows) <= SumRows(c.rows)
  BY <1>2, CurrentIs, SumRowsNat
<1> QED
  BY <1>1, <1>2, <1>3, <1>4, CurrentIs, WriteKeeps

\* What was spent is attributed to a row.
LEMMA AttributeKeeps == ASSUME DbInv, NEW r \in Rows, Attribute(r) PROVE DbInv'
<1> DEFINE c == [Current EXCEPT !.rows[r] = @ + Current.open, !.open = 0]
<1>1. tool = "hermes" /\ WriteTo(c) /\ UNCHANGED <<tail, late>>
  BY DEF Attribute
<1>2. /\ c \in Contents /\ Within(c, writes + 1)
      /\ \A q \in Rows : Current.rows[q] <= c.rows[q]
  <2> DEFINE amounts == [Current.rows EXCEPT ![r] = @ + Current.open]
  <2>1. amounts \in [Rows -> Nat]
    BY CurrentIs
  <2>2. \A q \in Rows : amounts[q] = IF q = r THEN Current.rows[q] + Current.open ELSE Current.rows[q]
    BY CurrentIs
  <2> HIDE DEF amounts
  <2>3. c = [Current EXCEPT !.rows = amounts, !.open = 0]
    BY CurrentIs DEF amounts, Contents
  <2>4. c \in Contents
    BY <2>1, <2>3, CurrentIs DEF Contents
  <2>5. c.main = Current.main /\ c.rows = amounts /\ c.open = 0 /\ c.lines = Current.lines
    BY <2>3, CurrentIs DEF Contents
  <2> HIDE DEF c
  <2>6. \A q \in Rows : /\ c.rows[q] + c.open <= writes + 1 /\ c.main[q] <= writes + 1
                        /\ Current.rows[q] <= c.rows[q]
    <3> TAKE q \in Rows
    <3>1. Current.rows[q] \in Nat /\ Current.rows[q] + Current.open <= writes
      BY CurrentIs DEF Bounded
    <3>2. Current.main[q] \in Nat /\ Current.main[q] <= writes
      BY CurrentIs DEF Bounded
    <3> QED
      BY <2>2, <2>5, <3>1, <3>2, CurrentIs
  <2>7. c.lines <= writes + 1
    BY <2>5, CurrentIs DEF Bounded
  <2> QED
    BY <1>1, <2>4, <2>5, <2>6, <2>7 DEF Within
<1> HIDE DEF c
<1>3. \A q \in Rows : tail'[q] <= writes + 1
  BY <1>1, CurrentIs
<1>4. SumRows(Current.rows) <= SumRows(c.rows)
  <2>1. c.rows \in [Rows -> Nat]
    BY <1>2 DEF Contents
  <2> QED
    BY <1>2, <2>1, CurrentIs, SumRowsGrows
<1> QED
  BY <1>1, <1>2, <1>3, <1>4, CurrentIs, WriteKeeps

\* A record is begun, in a transaction that is still open.
LEMMA BeginRecordKeeps == ASSUME DbInv, NEW r \in Rows, BeginRecord(r) PROVE DbInv'
<1> DEFINE t == [Current.rows EXCEPT ![r] = @ + 1]
<1>1. tool = "copilot" /\ tail' = t /\ WriteTo(Current) /\ late' = late
  BY DEF BeginRecord
<1>2. t \in [Rows -> Nat]
  BY CurrentIs
<1>3. \A q \in Rows : t[q] <= writes + 1
  BY CurrentIs DEF Bounded
<1> HIDE DEF t
<1>4. Within(Current, writes + 1)
  <2> DEFINE c == Current
  <2>1. c \in Contents /\ Bounded(c) /\ writes \in Nat
    BY CurrentIs
  <2> HIDE DEF c
  <2>2. Within(c, writes + 1)
    BY <2>1 DEF Within, Bounded, Contents
  <2> QED
    BY <2>2 DEF c
<1> QED
  BY <1>1, <1>2, <1>3, <1>4, CurrentIs, WriteKeeps

\* The open transaction is committed.
LEMMA EndRecordKeeps == ASSUME DbInv, EndRecord PROVE DbInv'
<1> DEFINE c == [Current EXCEPT !.rows = tail, !.lines = @ + 1]
<1>1. tool = "copilot" /\ tail' = NoRows /\ WriteTo(c) /\ late' = late
  BY CurrentIs DEF EndRecord
<1>2. c \in Contents /\ Within(c, writes + 1)
  <2>1. c \in Contents
    <3>1. Current.lines + 1 \in Nat /\ tail \in [Rows -> Nat] /\ Current \in Contents
      BY CurrentIs
    <3>2. c = [Current EXCEPT !.rows = tail, !.lines = Current.lines + 1]
      BY <3>1 DEF Contents
    <3> DEFINE n == Current.lines + 1
    <3> HIDE DEF n, c
    <3> QED
      BY <3>1, <3>2 DEF Contents, n
  <2>2. c.main = Current.main /\ c.rows = tail /\ c.open = 0 /\ c.lines = Current.lines + 1
    BY <1>1, CurrentIs DEF Contents, Bounded
  <2> HIDE DEF c
  <2>3. \A q \in Rows : c.rows[q] \in Nat /\ c.rows[q] <= writes + 1 /\ c.main[q] <= writes + 1
    BY <2>2, CurrentIs DEF Bounded
  <2>4. c.lines <= writes + 1
    BY <2>2, CurrentIs DEF Bounded
  <2> QED
    BY <2>1, <2>2, <2>3, <2>4 DEF Within
<1> HIDE DEF c
<1>3. NoRows \in [Rows -> Nat] /\ \A q \in Rows : NoRows[q] = 0
  BY DEF NoRows
<1> QED
  BY <1>1, <1>2, <1>3, CurrentIs, WriteKeeps

\* A generation is written: it has a row after it only when it is late.
LEMMA GenerateKept ==
  ASSUME DbInv, NEW r \in Rows, Generate(r)
  PROVE  GenerationsKept'
<1> USE DatabaseAssumption
<1> DEFINE c == [Current EXCEPT !.rows[r] = 1]
<1>1. /\ tool = "antigravity" /\ Current.rows[r] = 0 /\ WriteTo(c)
      /\ late' = IF \E s \in Rows : s > r /\ Current.rows[s] > 0 THEN late \cup {r} ELSE late
  BY DEF Generate
<1>2. c \in Contents /\ \A q \in Rows : c.rows[q] = IF q = r THEN 1 ELSE Current.rows[q]
  <2>1. c \in Contents
    BY CurrentIs DEF Contents
  <2>2. \A q \in Rows : c.rows[q] = IF q = r THEN 1 ELSE Current.rows[q]
    BY CurrentIs DEF Contents
  <2> QED
    BY <2>1, <2>2
<1> HIDE DEF c
<1>3. DbTyped
  BY DEF DbInv
<1>4. /\ stamp' = stamp + 1 /\ Tool /\ Len(content') = Len(content) /\ Current' = c
      /\ \A i \in 1..Len(content) : content'[i] = IF i = Len(content) THEN c ELSE content[i]
  BY <1>1, <1>2, <1>3, WriteIs
<1>5. UNCHANGED <<tool, handle, entry, poll, dbCursor, dbHub, hidden>>
  BY <1>4 DEF Tool
<1>6. /\ \A i \in 1..Len(content), q \in Rows :
           /\ content[i].rows[q] \in {0, 1} /\ content[i].rows[q] <= Current.rows[q]
           /\ \A s \in Rows : s > q /\ content[i].rows[s] > 0 /\ content[i].rows[q] = 0
                  /\ Current.rows[q] > 0 => q \in late
      /\ Written(Current, dbCursor)
      /\ \A q \in Rows \ late : q < dbCursor /\ Current.rows[q] > 0 => dbHub[q] = 1
      /\ poll # NoPoll /\ poll.at \in {"store", "upload"} =>
           /\ Written(Current, poll.result)
           /\ \A q \in DOMAIN poll.events : q \in Rows /\ poll.events[q] = 1
           /\ \A q \in Rows \ late : dbCursor <= q /\ q < poll.result /\ Current.rows[q] > 0
                  => q \in DOMAIN poll.events
  BY <1>1 DEF DbInv, GenerationsKept, GenPoll
<1>7. late \subseteq late' /\ \A q \in Rows \ {r} : c.rows[q] = Current.rows[q]
  BY <1>1, <1>2
<1>8. Rows \subseteq Nat \ {0} /\ \A q \in Rows : Current.rows[q] \in Nat
  BY RowsFinite, CurrentIs
\* What is before a cursor has a written row after it.
<1>9. ASSUME NEW k \in Nat, Written(Current, k)
      PROVE  Written(c, k) /\ (r < k => r \in late')
  <2>1. Written(c, k)
    BY <1>2, <1>9 DEF Written
  <2>2. ASSUME r < k PROVE r \in late'
    <3>1. r \in Nat /\ r >= 1
      BY <1>8
    <3>2. k - 1 \in Rows /\ Current.rows[k - 1] > 0
      BY <1>9, <2>2, <3>1 DEF Written
    <3>3. k - 1 # r
      BY <1>1, <3>2
    <3>4. k - 1 > r
      BY <2>2, <3>1, <3>3
    <3> QED
      BY <1>1, <3>2, <3>4
  <2> QED
    BY <2>1, <2>2
<1>10. ASSUME NEW i \in 1..Len(content), NEW q \in Rows
       PROVE  /\ content'[i].rows[q] \in {0, 1} /\ content'[i].rows[q] <= c.rows[q]
              /\ \A s \in Rows : s > q /\ content'[i].rows[s] > 0 /\ content'[i].rows[q] = 0
                     /\ c.rows[q] > 0 => q \in late'
  <2>1. Len(content) \in 1..Len(content)
    BY <1>3, FilesTyped
  <2>2. \A s \in Rows : Current.rows[s] \in {0, 1}
    BY <1>6, <2>1 DEF Current
  <2>3. \A s \in Rows : c.rows[s] \in {0, 1} /\ Current.rows[s] <= c.rows[s]
    BY <1>1, <1>2, <2>2
  <2>4. CASE i = Len(content)
    BY <1>4, <2>3, <2>4
  <2>5. CASE i # Len(content)
    <3>1. content'[i] = content[i]
      BY <1>4, <2>5
    <3>2. \A s \in Rows : content[i].rows[s] \in {0, 1} /\ content[i].rows[s] <= Current.rows[s]
      BY <1>6
    <3>3. content[i].rows[q] <= c.rows[q]
      BY <2>2, <2>3, <3>2
    <3>4. ASSUME NEW s \in Rows, s > q, content[i].rows[s] > 0, content[i].rows[q] = 0, c.rows[q] > 0
          PROVE  q \in late'
      <4>1. CASE q = r
        <5>1. Current.rows[s] > 0
          BY <2>2, <3>2, <3>4
        <5> QED
          BY <1>1, <3>4, <4>1, <5>1
      <4>2. CASE q # r
        BY <1>6, <1>7, <3>4, <4>2
      <4> QED
        BY <4>1, <4>2
    <3> QED
      BY <3>1, <3>2, <3>3, <3>4
  <2> QED
    BY <2>4, <2>5
<1>11. dbCursor \in Nat /\ (poll # NoPoll => poll.result \in Nat)
  BY <1>3 DEF DbTyped, Polls
<1>12. Written(c, dbCursor) /\ \A q \in Rows \ late' : q < dbCursor /\ c.rows[q] > 0 => dbHub[q] = 1
  BY <1>6, <1>7, <1>9, <1>11
<1>13. poll # NoPoll /\ poll.at \in {"store", "upload"} =>
         /\ Written(c, poll.result)
         /\ \A q \in DOMAIN poll.events : q \in Rows /\ poll.events[q] = 1
         /\ \A q \in Rows \ late' : dbCursor <= q /\ q < poll.result /\ c.rows[q] > 0
                => q \in DOMAIN poll.events
  BY <1>6, <1>7, <1>9, <1>11
<1>14. poll # NoPoll => poll.read # stamp'
  <2>1. poll # NoPoll => poll.read \in Nat /\ poll.read <= stamp
    BY <1>3 DEF DbInv, PollTrue, PollHolds, DbTyped, Polls
  <2>2. stamp \in Nat
    BY <1>3 DEF DbTyped
  <2> QED
    BY <1>4, <2>1, <2>2
<1>15. entry # NoEntry => entry.stamp # stamp'
  <2>1. entry # NoEntry => entry.stamp \in Nat /\ entry.stamp <= stamp
    BY <1>3 DEF DbInv, EntryTrue, DbTyped, Entries
  <2>2. stamp \in Nat
    BY <1>3 DEF DbTyped
  <2> QED
    BY <1>4, <2>1, <2>2
<1> QED
  BY <1>4, <1>5, <1>10, <1>12, <1>13, <1>14, <1>15 DEF GenerationsKept, GenPoll

\* A generation is rewritten in place.
LEMMA GenerateKeeps == ASSUME DbInv, NEW r \in Rows, Generate(r) PROVE DbInv'
<1> DEFINE c == [Current EXCEPT !.rows[r] = 1]
<1>1. /\ tool = "antigravity" /\ WriteTo(c) /\ tail' = tail
      /\ late' \in {late, late \cup {r}}
  BY DEF Generate
<1>2. c \in Contents /\ Within(c, writes + 1)
  <2>1. c \in Contents
    BY CurrentIs DEF Contents
  <2>2. /\ c.main = Current.main /\ c.open = 0 /\ c.lines = Current.lines
        /\ \A q \in Rows : c.rows[q] = IF q = r THEN 1 ELSE Current.rows[q]
    BY <1>1, CurrentIs DEF Contents, Bounded
  <2> HIDE DEF c
  <2>3. \A q \in Rows : c.rows[q] \in Nat /\ c.rows[q] <= writes + 1 /\ c.main[q] <= writes + 1
    BY <2>2, CurrentIs DEF Bounded
  <2>4. c.lines <= writes + 1
    BY <2>2, CurrentIs DEF Bounded
  <2> QED
    BY <2>1, <2>2, <2>3, <2>4 DEF Within
<1> HIDE DEF c
<1>3. \A q \in Rows : tail'[q] <= writes + 1
  BY <1>1, CurrentIs
<1>4. late' \subseteq Rows
  BY <1>1, CurrentIs
<1> QED
  BY <1>1, <1>2, <1>3, <1>4, CurrentIs, GenerateKept, WriteKeeps

\* A sequence with one more element.
LEMMA AppendToOne ==
  ASSUME NEW S, NEW s \in Seq(S), NEW e \in S, Len(s) = 1
  PROVE  /\ Append(s, e) \in Seq(S) /\ Len(Append(s, e)) = 2
         /\ Append(s, e)[1] = s[1] /\ Append(s, e)[2] = e
<1>1. Append(s, e) \in Seq(S) /\ Len(Append(s, e)) = 2
  OBVIOUS
<1>2. Append(s, e)[1] = s[1]
  OBVIOUS
<1>3. Append(s, e)[2] = e
  BY AppendProperties
<1> QED
  BY <1>1, <1>2, <1>3

\* Another file takes the place of the database.
LEMMA ReplaceFileKeeps == ASSUME DbInv, ReplaceFile PROVE DbInv'
<1> USE DatabaseAssumption
<1>1. /\ writes < MaxWrites /\ writes' = writes + 1 /\ stamp' = stamp + 1 /\ Tool
      /\ Len(content) = 1 /\ content' = Append(content, Current) /\ UNCHANGED <<tail, late>>
  BY DEF ReplaceFile
<1>2. DbTyped /\ content \in Seq(Contents) /\ Current \in Contents
  BY CurrentIs DEF DbInv, DbTyped
<1>3. /\ content' \in Seq(Contents) /\ Len(content') = 2 /\ content'[1] = Current
      /\ content'[2] = Current /\ content[1] = Current
  <2> DEFINE d == Current
  <2>1. content \in Seq(Contents) /\ Len(content) = 1 /\ d \in Contents /\ content' = Append(content, d)
    BY <1>1, <1>2
  <2>2. content[1] = d
    BY <1>1 DEF Current
  <2> HIDE DEF d
  <2>3. content' \in Seq(Contents) /\ Len(content') = 2
    BY SMTT(40), <2>1, AppendProperties
  <2>4. content'[1] = content[1] /\ content'[2] = d
    BY <2>1, AppendToOne
  <2> QED
    BY <2>2, <2>3, <2>4 DEF d
<1>4. Current' = Current
  BY <1>3 DEF Current
<1>5. UNCHANGED <<tool, handle, entry, poll, dbCursor, dbHub, hidden>>
  BY <1>1 DEF Tool
<1>6. FilesBounded'
  <2> DEFINE c == Current
  <2>1. c \in Contents /\ Bounded(c) /\ writes \in Nat
    BY CurrentIs
  <2> HIDE DEF c
  <2>2. Bounded(c)'
    BY <1>1, <1>4, <1>5, <2>1 DEF Bounded, Contents, c
  <2>3. \A i \in 1..Len(content') : content'[i] = Current'
    BY <1>3, <1>4
  <2>4. \A r \in Rows : tail'[r] <= writes'
    BY <1>1, CurrentIs
  <2>5. \A i \in 1..Len(content') : Bounded(content[i])'
    BY <2>2, <2>3 DEF Bounded, c
  <2> QED
    BY <2>4, <2>5 DEF FilesBounded
<1>7. tool = "hermes" => Grown
  <2>1. \A i \in 1..Len(content) : content'[i] = content[i]
    BY <1>1, <1>3
  <2>2. \A i \in 1..Len(content) : SumRows(content[i].rows) \in Nat
    BY <1>2, FilesTyped, SumRowsNat DEF Contents
  <2> QED
    BY <2>1, <2>2 DEF Grown
<1>8. GenerationsKept'
  <2> SUFFICES ASSUME tool = "antigravity" PROVE GenerationsKept'
    BY <1>5 DEF GenerationsKept, GenPoll
  <2>1. GenerationsKept
    BY DEF DbInv
  <2>2. \A i \in 1..Len(content') : content'[i] = Current
    BY <1>3
  <2>3. \A r \in Rows : Current.rows[r] \in {0, 1} /\ Current.rows[r] <= Current.rows[r]
    BY <1>1, <1>3, <2>1 DEF GenerationsKept, GenPoll
  <2>4. poll # NoPoll => poll.read # stamp'
    <3>1. poll # NoPoll => poll.read \in Nat /\ poll.read <= stamp
      BY <1>2 DEF DbInv, PollTrue, PollHolds, DbTyped, Polls
    <3>2. stamp \in Nat
      BY <1>2 DEF DbTyped
    <3> QED
      BY <1>1, <3>1, <3>2
  <2>5. entry # NoEntry => entry.stamp # stamp'
    <3>1. entry # NoEntry => entry.stamp \in Nat /\ entry.stamp <= stamp
      BY <1>2 DEF DbInv, EntryTrue, DbTyped, Entries
    <3>2. stamp \in Nat
      BY <1>2 DEF DbTyped
    <3> QED
      BY <1>1, <3>1, <3>2
  <2>6. Written(Current, dbCursor)' <=> Written(Current, dbCursor)
    BY <1>4, <1>5 DEF Written
  <2>7. poll # NoPoll => (Written(Current, poll.result)' <=> Written(Current, poll.result))
    BY <1>4, <1>5 DEF Written
  <2> QED
    BY <1>1, <1>4, <1>5, <2>1, <2>2, <2>3, <2>4, <2>5, <2>6, <2>7 DEF GenerationsKept, GenPoll
<1>9. tail' \in [Rows -> Nat] /\ (tool # "copilot" => tail' = NoRows) /\ late' \subseteq Rows
  BY <1>1, CurrentIs
<1>10. Len(content) <= Len(content') /\ Len(content') <= 2
  BY <1>1, <1>3
<1> QED
  BY <1>1, <1>3, <1>6, <1>7, <1>8, <1>9, <1>10, ToolWrites

-----------------------------------------------------------------------------
\* A step of a poll leaves the source as it is.
LEMMA SourceKept ==
  ASSUME DbInv, Source
  PROVE  /\ UNCHANGED <<tool, content, tail, stamp, late, writes>> /\ Current' = Current
         /\ FilesBounded'
         /\ \A p : /\ PollHolds(p)' <=> PollHolds(p)
                   /\ CalmHolds(p)' <=> CalmHolds(p)
<1>1. UNCHANGED <<tool, content, tail, stamp, late, writes>>
  BY DEF Source
<1>2. Current' = Current
  BY <1>1 DEF Current
<1>3. FilesBounded'
  BY <1>1 DEF DbInv, FilesBounded, Bounded
<1>4. \A p : PollHolds(p)' <=> PollHolds(p)
  BY <1>1 DEF PollHolds
<1>5. \A p : CalmHolds(p)' <=> CalmHolds(p)
  BY <1>1, <1>2 DEF CalmHolds, Matches
<1> QED
  BY <1>1, <1>2, <1>3, <1>4, <1>5

\* What is known of a cursor and of an entry.
CursorKept ==
  /\ Written(Current, dbCursor)
  /\ \A r \in Rows \ late : r < dbCursor /\ Current.rows[r] > 0 => dbHub[r] = 1

EntryKept ==
  entry # NoEntry /\ ~entry.failed /\ entry.stamp = stamp /\ ~hidden =>
    \A r \in Rows : Current.rows[r] > 0 => r < entry.result

\* The counters of file contents only move on.
LEMMA GenerationsMove ==
  ASSUME DbInv, Source,
         tool = "antigravity" => CursorKept' /\ (poll' # NoPoll => GenPoll(poll)') /\ EntryKept'
  PROVE  GenerationsKept'
<1>1. UNCHANGED <<tool, content, tail, stamp, late, writes>> /\ Current' = Current
  BY SourceKept
<1> SUFFICES ASSUME tool = "antigravity" PROVE GenerationsKept'
  BY <1>1 DEF GenerationsKept
<1>2. \A i \in 1..Len(content'), r \in Rows :
         /\ content'[i].rows[r] \in {0, 1} /\ content'[i].rows[r] <= Current'.rows[r]
         /\ \A s \in Rows : s > r /\ content'[i].rows[s] > 0 /\ content'[i].rows[r] = 0
                /\ Current'.rows[r] > 0 => r \in late'
  BY <1>1 DEF DbInv, GenerationsKept
<1> QED
  BY <1>2 DEF GenerationsKept, CursorKept, EntryKept

\* A poll that goes on keeps entry, cursor and hub.
LEMMA PollMoves ==
  ASSUME DbInv, Source, NEW p \in Polls, poll' = p, UNCHANGED <<entry, dbCursor, dbHub, hidden>>,
         dbFaults' \in 0..DbFaults, handle' \in Handles, HandleTrue',
         PollHolds(p), CalmHolds(p), p.at # "upload", tool = "antigravity" => GenPoll(p)
  PROVE  DbInv'
<1>1. UNCHANGED <<tool, content, tail, stamp, late, writes>> /\ Current' = Current /\ FilesBounded'
  BY SourceKept
<1>2. DbTyped' /\ poll' # NoPoll
  BY <1>1, DatabaseAssumption DEF DbInv, DbTyped
<1>3. PollHolds(p)' /\ CalmHolds(p)'
  BY SourceKept
<1>4. PollTrue' /\ PollCalm'
  BY <1>3 DEF PollTrue, PollCalm, PollHolds, CalmHolds, Matches
<1>5. EntryTrue'
  BY <1>1, <1>2 DEF DbInv, EntryTrue
<1>6. GenerationsKept'
  <2> SUFFICES ASSUME tool = "antigravity"
               PROVE  CursorKept' /\ (poll' # NoPoll => GenPoll(poll)') /\ EntryKept'
    BY GenerationsMove
  <2>1. CursorKept' /\ EntryKept'
    BY <1>1 DEF DbInv, GenerationsKept, CursorKept, EntryKept, Written
  <2>2. GenPoll(p)'
    BY <1>1 DEF GenPoll, Written
  <2> QED
    BY <2>1, <2>2 DEF GenPoll, Written
<1> QED
  BY <1>1, <1>2, <1>4, <1>5, <1>6 DEF DbInv

\* What is known of a poll in progress.
LEMMA PollIs ==
  ASSUME DbInv, poll # NoPoll
  PROVE  /\ poll \in Polls /\ PollHolds(poll) /\ CalmHolds(poll)
         /\ (tool = "antigravity" => GenPoll(poll))
         /\ handle \in Handles /\ HandleTrue /\ dbFaults \in 0..DbFaults
         /\ stamp \in Nat /\ stamp >= 1 /\ Len(content) \in {1, 2}
         /\ dbCursor \in Nat /\ dbCursor <= MaxWrites + MaxRow + 1
         /\ tool \in Tools
<1>1. DbTyped
  BY DEF DbInv
<1>2. poll \in Polls /\ handle \in Handles /\ dbFaults \in 0..DbFaults /\ tool \in Tools
  BY <1>1 DEF DbTyped
<1>3. PollHolds(poll) /\ CalmHolds(poll) /\ (tool = "antigravity" => GenPoll(poll)) /\ HandleTrue
  BY DEF DbInv, PollTrue, PollCalm, GenerationsKept
<1>4. stamp \in Nat /\ stamp >= 1
  BY <1>1, DatabaseAssumption DEF DbTyped
<1>5. Len(content) \in {1, 2}
  BY <1>1, FilesTyped
<1>6. dbCursor \in Nat /\ dbCursor <= MaxWrites + MaxRow + 1
  BY <1>1, DatabaseAssumption DEF DbTyped
<1> QED
  BY <1>2, <1>3, <1>4, <1>5, <1>6

\* The signature is taken (fileSignature).
LEMMA SignKeeps == ASSUME DbInv, Sign PROVE DbInv'
<1> USE DatabaseAssumption
<1> DEFINE p == [at |-> "stat", stamp |-> stamp, id |-> 0, db |-> 0, session |-> 0,
                 copy |-> NoRows, read |-> 0, events |-> <<>>, result |-> 0]
<1>1. poll' = p /\ Source /\ UNCHANGED <<handle, entry, dbCursor, dbHub, hidden, dbFaults>>
  BY DEF Sign
<1>2. DbTyped
  BY DEF DbInv
<1>3. /\ stamp \in Nat /\ stamp >= 1 /\ Len(content) \in {1, 2}
      /\ handle \in Handles /\ HandleTrue /\ dbFaults \in 0..DbFaults
  <2>1. stamp \in Nat /\ stamp >= 1 /\ handle \in Handles /\ dbFaults \in 0..DbFaults
    BY <1>2 DEF DbTyped
  <2>2. Len(content) \in {1, 2} /\ HandleTrue
    BY <1>2, FilesTyped DEF DbInv
  <2> QED
    BY <2>1, <2>2
<1>4. NoRows \in [Rows -> Nat] /\ \A q \in Rows : NoRows[q] = 0
  BY DEF NoRows
<1>5. <<>> \in UNION {[R -> Nat] : R \in SUBSET (Rows \cup {Residual})}
  <2>1. <<>> \in [{} -> Nat]
    <3> DEFINE e == <<>>
    <3>1. e \in Seq(Nat) /\ Len(e) = 0
      OBVIOUS
    <3> HIDE DEF e
    <3>2. e \in [1..0 -> Nat]
      BY <3>1, LenProperties
    <3>3. 1..0 = {}
      OBVIOUS
    <3>4. e \in [{} -> Nat]
      BY <3>2, <3>3
    <3> QED
      BY <3>4 DEF e
  <2> QED
    BY <2>1
<1>6. p \in Polls
  BY <1>3, <1>4, <1>5 DEF Polls, Places
<1>7. /\ p.at = "stat" /\ p.stamp = stamp /\ p.id = 0 /\ p.db = 0 /\ p.copy = NoRows /\ p.read = 0
  OBVIOUS
<1> HIDE DEF p
<1>8. PollHolds(p)
  BY <1>3, <1>4, <1>7 DEF PollHolds
<1>9. CalmHolds(p) /\ GenPoll(p)
  BY <1>7 DEF CalmHolds, GenPoll
<1>10. HandleTrue'
  BY <1>1, <1>3, SourceKept DEF HandleTrue
<1> QED
  BY <1>1, <1>3, <1>6, <1>7, <1>8, <1>9, <1>10, PollMoves

\* The path is looked up before the handle is used.
LEMMA StatKeeps == ASSUME DbInv, Stat PROVE DbInv'
<1> DEFINE n == Len(content)
           p == [poll EXCEPT !.at = "open", !.id = n]
<1>1. /\ poll # NoPoll /\ poll.at = "stat" /\ poll' = p /\ Source
      /\ UNCHANGED <<handle, entry, dbCursor, dbHub, hidden, dbFaults>>
  BY DEF Stat
<1>0. n = Len(content) /\ n \in {1, 2}
  BY <1>1, PollIs
<1> HIDE DEF n
<1>2. p \in Polls
  <2>1. poll \in Polls /\ n \in Nat
    BY <1>0, <1>1, PollIs
  <2> DEFINE at == "open"
  <2>2. at \in Places
    BY DEF Places
  <2> HIDE DEF at
  <2>3. [poll EXCEPT !.at = at, !.id = n] \in Polls
    BY <2>1, <2>2 DEF Polls
  <2> QED
    BY <2>3 DEF at
<1>3. /\ p.at = "open" /\ p.id = n /\ p.stamp = poll.stamp /\ p.db = poll.db
      /\ p.copy = poll.copy /\ p.read = poll.read
  BY <1>0, <1>1, PollIs DEF Polls
<1> HIDE DEF p
<1>4. PollHolds(p)
  <2>1. PollHolds(poll) /\ poll.at = "stat"
    BY <1>1, PollIs
  <2> QED
    BY <1>0, <1>3, <2>1 DEF PollHolds
<1>5. CalmHolds(p) /\ GenPoll(p)
  BY <1>0, <1>3 DEF CalmHolds, GenPoll
<1>6. HandleTrue'
  BY <1>1, PollIs, SourceKept DEF HandleTrue
<1> QED
  BY <1>1, <1>2, <1>3, <1>4, <1>5, <1>6, PollIs, PollMoves

\* The connection reads the file of the stat or one that came after it.
LEMMA OpenSourceKeeps == ASSUME DbInv, OpenSource PROVE DbInv'
<1> DEFINE db == IF Cached /\ Usable THEN handle.db ELSE Len(content)
           at == IF tool = "hermes" THEN "session" ELSE "rows"
           p == [poll EXCEPT !.at = at, !.db = db]
<1>1. /\ poll # NoPoll /\ poll.at = "open" /\ poll' = p /\ Source
      /\ handle' = (IF Cached THEN [id |-> poll.id, db |-> db] ELSE handle)
      /\ UNCHANGED <<entry, dbCursor, dbHub, hidden, dbFaults>>
  BY DEF OpenSource
<1>2. poll.id \in Nat /\ 1 <= poll.id /\ poll.id <= Len(content)
  BY <1>1, PollIs DEF PollHolds, Polls
<1>3. db \in Nat /\ poll.id <= db /\ db <= Len(content)
  <2>1. CASE Cached /\ Usable
    <3>1. handle.id = poll.id /\ handle.id <= handle.db /\ handle.db <= Len(content)
      BY <1>1, <2>1, PollIs DEF Usable, HandleTrue
    <3>2. handle.db \in Nat
      BY <1>1, PollIs DEF Handles
    <3> QED
      BY <2>1, <3>1, <3>2
  <2>2. CASE ~(Cached /\ Usable)
    BY <1>1, <1>2, <2>2, PollIs
  <2> QED
    BY <2>1, <2>2
<1> HIDE DEF db
<1>4. at \in {"session", "rows"} /\ (at = "session" <=> tool = "hermes")
  OBVIOUS
<1> HIDE DEF at
<1>5. p \in Polls
  BY <1>1, <1>3, <1>4, PollIs DEF Polls, Places
<1>6. /\ p.at = at /\ p.id = poll.id /\ p.stamp = poll.stamp /\ p.db = db
      /\ p.copy = poll.copy /\ p.read = poll.read
  BY <1>1, PollIs DEF Polls
<1> HIDE DEF p
<1>7. PollHolds(p)
  BY <1>1, <1>2, <1>3, <1>4, <1>6, PollIs DEF PollHolds
<1>8. CalmHolds(p)
  <2> SUFFICES ASSUME p.stamp = stamp, tool # "antigravity" PROVE CalmHolds(p)
    BY DEF CalmHolds
  <2>1. poll.id = Len(content)
    BY <1>1, <1>6, PollIs DEF CalmHolds
  <2>2. db = Len(content)
    BY <1>1, <1>2, <1>3, <2>1, PollIs
  <2> QED
    BY <1>4, <1>6, <2>1, <2>2 DEF CalmHolds
<1>9. GenPoll(p)
  BY <1>4, <1>6 DEF GenPoll
<1>10. handle' \in Handles /\ HandleTrue'
  <2>1. CASE Cached
    BY <1>1, <1>2, <1>3, <2>1, SourceKept DEF HandleTrue, Handles
  <2>2. CASE ~Cached
    BY <1>1, <2>2, PollIs, SourceKept DEF HandleTrue
  <2> QED
    BY <2>1, <2>2
<1>11. p.at # "upload"
  BY <1>4, <1>6
<1> QED
  BY <1>1, <1>5, <1>7, <1>8, <1>9, <1>10, <1>11, PollIs, PollMoves

\* A dropped handle holds nothing that could be stale.
LEMMA HandleDropped == NoHandle \in Handles /\ (handle' = NoHandle => HandleTrue')
BY DEF NoHandle, Handles, HandleTrue

\* A failure is counted.
LEMMA FaultCounted == DbInv /\ DbFault => dbFaults' \in 0..DbFaults
BY DatabaseAssumption DEF DbInv, DbTyped, DbFault

\* The handle is dropped.
LEMMA DropHandleKeeps == ASSUME DbInv, DropHandle PROVE DbInv'
<1>1. Source /\ handle' = NoHandle /\ DbFault /\ UNCHANGED <<entry, poll, dbCursor, dbHub, hidden>>
  BY DEF DropHandle
<1>2. UNCHANGED <<tool, content, tail, stamp, late, writes>> /\ Current' = Current /\ FilesBounded'
  BY <1>1, SourceKept
<1>3. DbTyped'
  BY <1>1, <1>2, HandleDropped, FaultCounted DEF DbInv, DbTyped
<1>4. PollTrue' /\ PollCalm'
  BY <1>1, <1>2 DEF DbInv, PollTrue, PollCalm, PollHolds, CalmHolds, Matches
<1>5. EntryTrue'
  BY <1>1, <1>2 DEF DbInv, EntryTrue, Hit, SourceShown
<1>6. GenerationsKept'
  BY <1>1, <1>2 DEF DbInv, GenerationsKept, GenPoll, Written
<1> QED
  BY <1>1, <1>2, <1>3, <1>4, <1>5, <1>6, HandleDropped DEF DbInv

\* A poll that ends.
LEMMA PollEnds ==
  ASSUME DbInv, Source, poll' = NoPoll, handle' \in Handles, HandleTrue',
         dbFaults' \in 0..DbFaults, entry' = NoEntry \/ entry' \in Entries,
         entry' # NoEntry => 1 <= entry'.stamp /\ entry'.stamp <= stamp,
         dbCursor' \in 0..(MaxWrites + MaxRow + 1),
         dbHub' \in [Rows \cup {Residual} -> 0..MaxWrites], hidden' \in BOOLEAN,
         tool # "antigravity" /\ Hit' /\ ~entry'.failed => SourceShown',
         tool = "antigravity" => CursorKept' /\ EntryKept'
  PROVE  DbInv'
<1>1. UNCHANGED <<tool, content, tail, stamp, late, writes>> /\ Current' = Current /\ FilesBounded'
  BY SourceKept
<1>2. DbTyped'
  BY <1>1 DEF DbInv, DbTyped
<1>3. PollTrue' /\ PollCalm'
  BY DEF PollTrue, PollCalm
<1>4. EntryTrue'
  BY <1>1 DEF EntryTrue
<1>5. GenerationsKept'
  BY GenerationsMove
<1> QED
  BY <1>1, <1>2, <1>3, <1>4, <1>5 DEF DbInv

\* A step that keeps cursor, hub and entry keeps what is known of them.
LEMMA CursorStays ==
  ASSUME DbInv, Source, UNCHANGED <<dbCursor, dbHub>>, tool = "antigravity"
  PROVE  CursorKept'
BY SourceKept DEF DbInv, GenerationsKept, CursorKept, Written

\* What the hub holds is a function of the rows it was given.
LEMMA DbHubIs ==
  ASSUME DbInv
  PROVE  /\ dbCursor \in 0..(MaxWrites + MaxRow + 1)
         /\ dbHub \in [Rows \cup {Residual} -> 0..MaxWrites] /\ hidden \in BOOLEAN
         /\ (entry = NoEntry \/ entry \in Entries)
         /\ (entry # NoEntry => 1 <= entry.stamp /\ entry.stamp <= stamp)
BY DEF DbInv, DbTyped, EntryTrue

\* A read that fails ends the poll.
LEMMA OpenFailsKeeps == ASSUME DbInv, OpenFails PROVE DbInv'
<1> USE DatabaseAssumption
<1> DEFINE e == [stamp |-> poll.stamp, failed |-> TRUE, request |-> dbCursor, result |-> 0]
<1>1. /\ poll # NoPoll /\ DbFault /\ entry' = e /\ poll' = NoPoll /\ handle' = NoHandle /\ Source
      /\ UNCHANGED <<dbCursor, dbHub, hidden>>
  BY DEF OpenFails
<1>2. e \in Entries /\ e.failed /\ e.stamp = poll.stamp
  BY <1>1, PollIs DEF Entries, Polls
<1>3. 1 <= e.stamp /\ e.stamp <= stamp
  BY <1>1, <1>2, PollIs DEF PollHolds
<1> HIDE DEF e
<1>4. EntryKept'
  BY <1>1, <1>2 DEF EntryKept
<1> QED
  BY <1>1, <1>2, <1>3, <1>4, HandleDropped, FaultCounted, DbHubIs, CursorStays, PollEnds

\* The agent restarts with an empty cache.
LEMMA RestartKeeps == ASSUME DbInv, Restart PROVE DbInv'
<1>1. /\ DbFault /\ entry' = NoEntry /\ poll' = NoPoll /\ handle' = NoHandle /\ Source
      /\ UNCHANGED <<dbCursor, dbHub, hidden>>
  BY DEF Restart
<1>2. ~Hit' /\ EntryKept'
  BY <1>1 DEF Hit, EntryKept
<1> QED
  BY <1>1, <1>2, HandleDropped, FaultCounted, DbHubIs, CursorStays, PollEnds

\* A torn copy is signed with what the source was before.
LEMMA CopyMainKeeps == ASSUME DbInv, CopyMain PROVE DbInv'
<1> DEFINE at == "wal"
           copy == Current.main
           p == [poll EXCEPT !.at = at, !.copy = copy]
<1>1. /\ poll # NoPoll /\ poll.at = "open" /\ tool = "zcode" /\ poll' = p /\ Source
      /\ DbFault /\ handle' = NoHandle /\ UNCHANGED <<entry, dbCursor, dbHub, hidden>>
  BY DEF CopyMain
<1>2. /\ at \in Places /\ at = "wal" /\ copy = Current.main /\ copy \in [Rows -> Nat]
      /\ \A r \in Rows : copy[r] <= MaxWrites
  BY CurrentIs, DatabaseAssumption DEF Places, Bounded
<1> HIDE DEF at, copy
<1>3. p \in Polls
  BY <1>1, <1>2, PollIs DEF Polls
<1>4. /\ p.at = at /\ p.id = poll.id /\ p.stamp = poll.stamp /\ p.db = poll.db
      /\ p.copy = copy /\ p.read = poll.read
  BY <1>1, PollIs DEF Polls
<1> HIDE DEF p
<1>5. PollHolds(p)
  <2>1. PollHolds(poll) /\ poll.at = "open" /\ tool = "zcode"
    BY <1>1, PollIs
  <2> QED
    BY <1>2, <1>4, <2>1 DEF PollHolds
<1>6. CalmHolds(p) /\ GenPoll(p)
  BY <1>1, <1>2, <1>4, PollIs DEF CalmHolds, GenPoll
<1>7. p.at # "upload"
  BY <1>2, <1>4
<1> QED
  BY <1>1, <1>3, <1>5, <1>6, <1>7, HandleDropped, FaultCounted, PollMoves

\* The write-ahead log is copied after the main file.
LEMMA CopyWALKeeps == ASSUME DbInv, CopyWAL PROVE DbInv'
<1> DEFINE at == "copied"
           copy == [r \in Rows |-> IF Current.rows[r] # Current.main[r] THEN Current.rows[r]
                                   ELSE poll.copy[r]]
           p == [poll EXCEPT !.at = at, !.copy = copy]
<1>1. /\ poll # NoPoll /\ poll.at = "wal" /\ poll' = p /\ Source
      /\ UNCHANGED <<handle, entry, dbCursor, dbHub, hidden, dbFaults>>
  <2>1. poll \in Polls
    BY PollIs DEF CopyWAL
  <2> QED
    BY <2>1 DEF CopyWAL, Polls
<1>2. poll.copy \in [Rows -> Nat] /\ (\A r \in Rows : poll.copy[r] <= MaxWrites) /\ tool = "zcode"
  BY <1>1, PollIs DEF Polls, PollHolds
<1>3. /\ at \in Places /\ at = "copied" /\ copy \in [Rows -> Nat]
      /\ \A r \in Rows : copy[r] <= MaxWrites
  BY <1>2, CurrentIs, DatabaseAssumption DEF Places, Bounded
<1>4. poll.copy = Current.main => copy = Current.rows
  <2> SUFFICES ASSUME poll.copy = Current.main PROVE copy = Current.rows
    OBVIOUS
  <2>1. Current.rows \in [Rows -> Nat]
    BY CurrentIs
  <2>2. \A r \in Rows : copy[r] = Current.rows[r]
    OBVIOUS
  <2> HIDE DEF copy
  <2> QED
    BY <1>3, <2>1, <2>2
<1> HIDE DEF at, copy
<1>5. p \in Polls
  BY <1>1, <1>3, PollIs DEF Polls
<1>6. /\ p.at = at /\ p.id = poll.id /\ p.stamp = poll.stamp /\ p.db = poll.db
      /\ p.copy = copy /\ p.read = poll.read
  BY <1>1, PollIs DEF Polls
<1> HIDE DEF p
<1>7. PollHolds(p)
  <2>1. PollHolds(poll)
    BY <1>1, PollIs
  <2> QED
    BY <1>1, <1>2, <1>3, <1>6, <2>1 DEF PollHolds
<1>8. CalmHolds(p) /\ GenPoll(p)
  BY <1>1, <1>3, <1>4, <1>6, PollIs DEF CalmHolds, GenPoll
<1>9. p.at # "upload"
  BY <1>3, <1>6
<1>10. HandleTrue'
  BY <1>1, PollIs, SourceKept DEF HandleTrue
<1> QED
  BY <1>1, <1>5, <1>7, <1>8, <1>9, <1>10, PollIs, PollMoves

\* The file a query of the poll reads.
LEMMA QueriedIs ==
  ASSUME DbInv, poll # NoPoll, poll.at \in {"session", "rows"}
  PROVE  /\ poll.db \in 1..Len(content) /\ content[poll.db] \in Contents
         /\ content[poll.db].rows \in [Rows -> Nat] /\ Bounded(content[poll.db])
<1>1. poll.db \in Nat /\ poll.id \in Nat /\ 1 <= poll.id /\ poll.id <= poll.db /\ poll.db <= Len(content)
  BY PollIs DEF PollHolds, Polls
<1>2. poll.db \in 1..Len(content)
  BY <1>1, PollIs
<1>3. content[poll.db] \in Contents
  BY <1>2, FilesTyped DEF DbInv
<1> QED
  BY <1>2, <1>3 DEF Contents, DbInv, FilesBounded

\* The sessions are read.
LEMMA ReadSessionsKeeps == ASSUME DbInv, ReadSessions PROVE DbInv'
<1> DEFINE at == "rows"
           counted == content[poll.db].open + SumRows(content[poll.db].rows)
           p == [poll EXCEPT !.at = at, !.session = counted]
<1>1. /\ poll # NoPoll /\ poll.at = "session" /\ poll' = p /\ Source
      /\ UNCHANGED <<handle, entry, dbCursor, dbHub, hidden, dbFaults>>
  BY DEF ReadSessions
<1>2. tool = "hermes"
  BY <1>1, PollIs DEF PollHolds
<1>3. /\ poll.db \in 1..Len(content) /\ content[poll.db] \in Contents
      /\ content[poll.db].rows \in [Rows -> Nat] /\ Bounded(content[poll.db])
  BY <1>1, QueriedIs
<1>4. SumRows(content[poll.db].rows) \in Nat
  BY <1>3, SumRowsNat
<1>5. content[poll.db].open \in Nat /\ content[poll.db].open <= MaxWrites
  <2>1. 1 \in Rows
    BY DatabaseAssumption DEF Rows
  <2>2. content[poll.db].rows[1] + content[poll.db].open <= writes
    BY <1>3, <2>1 DEF Bounded
  <2>3. content[poll.db].rows[1] \in Nat /\ content[poll.db].open \in Nat
    BY <1>3, <2>1 DEF Contents
  <2> QED
    BY <2>2, <2>3, CurrentIs, DatabaseAssumption
<1>6. /\ at \in Places /\ at = "rows" /\ counted \in Nat
      /\ counted <= MaxWrites + SumRows(content[poll.db].rows)
  BY <1>4, <1>5, DatabaseAssumption DEF Places
<1>7. poll.db = Len(content) => counted = Current.open + SumRows(Current.rows)
  BY DEF Current
<1> HIDE DEF at, counted
<1>8. p \in Polls
  BY <1>1, <1>6, PollIs DEF Polls
<1>9. /\ p.at = at /\ p.id = poll.id /\ p.stamp = poll.stamp /\ p.db = poll.db
      /\ p.copy = poll.copy /\ p.read = poll.read /\ p.session = counted
  BY <1>1, PollIs DEF Polls
<1> HIDE DEF p
<1>10. PollHolds(p)
  <2>1. PollHolds(poll)
    BY <1>1, PollIs
  <2> QED
    BY <1>1, <1>2, <1>6, <1>9, <2>1 DEF PollHolds
<1>11. CalmHolds(p) /\ GenPoll(p)
  BY <1>1, <1>6, <1>7, <1>9, PollIs DEF CalmHolds, GenPoll
<1>12. p.at # "upload"
  BY <1>6, <1>9
<1>13. HandleTrue'
  BY <1>1, PollIs, SourceKept DEF HandleTrue
<1> QED
  BY <1>1, <1>8, <1>10, <1>11, <1>12, <1>13, PollIs, PollMoves

\* What the events of a read are.
Rest(amounts) == IF tool = "hermes" THEN Unattributed(poll.session, amounts) ELSE 0

\* What the rows of a session leave of its total.
LEMMA RestIs ==
  ASSUME poll \in Polls, NEW amounts \in [Rows -> Nat]
  PROVE  /\ Rest(amounts) \in Nat
         /\ tool = "hermes" =>
              Rest(amounts) = IF poll.session > SumRows(amounts) THEN poll.session - SumRows(amounts) ELSE 0
         /\ tool # "hermes" => Rest(amounts) = 0
<1>1. poll.session \in Nat /\ SumRows(amounts) \in Nat
  BY SumRowsNat DEF Polls
<1> DEFINE x == poll.session - SumRows(amounts)
<1>2. x \in Int /\ (x > 0 <=> poll.session > SumRows(amounts))
  BY <1>1
<1>3. Max({0, x}) = IF x > 0 THEN x ELSE 0
  BY <1>2, MaxOfTwo
<1>4. Unattributed(poll.session, amounts) = IF x > 0 THEN x ELSE 0
  BY <1>3 DEF Unattributed
<1> QED
  BY <1>1, <1>2, <1>4 DEF Rest

\* The events made of the rows that were read.
LEMMA EventsAre ==
  ASSUME poll \in Polls, NEW amounts \in [Rows -> Nat]
  PROVE  /\ EventsOf(amounts) \in Deliveries
         /\ Selected(amounts) \subseteq DOMAIN EventsOf(amounts)
         /\ \A r \in Selected(amounts) : EventsOf(amounts)[r] = amounts[r]
         /\ Rest(amounts) > 0 =>
              Residual \in DOMAIN EventsOf(amounts) /\ EventsOf(amounts)[Residual] = Rest(amounts)
         /\ \A r \in DOMAIN EventsOf(amounts) :
              r \in Selected(amounts) \/ (r = Residual /\ Rest(amounts) > 0)
<1> DEFINE sel == Selected(amounts)
           rest == Rest(amounts)
           D == sel \cup (IF rest > 0 THEN {Residual} ELSE {})
           e == [r \in D |-> IF r = Residual THEN rest ELSE amounts[r]]
<1>1. EventsOf(amounts) = e
  BY DEF EventsOf, Rest
<1>2. sel \subseteq Rows /\ Residual \notin Rows /\ rest \in Nat
  BY RowsFinite, RestIs DEF Selected
<1> HIDE DEF sel, rest
<1>3. D \in SUBSET (Rows \cup {Residual}) /\ sel \subseteq D
  BY <1>2
<1>4. \A r \in D : r \in sel \/ (r = Residual /\ rest > 0)
  OBVIOUS
<1>5. rest > 0 => Residual \in D
  OBVIOUS
<1>6. \A r \in D : r # Residual => r \in sel
  BY <1>4
<1> HIDE DEF D
<1>7. e \in [D -> Nat]
  BY <1>2, <1>3, <1>6
<1>8. DOMAIN e = D /\ \A r \in D : e[r] = IF r = Residual THEN rest ELSE amounts[r]
  OBVIOUS
<1> HIDE DEF e
<1>9. e \in Deliveries
  BY <1>3, <1>7 DEF Deliveries
<1>10. \A r \in sel : r # Residual
  BY <1>2
<1>11. (\A r \in sel : e[r] = amounts[r]) /\ (rest > 0 => e[Residual] = rest)
  BY <1>3, <1>5, <1>8, <1>10
<1>12. \A r \in DOMAIN e : r \in sel \/ (r = Residual /\ rest > 0)
  BY <1>4, <1>8
<1>13. sel \subseteq DOMAIN e /\ (rest > 0 => Residual \in DOMAIN e)
  BY <1>3, <1>5, <1>8
<1> QED
  BY <1>1, <1>9, <1>11, <1>12, <1>13 DEF sel, rest

\* Where antigravity goes on: behind every row it has selected.
LEMMA NextIs ==
  ASSUME DbInv, NEW db \in Contents, db.lines <= MaxWrites
  PROVE  /\ NextCursor(db) \in Nat /\ NextCursor(db) <= MaxWrites + MaxRow + 1
         /\ tool = "antigravity" =>
              /\ NextCursor(db) \in {dbCursor, 1} \cup {r + 1 : r \in Selected(db.rows)}
              /\ dbCursor <= NextCursor(db) /\ \A r \in Selected(db.rows) : r < NextCursor(db)
<1> USE DatabaseAssumption
<1>1. CASE tool = "antigravity"
  <2> DEFINE n == MaxWrites + MaxRow + 1
             S == {dbCursor, 1} \cup {r + 1 : r \in Selected(db.rows)}
  <2>1. n \in Nat /\ dbCursor \in 0..n
    BY DEF DbInv, DbTyped
  <2>2. \A r \in Selected(db.rows) : r \in Nat /\ r <= MaxRow
    BY DEF Selected, Rows
  <2>3. \A y \in S : y \in 0..n
    BY <2>1, <2>2
  <2>4. S \in SUBSET (0..n) /\ S # {}
    BY <2>3
  <2>5. NextCursor(db) = Max(S)
    BY <1>1 DEF NextCursor
  <2> HIDE DEF n
  <2>6. dbCursor \in S /\ \A r \in Selected(db.rows) : r + 1 \in S
    OBVIOUS
  <2> DEFINE m == Max(S)
  <2>7. m \in S /\ \A y \in S : m >= y
    <3> HIDE DEF S
    <3> QED
      BY <2>1, <2>4, MaxOfSome
  <2>8. m \in 0..n
    BY <2>3, <2>7
  <2>9. dbCursor <= m /\ \A r \in Selected(db.rows) : r < m
    <3> HIDE DEF S, m
    <3>1. m \in Nat /\ \A y \in S : y <= m
      BY <2>1, <2>3, <2>7, <2>8
    <3> QED
      BY <2>2, <2>6, <3>1
  <2> HIDE DEF m
  <2>10. m \in Nat /\ m <= MaxWrites + MaxRow + 1
    BY <2>1, <2>8 DEF n
  <2> QED
    BY <2>5, <2>7, <2>9, <2>10 DEF m
<1>2. CASE tool = "copilot"
  <2>1. db.lines \in Nat
    BY DEF Contents
  <2> QED
    BY <1>2, <2>1 DEF NextCursor
<1>3. CASE tool # "antigravity" /\ tool # "copilot"
  BY <1>3 DEF NextCursor
<1> QED
  BY <1>1, <1>2, <1>3

\* Whatever a poll reads counts no more than was written; when nothing was
\* written meanwhile it is the source.
LEMMA ReadRowsKeeps == ASSUME DbInv, ReadRows PROVE DbInv'
<1> USE DatabaseAssumption
<1> DEFINE at == "store"
           db == IF poll.at = "copied" THEN Current ELSE content[poll.db]
           amounts == IF poll.at = "copied" THEN poll.copy ELSE db.rows
           e == EventsOf(amounts)
           k == NextCursor(db)
           read == IF poll.db = Len(content) THEN stamp ELSE 0
           p == [poll EXCEPT !.at = at, !.events = e, !.result = k, !.read = read]
<1>1. /\ poll # NoPoll /\ poll.at \in {"rows", "copied"} /\ poll' = p /\ Source
      /\ UNCHANGED <<handle, entry, dbCursor, dbHub, hidden, dbFaults>>
  BY DEF ReadRows
<1>2. poll \in Polls
  BY <1>1, PollIs
<1>3. db \in Contents /\ Bounded(db)
  BY <1>1, CurrentIs, QueriedIs
<1>4. amounts \in [Rows -> Nat] /\ \A r \in Rows : amounts[r] <= MaxWrites
  <2>1. CASE poll.at = "copied"
    BY <1>1, <1>2, <2>1, PollIs DEF Polls, PollHolds
  <2>2. CASE poll.at # "copied"
    <3>1. amounts = db.rows
      BY <2>2
    <3> HIDE DEF amounts, db
    <3>2. db.rows \in [Rows -> Nat]
      BY <1>3 DEF Contents
    <3>3. \A r \in Rows : db.rows[r] <= MaxWrites
      <4> TAKE r \in Rows
      <4>1. db.rows[r] \in Nat /\ db.open \in Nat /\ db.rows[r] + db.open <= writes
        BY <1>3 DEF Contents, Bounded
      <4> QED
        BY <4>1, CurrentIs
    <3> QED
      BY <3>1, <3>2, <3>3
  <2> QED
    BY <2>1, <2>2
<1>5. poll.at = "rows" => db = content[poll.db] /\ amounts = content[poll.db].rows
  OBVIOUS
<1>6. poll.at = "copied" => amounts = poll.copy
  OBVIOUS
<1> HIDE DEF db, amounts
<1>7. k \in Nat /\ k <= MaxWrites + MaxRow + 1
  <2>1. db.lines <= MaxWrites
    <3>1. db.lines \in Nat /\ db.lines <= writes
      BY <1>3 DEF Contents, Bounded
    <3> QED
      BY <3>1, CurrentIs
  <2> QED
    BY <1>3, <2>1, NextIs
<1>8. read \in Nat /\ read <= stamp /\ (read = stamp => poll.db = Len(content))
  BY <1>1, PollIs
<1>9. Rest(amounts) <= MaxWrites
  <2>1. CASE tool = "hermes"
    <3>1. poll.at = "rows"
      BY <1>1, <2>1, PollIs DEF PollHolds
    <3>2. poll.session <= MaxWrites + SumRows(amounts)
      BY <1>1, <1>5, <2>1, <3>1, PollIs DEF PollHolds
    <3>3. SumRows(amounts) \in Nat /\ poll.session \in Nat
      BY <1>2, <1>4, SumRowsNat DEF Polls
    <3> QED
      BY <1>2, <1>4, <2>1, <3>2, <3>3, RestIs
  <2>2. CASE tool # "hermes"
    BY <1>2, <1>4, <2>2, RestIs
  <2> QED
    BY <2>1, <2>2
<1>10. e \in Deliveries
  BY <1>2, <1>4, EventsAre
<1>11. \A r \in DOMAIN e : e[r] <= MaxWrites
  <2> TAKE r \in DOMAIN e
  <2>1. CASE r \in Selected(amounts)
    <3>1. e[r] = amounts[r] /\ r \in Rows
      BY <1>2, <1>4, <2>1, EventsAre DEF Selected
    <3> QED
      BY <1>4, <3>1
  <2>2. CASE r = Residual /\ Rest(amounts) > 0
    <3>1. e[r] = Rest(amounts)
      BY <1>2, <1>4, <2>2, EventsAre
    <3> QED
      BY <1>9, <3>1
  <2> QED
    BY <1>2, <1>4, <2>1, <2>2, EventsAre
<1>12. /\ \A r \in Rows : Current.rows[r] = amounts[r]
       /\ tool = "hermes" => Rest(amounts) = Current.open
       /\ tool # "antigravity"
       => Matches(e)
  <2> SUFFICES ASSUME \A r \in Rows : Current.rows[r] = amounts[r],
                      tool = "hermes" => Rest(amounts) = Current.open, tool # "antigravity"
               PROVE  Matches(e)
    OBVIOUS
  <2>1. ASSUME NEW r \in Rows, Current.rows[r] > 0
        PROVE  r \in DOMAIN e /\ e[r] = Current.rows[r]
    <3>1. r \in Selected(amounts)
      BY <2>1 DEF Selected
    <3> QED
      BY <1>2, <1>4, <3>1, EventsAre
  <2>2. ASSUME tool = "hermes", Current.open > 0
        PROVE  Residual \in DOMAIN e /\ e[Residual] = Current.open
    <3>1. Rest(amounts) > 0 /\ Rest(amounts) = Current.open
      BY <2>2
    <3> QED
      BY <1>2, <1>4, <3>1, EventsAre
  <2> QED
    BY <2>1, <2>2 DEF Matches
<1>13. tool = "antigravity" =>
         /\ Written(Current, k)
         /\ \A r \in DOMAIN e : r \in Rows /\ e[r] = 1
         /\ \A r \in Rows \ late : dbCursor <= r /\ r < k /\ Current.rows[r] > 0 => r \in DOMAIN e
         /\ read = stamp => \A r \in Rows : Current.rows[r] > 0 => r < k
  <2> SUFFICES ASSUME tool = "antigravity"
               PROVE  /\ Written(Current, k)
                      /\ \A r \in DOMAIN e : r \in Rows /\ e[r] = 1
                      /\ \A r \in Rows \ late :
                           dbCursor <= r /\ r < k /\ Current.rows[r] > 0 => r \in DOMAIN e
                      /\ read = stamp => \A r \in Rows : Current.rows[r] > 0 => r < k
    OBVIOUS
  <2>1. poll.at = "rows"
    BY <1>1, PollIs DEF PollHolds
  <2>2. poll.db \in 1..Len(content) /\ db = content[poll.db] /\ amounts = db.rows
    BY <1>1, <1>5, <2>1, QueriedIs
  <2>3. \A r \in Rows :
           /\ amounts[r] \in {0, 1} /\ amounts[r] <= Current.rows[r]
           /\ \A s \in Rows : s > r /\ amounts[s] > 0 /\ amounts[r] = 0 /\ Current.rows[r] > 0
                => r \in late
    BY <2>2 DEF DbInv, GenerationsKept
  <2>4. /\ k \in {dbCursor, 1} \cup {r + 1 : r \in Selected(amounts)}
        /\ dbCursor <= k /\ \A r \in Selected(amounts) : r < k
    <3>1. db.lines <= MaxWrites
      <4>1. db.lines \in Nat /\ db.lines <= writes
        BY <1>3 DEF Contents, Bounded
      <4> QED
        BY <4>1, CurrentIs
    <3> QED
      BY <1>3, <2>2, <3>1, NextIs
  <2>5. \A r \in Selected(amounts) : r \in Rows /\ amounts[r] = 1 /\ r >= dbCursor
    BY <2>3 DEF Selected
  <2>6. \A r \in Rows : amounts[r] > 0 /\ r >= dbCursor => r \in Selected(amounts)
    BY DEF Selected
  <2>7. Rows \subseteq Nat \ {0} /\ dbCursor \in Nat /\ \A r \in Rows : Current.rows[r] \in Nat
    BY <1>1, RowsFinite, PollIs, CurrentIs
  <2> HIDE DEF k
  <2>8. Written(Current, k)
    <3>1. CASE k = dbCursor
      BY <3>1 DEF DbInv, GenerationsKept
    <3>2. CASE k = 1
      BY <3>2 DEF Written
    <3>3. ASSUME NEW r \in Selected(amounts), k = r + 1
          PROVE  Written(Current, k)
      <4>1. r \in Rows /\ r \in Nat /\ amounts[r] = 1 /\ amounts[r] <= Current.rows[r]
        BY <2>3, <2>5, <2>7
      <4>2. k - 1 = r /\ Current.rows[r] > 0
        BY <2>7, <3>3, <4>1
      <4> QED
        BY <4>1, <4>2 DEF Written
    <3> QED
      BY <2>4, <3>1, <3>2, <3>3
  <2>9. \A r \in DOMAIN e : r \in Rows /\ e[r] = 1
    <3>1. ~(Rest(amounts) > 0)
      BY <1>2, <1>4, RestIs
    <3>2. \A r \in DOMAIN e : r \in Selected(amounts) /\ e[r] = amounts[r]
      BY <1>2, <1>4, <3>1, EventsAre
    <3> QED
      BY <2>5, <3>2
  <2>10. ASSUME NEW r \in Rows, r \notin late, dbCursor <= r, r < k, Current.rows[r] > 0
         PROVE  r \in DOMAIN e
    <3>1. PICK s \in Selected(amounts) : k = s + 1
      BY <2>4, <2>7, <2>10
    <3>2. s \in Rows /\ amounts[s] = 1 /\ r <= s
      <4>1. s \in Rows /\ amounts[s] = 1
        BY <2>5
      <4>2. s \in Nat /\ r \in Nat
        BY <2>7, <4>1
      <4>3. r < s + 1
        BY <2>10, <3>1
      <4> QED
        BY <4>1, <4>2, <4>3
    <3>3. amounts[r] = 1
      <4>1. CASE r = s
        BY <3>2, <4>1
      <4>2. CASE r # s
        <5>1. s > r
          BY <2>7, <3>2, <4>2
        <5> QED
          BY <2>3, <2>10, <3>2, <5>1
      <4> QED
        BY <4>1, <4>2
    <3>4. r \in Selected(amounts)
      BY <2>6, <2>7, <2>10, <3>3
    <3> QED
      BY <1>2, <1>4, <3>4, EventsAre
  <2>11. ASSUME read = stamp, NEW r \in Rows, Current.rows[r] > 0
         PROVE  r < k
    <3>1. amounts[r] = Current.rows[r]
      BY <1>8, <2>2, <2>11 DEF Current
    <3>2. CASE r >= dbCursor
      <4>1. r \in Selected(amounts)
        BY <2>6, <2>11, <3>1, <3>2
      <4> QED
        BY <2>4, <4>1
    <3>3. CASE ~(r >= dbCursor)
      BY <1>7, <2>4, <2>7, <3>3 DEF k
    <3> QED
      BY <3>2, <3>3
  <2> QED
    BY <2>8, <2>9, <2>10, <2>11
<1>14. at \in Places /\ at = "store"
  BY DEF Places
<1> HIDE DEF at, e, k, read
<1>15. p \in Polls
  <2>1. e \in UNION {[R -> Nat] : R \in SUBSET (Rows \cup {Residual})}
    BY <1>10 DEF Deliveries
  <2> DEFINE E == UNION {[R -> Nat] : R \in SUBSET (Rows \cup {Residual})}
  <2>2. e \in E
    BY <2>1
  <2>3. Polls = [at : Places, stamp : Nat, id : Nat, db : Nat, session : Nat,
                 copy : [Rows -> Nat], read : Nat, result : Nat, events : E]
    BY DEF Polls
  <2> HIDE DEF E
  <2> QED
    BY <1>2, <1>7, <1>8, <1>14, <2>2, <2>3
<1>16. /\ p.at = at /\ p.id = poll.id /\ p.stamp = poll.stamp /\ p.db = poll.db
       /\ p.copy = poll.copy /\ p.read = read /\ p.result = k /\ p.events = e
  BY <1>2 DEF Polls
<1> HIDE DEF p
<1>17. PollHolds(p)
  <2>1. PollHolds(poll)
    BY <1>1, PollIs
  <2> QED
    BY <1>1, <1>7, <1>8, <1>11, <1>14, <1>16, <2>1 DEF PollHolds
<1>18. CalmHolds(p)
  <2> SUFFICES ASSUME p.stamp = stamp, tool # "antigravity" PROVE CalmHolds(p)
    BY DEF CalmHolds
  <2>1. CalmHolds(poll) /\ poll.stamp = stamp
    BY <1>1, <1>16, PollIs
  <2>2. \A r \in Rows : Current.rows[r] = amounts[r]
    <3>1. CASE poll.at = "rows"
      BY <1>5, <2>1, <3>1 DEF CalmHolds, Current
    <3>2. CASE poll.at = "copied"
      BY <1>6, <2>1, <3>2 DEF CalmHolds
    <3> QED
      BY <1>1, <3>1, <3>2
  <2>3. tool = "hermes" => Rest(amounts) = Current.open
    <3> SUFFICES ASSUME tool = "hermes" PROVE Rest(amounts) = Current.open
      OBVIOUS
    <3>1. poll.at = "rows"
      BY <1>1, PollIs DEF PollHolds
    <3>2. poll.session = Current.open + SumRows(amounts)
      BY <1>5, <2>1, <3>1 DEF CalmHolds, Current
    <3>3. Current.open \in Nat /\ SumRows(amounts) \in Nat
      BY <1>4, CurrentIs, SumRowsNat
    <3> QED
      BY <1>2, <1>4, <3>2, <3>3, RestIs
  <2>4. Matches(e)
    BY <1>12, <2>2, <2>3
  <2>5. p.id = Len(content)
    BY <1>1, <1>16, <2>1 DEF CalmHolds
  <2> QED
    BY <1>14, <1>16, <2>4, <2>5 DEF CalmHolds
<1>19. tool = "antigravity" => GenPoll(p)
  BY <1>13, <1>14, <1>16 DEF GenPoll
<1>20. p.at # "upload"
  BY <1>14, <1>16
<1>21. HandleTrue'
  BY <1>1, PollIs, SourceKept DEF HandleTrue
<1> QED
  BY <1>1, <1>15, <1>17, <1>18, <1>19, <1>20, <1>21, PollIs, PollMoves

\* antigravity signs again: its entry then stands for what the read has missed.
LEMMA StoreEntryKeeps == ASSUME DbInv, StoreEntry PROVE DbInv'
<1> USE DatabaseAssumption
<1> DEFINE at == "upload"
           e == [stamp |-> SignedAs, failed |-> FALSE, request |-> dbCursor,
                 result |-> poll.result]
           p == [poll EXCEPT !.at = at]
<1>1. /\ poll # NoPoll /\ poll.at = "store" /\ poll' = p /\ entry' = e /\ Source
      /\ hidden' = (tool = "antigravity" /\ poll.read # stamp)
      /\ UNCHANGED <<handle, dbCursor, dbHub, dbFaults>>
  BY DEF StoreEntry
<1>2. poll \in Polls /\ PollHolds(poll) /\ CalmHolds(poll)
  BY <1>1, PollIs
<1>3. SignedAs \in Nat /\ 1 <= SignedAs /\ SignedAs <= stamp
  BY <1>1, <1>2, PollIs DEF SignedAs, PollHolds, Polls
<1>4. e \in Entries /\ ~e.failed /\ e.stamp = SignedAs /\ e.result = poll.result
  BY <1>2, <1>3, PollIs, <1>1 DEF Entries, Polls
<1> HIDE DEF e
<1>5. at \in Places /\ at = "upload"
  BY DEF Places
<1> HIDE DEF at
<1>6. p \in Polls
  BY <1>2, <1>5 DEF Polls
<1>7. /\ p.at = at /\ p.id = poll.id /\ p.stamp = poll.stamp /\ p.db = poll.db
      /\ p.copy = poll.copy /\ p.read = poll.read /\ p.result = poll.result
      /\ p.events = poll.events
  BY <1>2 DEF Polls
<1> HIDE DEF p
<1>8. PollHolds(p) /\ CalmHolds(p)
  BY <1>1, <1>2, <1>5, <1>7 DEF PollHolds, CalmHolds
<1>9. tool = "antigravity" => GenPoll(p)
  BY <1>1, <1>5, <1>7, PollIs DEF GenPoll
<1>16. PICK q \in Polls : q = p
  BY <1>6
<1>17. poll' = q
  BY <1>1, <1>16
<1>10. UNCHANGED <<tool, content, tail, stamp, late, writes>> /\ Current' = Current /\ FilesBounded'
  BY <1>1, SourceKept
<1>11. DbTyped' /\ poll' # NoPoll /\ entry' # NoEntry
  <2>1. hidden' \in BOOLEAN
    BY <1>1
  <2> QED
    BY <1>1, <1>4, <1>6, <1>10, <2>1 DEF DbInv, DbTyped
<1>12. PollTrue' /\ PollCalm'
  <2>1. PollHolds(q) /\ CalmHolds(q)
    BY <1>8, <1>16
  <2>2. PollHolds(q)' /\ CalmHolds(q)'
    BY <1>1, <2>1, SourceKept
  <2> QED
    BY <1>17, <2>2 DEF PollTrue, PollCalm, PollHolds, CalmHolds, Matches
<1>13. EntryTrue'
  BY <1>1, <1>3, <1>4, <1>7, <1>10, <1>11 DEF EntryTrue, SignedAs
<1>14. HandleTrue'
  BY <1>1, <1>10, PollIs DEF HandleTrue
<1>15. GenerationsKept'
  <2> SUFFICES ASSUME tool = "antigravity"
               PROVE  CursorKept' /\ (poll' # NoPoll => GenPoll(poll)') /\ EntryKept'
    BY <1>1, GenerationsMove
  <2>1. CursorKept'
    BY <1>1, CursorStays
  <2>4. GenPoll(q)
    BY <1>9, <1>16
  <2>2. GenPoll(q)'
    BY <1>1, <1>10, <2>4 DEF GenPoll, Written
  <2>3. EntryKept'
    <3> SUFFICES ASSUME ~hidden', NEW r \in Rows, Current.rows[r] > 0
                 PROVE  r < e.result
      BY <1>1, <1>10 DEF EntryKept
    <3>1. poll.read = stamp
      BY <1>1
    <3>2. r < poll.result
      BY <1>1, <3>1, PollIs DEF GenPoll
    <3> QED
      BY <1>4, <3>2
  <2> QED
    BY <1>17, <2>1, <2>2, <2>3 DEF GenPoll, Written
<1> QED
  BY <1>10, <1>11, <1>12, <1>13, <1>14, <1>15 DEF DbInv

\* What an upload leaves on the hub.
LEMMA DeliveredIs ==
  ASSUME DbInv, NEW R \in SUBSET (Rows \cup {Residual}), NEW e \in [R -> 0..MaxWrites]
  PROVE  /\ Delivered(e) \in [Rows \cup {Residual} -> 0..MaxWrites]
         /\ \A r \in Rows \cup {Residual} :
              Delivered(e)[r] = IF r \in R THEN e[r] ELSE dbHub[r]
<1>1. DOMAIN e = R
  OBVIOUS
<1>2. dbHub \in [Rows \cup {Residual} -> 0..MaxWrites]
  BY DbHubIs
<1> QED
  BY <1>1, <1>2 DEF Delivered

\* What the hub holds after an upload.
LEMMA UploadedIs ==
  ASSUME DbInv, poll # NoPoll, poll.at = "upload"
  PROVE  \E R \in SUBSET (Rows \cup {Residual}) :
           DOMAIN poll.events = R /\ poll.events \in [R -> 0..MaxWrites]
<1>1. poll \in Polls /\ PollHolds(poll)
  BY PollIs
<1>2. poll.events \in UNION {[R -> Nat] : R \in SUBSET (Rows \cup {Residual})}
  BY <1>1 DEF Polls
<1>3. PICK R \in SUBSET (Rows \cup {Residual}) : poll.events \in [R -> Nat]
  BY <1>2
<1>4. \A r \in R : poll.events[r] \in 0..MaxWrites
  <2> TAKE r \in R
  <2>1. poll.events[r] \in Nat /\ r \in DOMAIN poll.events
    BY <1>3
  <2>2. poll.events[r] <= MaxWrites
    BY <1>1, <2>1 DEF PollHolds
  <2> QED
    BY <2>1, <2>2, DatabaseAssumption
<1>5. DOMAIN poll.events = R /\ poll.events \in [R -> 0..MaxWrites]
  BY <1>3, <1>4
<1> QED
  BY <1>5

\* An upload that succeeds.
LEMMA UploadKeeps == ASSUME DbInv, Upload PROVE DbInv'
<1> USE DatabaseAssumption
<1>1. /\ poll # NoPoll /\ poll.at = "upload" /\ dbHub' = Delivered(poll.events)
      /\ dbCursor' = poll.result /\ poll' = NoPoll /\ Source
      /\ UNCHANGED <<handle, entry, hidden, dbFaults>>
  BY DEF Upload
<1>2. poll \in Polls /\ PollHolds(poll) /\ CalmHolds(poll)
  BY <1>1, PollIs
<1>3. PICK R \in SUBSET (Rows \cup {Residual}) :
        DOMAIN poll.events = R /\ poll.events \in [R -> 0..MaxWrites]
  BY <1>1, UploadedIs
<1>4. /\ dbHub' \in [Rows \cup {Residual} -> 0..MaxWrites]
      /\ \A r \in Rows \cup {Residual} :
           dbHub'[r] = IF r \in R THEN poll.events[r] ELSE dbHub[r]
  BY <1>1, <1>3, DeliveredIs
<1>5. UNCHANGED <<tool, content, tail, stamp, late, writes>> /\ Current' = Current
  BY <1>1, SourceKept
<1>6. dbCursor' \in 0..(MaxWrites + MaxRow + 1)
  BY <1>1, <1>2 DEF PollHolds, Polls
<1>7. entry # NoEntry /\ ~entry.failed /\ entry.result = poll.result
        /\ (tool # "antigravity" => entry.stamp = poll.stamp)
  BY <1>1 DEF DbInv, EntryTrue
<1>8. ASSUME tool # "antigravity", Hit' PROVE SourceShown'
  <2>1. poll.stamp = stamp
    BY <1>1, <1>5, <1>7, <1>8 DEF Hit
  <2>2. Matches(poll.events)
    BY <1>1, <1>2, <1>8, <2>1 DEF CalmHolds
  <2> QED
    BY <1>3, <1>4, <1>5, <2>2 DEF SourceShown, Matches
<1>9. ASSUME tool = "antigravity" PROVE CursorKept' /\ EntryKept'
  <2>1. GenPoll(poll)
    BY <1>1, <1>9, PollIs
  <2>2. Written(Current, dbCursor)'
    BY <1>1, <1>5, <2>1 DEF GenPoll, Written
  <2>3. ASSUME NEW r \in Rows, r \notin late, r < poll.result, Current.rows[r] > 0
        PROVE  dbHub'[r] = 1
    <3>1. CASE r \in R
      BY <1>1, <1>3, <1>4, <2>1, <3>1 DEF GenPoll
    <3>2. CASE r \notin R
      <4>1. r \in Nat /\ dbCursor \in Nat
        BY <1>1, RowsFinite, PollIs
      <4>2. ~(dbCursor <= r)
        BY <1>1, <1>3, <2>1, <2>3, <3>2 DEF GenPoll
      <4>3. dbHub[r] = 1
        BY <1>9, <2>3, <4>1, <4>2 DEF DbInv, GenerationsKept
      <4> QED
        BY <1>4, <3>2, <4>3
    <3> QED
      BY <3>1, <3>2
  <2>4. CursorKept'
    BY <1>1, <1>5, <2>2, <2>3 DEF CursorKept
  <2>5. EntryKept'
    BY <1>1, <1>5, <1>9 DEF DbInv, GenerationsKept, EntryKept
  <2> QED
    BY <2>4, <2>5
<1>10. HandleTrue' /\ handle' \in Handles /\ dbFaults' \in 0..DbFaults
  BY <1>1, <1>5, PollIs DEF HandleTrue
<1> QED
  BY <1>1, <1>4, <1>6, <1>8, <1>9, <1>10, DbHubIs, PollEnds

\* After a part of an upload the cursor is not the entry's.
LEMMA UploadFailsKeeps == ASSUME DbInv, UploadFails PROVE DbInv'
<1> USE DatabaseAssumption
<1>1. /\ poll # NoPoll /\ poll.at = "upload" /\ DbFault /\ dbCursor # poll.result
      /\ poll' = NoPoll /\ Source /\ UNCHANGED <<handle, entry, dbCursor, hidden>>
  BY DEF UploadFails
<1>2. PICK arrived \in SUBSET DOMAIN poll.events :
        dbHub' = Delivered([r \in arrived |-> poll.events[r]])
  BY DEF UploadFails
<1>3. PICK R \in SUBSET (Rows \cup {Residual}) :
        DOMAIN poll.events = R /\ poll.events \in [R -> 0..MaxWrites]
  BY <1>1, UploadedIs
<1> DEFINE e == [r \in arrived |-> poll.events[r]]
<1>4. arrived \in SUBSET (Rows \cup {Residual}) /\ e \in [arrived -> 0..MaxWrites]
      /\ \A r \in arrived : e[r] = poll.events[r] /\ r \in DOMAIN poll.events
  BY <1>2, <1>3
<1>5. dbHub' = Delivered(e)
  BY <1>2
<1> HIDE DEF e
<1>6. /\ dbHub' \in [Rows \cup {Residual} -> 0..MaxWrites]
      /\ \A r \in Rows \cup {Residual} :
           dbHub'[r] = IF r \in arrived THEN poll.events[r] ELSE dbHub[r]
  <2>1. /\ Delivered(e) \in [Rows \cup {Residual} -> 0..MaxWrites]
        /\ \A r \in Rows \cup {Residual} :
             Delivered(e)[r] = IF r \in arrived THEN e[r] ELSE dbHub[r]
    BY <1>4, DeliveredIs
  <2> QED
    BY <1>4, <1>5, <2>1
<1>7. UNCHANGED <<tool, content, tail, stamp, late, writes>> /\ Current' = Current
  BY <1>1, SourceKept
<1>8. entry # NoEntry /\ ~entry.failed /\ entry.result = poll.result
  BY <1>1 DEF DbInv, EntryTrue
<1>9. ~Hit'
  BY <1>1, <1>8 DEF Hit
<1>10. ASSUME tool = "antigravity" PROVE CursorKept' /\ EntryKept'
  <2>1. GenPoll(poll)
    BY <1>1, <1>10, PollIs
  <2>2. \A r \in arrived : poll.events[r] = 1
    BY <1>1, <1>4, <2>1 DEF GenPoll
  <2>3. Written(Current, dbCursor)'
    BY <1>1, <1>7, <1>10 DEF DbInv, GenerationsKept, Written
  <2>4. \A r \in Rows \ late : r < dbCursor /\ Current.rows[r] > 0 => dbHub'[r] = 1
    BY <1>6, <1>10, <2>2 DEF DbInv, GenerationsKept
  <2>5. CursorKept'
    BY <1>1, <1>7, <2>3, <2>4 DEF CursorKept
  <2>6. EntryKept'
    BY <1>1, <1>7, <1>10 DEF DbInv, GenerationsKept, EntryKept
  <2> QED
    BY <2>5, <2>6
<1>11. HandleTrue' /\ handle' \in Handles
  BY <1>1, <1>7, PollIs DEF HandleTrue
<1> QED
  BY <1>1, <1>6, <1>9, <1>10, <1>11, FaultCounted, DbHubIs, PollEnds

-----------------------------------------------------------------------------
\* Every step keeps the invariant.
LEMMA DbStepKeeps == DbInv /\ [DbNext]_dbVars => DbInv'
<1> SUFFICES ASSUME DbInv, [DbNext]_dbVars PROVE DbInv'
  OBVIOUS
<1>1. CASE \E r \in Rows : Add(r) \/ Attribute(r) \/ BeginRecord(r) \/ Generate(r)
  BY <1>1, AddKeeps, AttributeKeeps, BeginRecordKeeps, GenerateKeeps
<1>2. CASE Checkpoint \/ Spend \/ EndRecord \/ ReplaceFile
  BY <1>2, CheckpointKeeps, SpendKeeps, EndRecordKeeps, ReplaceFileKeeps
<1>3. CASE Sign \/ Stat \/ OpenSource \/ DropHandle \/ OpenFails \/ CopyMain \/ CopyWAL
  BY <1>3, SignKeeps, StatKeeps, OpenSourceKeeps, DropHandleKeeps, OpenFailsKeeps,
     CopyMainKeeps, CopyWALKeeps
<1>4. CASE ReadSessions \/ ReadRows \/ StoreEntry \/ Upload \/ UploadFails \/ Restart
  BY <1>4, ReadSessionsKeeps, ReadRowsKeeps, StoreEntryKeeps, UploadKeeps,
     UploadFailsKeeps, RestartKeeps
<1>5. CASE UNCHANGED dbVars
  <2>1. UNCHANGED <<tool, content, tail, stamp, handle, entry, poll, dbCursor, dbHub, hidden,
                    late, writes, dbFaults>>
    BY <1>5 DEF dbVars
  <2>2. Current' = Current
    BY <2>1 DEF Current
  <2> QED
    BY <2>1, <2>2 DEF DbInv, DbTyped, FilesBounded, Bounded, HandleTrue, PollTrue, PollHolds,
       PollCalm, CalmHolds, Matches, EntryTrue, Hit, SourceShown, GenerationsKept, GenPoll, Written
<1> QED
  BY <1>1, <1>2, <1>3, <1>4, <1>5 DEF DbNext

\* The invariant always holds.
LEMMA DbInvAlways == DbSpec => []DbInv
BY DbInitHolds, DbStepKeeps, PTL DEF DbSpec

\* Of a source at rest whose last poll succeeded the hub shows every row, and for
\* hermes the tokens no row accounts for yet, whatever the tool wrote between the
\* signature, the lookup, the copy and the queries (CachedCollect, sqliteHandle,
\* copyDatabase, and the queries of each adapter), for any number of rows, writes
\* and failures. It says nothing of a residual of hermes that has come down to
\* nothing: what was sent of it stays on the hub (hermes.go, 203-206).
THEOREM SourceIsShown == DbSpec => []HubShowsSource
BY DbInvAlways, DbInvShows, PTL

\* The invariant contains the type.
LEMMA DbInvTyped == DbInv => DbTypeOK
<1> SUFFICES ASSUME DbInv PROVE DbTypeOK
  OBVIOUS
<1> USE DatabaseAssumption
<1>1. DbTyped
  BY DEF DbInv
<1>2. tool \in Tools /\ Len(content) \in 1..2 /\ stamp \in 1..(MaxWrites + 1)
  BY <1>1 DEF DbTyped
<1>3. ASSUME NEW i \in 1..Len(content)
      PROVE  content[i] \in [rows : [Rows -> 0..MaxWrites], main : [Rows -> 0..MaxWrites],
                             open : 0..MaxWrites, lines : 0..MaxWrites]
  <2> DEFINE c == content[i]
  <2>1. c \in Contents /\ Bounded(c)
    BY <1>1, FilesTyped DEF DbInv, FilesBounded
  <2> HIDE DEF c
  <2>2. /\ c.rows \in [Rows -> Nat] /\ c.main \in [Rows -> Nat] /\ c.open \in Nat /\ c.lines \in Nat
        /\ c = [rows |-> c.rows, main |-> c.main, open |-> c.open, lines |-> c.lines]
    BY <2>1 DEF Contents
  <2>3. \A r \in Rows : c.rows[r] \in 0..MaxWrites /\ c.main[r] \in 0..MaxWrites
    <3> TAKE r \in Rows
    <3>1. c.rows[r] + c.open <= writes /\ c.main[r] <= writes
      BY <2>1 DEF Bounded
    <3>2. c.rows[r] \in Nat /\ c.main[r] \in Nat
      BY <2>2
    <3> QED
      BY <2>2, <3>1, <3>2, CurrentIs
  <2>4. c.open \in 0..MaxWrites /\ c.lines \in 0..MaxWrites
    <3>1. 1 \in Rows
      BY DEF Rows
    <3>2. c.rows[1] + c.open <= writes /\ c.rows[1] \in Nat /\ c.lines <= writes
      BY <2>1, <2>2, <3>1 DEF Bounded
    <3> QED
      BY SMTT(40), <2>2, <3>2, CurrentIs
  <2>5. c.rows \in [Rows -> 0..MaxWrites] /\ c.main \in [Rows -> 0..MaxWrites]
    BY <2>2, <2>3
  <2>6. c \in [rows : [Rows -> 0..MaxWrites], main : [Rows -> 0..MaxWrites],
               open : 0..MaxWrites, lines : 0..MaxWrites]
    BY <2>2, <2>4, <2>5
  <2> QED
    BY <2>6 DEF c
<1>4. tail \in [Rows -> 0..MaxWrites]
  <2>1. \A r \in Rows : tail[r] \in 0..MaxWrites
    BY CurrentIs
  <2> QED
    BY <2>1, CurrentIs
<1>5. handle \in [id : 0..2, db : 0..2]
  <2>1. handle \in Handles /\ HandleTrue
    BY <1>1 DEF DbInv, DbTyped
  <2>2. handle = NoHandle => handle \in [id : 0..2, db : 0..2]
    BY DEF NoHandle
  <2>3. handle # NoHandle => handle.id \in 0..2 /\ handle.db \in 0..2
    <3> DEFINE n == Len(content)
    <3>1. n \in 1..2
      BY <1>2
    <3>2. handle # NoHandle => 1 <= handle.id /\ handle.id <= handle.db /\ handle.db <= n
      BY <2>1 DEF HandleTrue
    <3> HIDE DEF n
    <3> QED
      BY <2>1, <3>1, <3>2 DEF Handles
  <2> QED
    BY <2>1, <2>2, <2>3 DEF Handles
<1>6. entry # NoEntry => entry.stamp \in 1..stamp /\ entry.failed \in BOOLEAN
  <2>1. entry # NoEntry => entry \in Entries /\ 1 <= entry.stamp /\ entry.stamp <= stamp
    BY DbHubIs
  <2> QED
    BY <1>2, <2>1 DEF Entries
<1>7. poll # NoPoll => /\ poll.stamp \in 1..stamp /\ poll.id \in 0..2 /\ poll.db \in 0..2
                       /\ poll.at \in Places
  <2> SUFFICES ASSUME poll # NoPoll
               PROVE  /\ poll.stamp \in 1..stamp /\ poll.id \in 0..2 /\ poll.db \in 0..2
                      /\ poll.at \in Places
    OBVIOUS
  <2> DEFINE n == Len(content)
  <2>1. n \in {1, 2} /\ poll \in Polls /\ stamp \in Nat
    BY PollIs
  <2>2. 1 <= poll.stamp /\ poll.stamp <= stamp /\ poll.id <= n /\ poll.db <= n
    BY PollIs DEF PollHolds
  <2> HIDE DEF n
  <2> QED
    BY <2>1, <2>2 DEF Polls
<1>8. /\ dbCursor \in 0..(MaxWrites + MaxRow + 1)
      /\ dbHub \in [Rows \cup {Residual} -> 0..MaxWrites]
      /\ late \subseteq Rows /\ writes \in 0..MaxWrites /\ dbFaults \in 0..DbFaults
  BY <1>1 DEF DbTyped
<1> QED
  BY <1>2, <1>3, <1>4, <1>5, <1>6, <1>7, <1>8 DEF DbTypeOK

\* The files of the tool, the handle, the cache entry and the poll have the shape
\* the code gives them, for any number of rows, writes and failures.
THEOREM DbTypeCorrect == DbSpec => []DbTypeOK
BY DbInvAlways, DbInvTyped, PTL

------------------------------------------------------------------------------
(*****************************************************************************)
(* All side by side.                                                         *)
(*****************************************************************************)

\* What holds of a part by itself holds of it beside the other ones: a step of
\* one part leaves the others alone.
THEOREM LocalHoldsParts == LocalSpec => CodexSpec /\ DbSpec /\ HealthSpec
<1>1. LocalInit => CodexInit /\ DbInit /\ HealthInit
  BY DEF LocalInit
<1>2. [LocalNext]_<<part, codexVars, dbVars, health>> =>
        [CodexNext]_codexVars /\ [DbNext]_dbVars /\ [HealthNext]_health
  BY DEF LocalNext
<1> QED
  BY <1>1, <1>2, PTL DEF LocalSpec, CodexSpec, DbSpec, HealthSpec

\* The state of every part has the shape its code gives it.
THEOREM LocalTypeCorrect == LocalSpec => []LocalTypeOK
BY LocalHoldsParts, CodexTypeCorrect, DbTypeCorrect, HealthTypeCorrect, PTL DEF LocalTypeOK
==============================================================================
