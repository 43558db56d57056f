---------------------------- MODULE MachineHealth ----------------------------
(* The connector health of one machine: the passes of its agent and the wait  *)
(* between them, the heartbeat each pass sends before its upload, and what    *)
(* the hub keeps and shows of it.  Time is counted in units in which the      *)
(* windows of the dashboard are whole numbers.                                *)
EXTENDS Integers, FiniteSets

CONSTANTS
    Sources,          \* sources the agent may discover
    HeartbeatLimit,   \* the hub refuses a heartbeat with more sources than this
    ConnectedWindow,  \* MachineConnectedWindow
    StaleWindow,      \* MachineStaleWindow
    Interval,         \* the configured poll interval
    MinBackoff,       \* minAgentFailureBackoff
    MaxBackoff,       \* maxAgentFailureBackoff
    PassTime,         \* bound: time that passes inside one pass
    MaxNow,           \* bound: the clock
    HealthFaults      \* bound: lost, late or failed requests and stops

ASSUME HealthAssumption ==
    /\ {HeartbeatLimit, ConnectedWindow, StaleWindow, Interval, MinBackoff,
        MaxBackoff, PassTime, MaxNow, HealthFaults} \subseteq Nat
    /\ ConnectedWindow <= StaleWindow /\ MinBackoff <= MaxBackoff
    /\ IsFiniteSet(Sources) /\ MaxNow >= 1

VARIABLES
    now,      \* the clock, one for the agent and the hub
    found,    \* sources discovered so far
    agent,    \* "off", "sleep", "pass" (collected), "told" (heartbeat sent)
    wait,     \* time left on the timer between passes
    pace,     \* currentInterval of the poll loop
    spent,    \* time this pass has taken
    reports,  \* the source reports of this pass
    synced,   \* source_state.last_successful_sync; 0 is no row
    beat,     \* a heartbeat the agent gave up on and the hub may still apply
    seen,     \* machines.last_seen_at; 0 is no row
    errors,   \* machines.source_error_count
    rows,     \* machine_source_health of this machine
    past      \* history: the last heartbeat applied, the newest stamp stored, the
              \* last time each source was read or committed, whether a
              \* heartbeat was missed since the last one applied, faults

health == <<now, found, agent, wait, pace, spent, reports, synced, beat, seen,
            errors, rows, past>>
hub == <<seen, errors, rows>>
loop == <<agent, wait, pace, spent>>

Larger(a, b) == IF a > b THEN a ELSE b
Smaller(a, b) == IF a < b THEN a ELSE b
NoReports == [s \in {} |-> 0]

(* machineStatus: an age below zero counts as connected.                      *)
Status(last) ==
    IF now - last <= ConnectedWindow THEN "Connected"
    ELSE IF now - last <= StaleWindow THEN "Stale" ELSE "Offline"

(* a faulty variant: the pace doubles without a ceiling                       *)
NextPaceUnbounded(current) == Larger(2 * current, Larger(Interval, MinBackoff))

(* nextAgentFailureInterval                                                   *)
NextPace(current) ==
    LET baseline == Larger(Interval, MinBackoff)
        ceiling == Larger(MaxBackoff, baseline)
    IN IF current < baseline THEN baseline ELSE Smaller(2 * current, ceiling)

HealthInit ==
    /\ now = 1 /\ found = {}
    /\ agent = "sleep" /\ wait = 0 /\ pace = Interval /\ spent = 0
    /\ reports = NoReports
    /\ synced = [s \in Sources |-> 0]
    /\ beat = NoReports
    /\ seen = 0 /\ errors = 0 /\ rows = NoReports
    /\ past = [beat |-> 0, stamp |-> 0, read |-> [s \in Sources |-> 0],
               missed |-> TRUE, faults |-> 0]

Faulty == past.faults < HealthFaults
Missed(counts) == [past EXCEPT !.missed = TRUE,
                               !.faults = @ + (IF counts THEN 1 ELSE 0)]

(* The timer starts with the pace the pass has left.                          *)
SleepAt(p) ==
    /\ agent' = "sleep" /\ pace' = p /\ wait' = p /\ spent' = 0
    /\ reports' = NoReports

Tick ==
    /\ now < MaxNow
    /\ \/ agent = "sleep" /\ wait > 0 /\ wait' = wait - 1 /\ UNCHANGED spent
       \/ agent \in {"pass", "told"} /\ spent < PassTime /\ spent' = spent + 1
          /\ UNCHANGED wait
       \/ agent = "off" /\ UNCHANGED <<wait, spent>>
    /\ now' = now + 1
    /\ UNCHANGED <<found, agent, pace, reports, synced, beat, hub, past>>

Appear(s) ==
    /\ s \notin found
    /\ found' = found \cup {s}
    /\ UNCHANGED <<now, loop, reports, synced, beat, hub, past>>

(* The health check that precedes a pass fails.                               *)
HubDown ==
    /\ agent = "sleep" /\ wait = 0 /\ Faulty
    /\ SleepAt(NextPace(pace))
    /\ past' = Missed(TRUE)
    /\ UNCHANGED <<now, found, synced, beat, hub>>

(* a faulty variant: a failing source reports the time of this pass           *)
ReportedNow(s, ok, known) == now

(* A source that was read reports this moment; a failing one the time the     *)
(* state database has for it, unless that database could not be read.         *)
Reported(s, ok, known) == IF ok THEN now ELSE IF known THEN synced[s] ELSE 0

(* CollectWithCursors and the source reports built from it; a source that was *)
(* read has moved when its cursor differs from the committed one.             *)
Collect ==
    /\ agent = "sleep" /\ wait = 0
    /\ \E ok \in SUBSET found, known \in {TRUE} \cup {~Faulty} :
       \E moved \in SUBSET ok :
        /\ reports' = [s \in found |-> [sync |-> Reported(s, s \in ok, known),
                                        ok |-> s \in ok, moved |-> s \in moved]]
        /\ past' = [past EXCEPT
                !.read = [s \in Sources |-> IF s \in ok THEN now ELSE @[s]],
                !.faults = @ + (IF known THEN 0 ELSE 1)]
    /\ agent' = "pass"
    /\ UNCHANGED <<now, found, wait, pace, spent, synced, beat, hub>>

(* The list of a health-aware agent replaces the machine's rows.              *)
Replaced(list) == [s \in DOMAIN list |-> [sync |-> list[s].sync, ok |-> list[s].ok]]

(* RecordHeartbeat: one transaction, stamped with the hub's clock.            *)
RecordHeartbeat(list) ==
    /\ seen' = now
    /\ errors' = Cardinality({s \in DOMAIN list : ~list[s].ok})
    /\ rows' = Replaced(list)

Accepted(list) == Cardinality(DOMAIN list) <= HeartbeatLimit

(* The agent sends its heartbeat; whatever becomes of it, the pass goes on.   *)
Heartbeat ==
    /\ agent = "pass"
    /\ agent' = "told"
    /\ \/ /\ Accepted(reports)
          /\ RecordHeartbeat(reports)
          /\ past' = [past EXCEPT !.beat = now, !.missed = FALSE]
          /\ beat' = NoReports
       \/ /\ ~Accepted(reports)
          /\ past' = Missed(FALSE) /\ beat' = NoReports
          /\ UNCHANGED hub
       \/ /\ Faulty
          /\ past' = Missed(TRUE)
          /\ beat' \in {NoReports, reports}
          /\ UNCHANGED hub
    /\ UNCHANGED <<now, found, wait, pace, spent, reports, synced>>

(* The hub applies a heartbeat its agent has given up on, before the next.    *)
LateHeartbeat ==
    /\ beat # NoReports /\ Accepted(beat)
    /\ RecordHeartbeat(beat)
    /\ beat' = NoReports
    /\ past' = [past EXCEPT !.beat = now]
    /\ UNCHANGED <<now, found, loop, reports, synced>>

(* Upload and commit: the hub raises last_seen_at to the stamp of an event,   *)
(* which may be ahead of its clock; the commit skips a source whose cursor    *)
(* did not move; failing sources make the pass fail all the same.             *)
Finish ==
    /\ agent = "told"
    /\ synced' = [s \in Sources |->
            IF s \in DOMAIN reports /\ reports[s].ok
               /\ (reports[s].moved \/ synced[s] = 0)
            THEN now ELSE synced[s]]
    /\ \/ /\ UNCHANGED seen
          /\ \A s \in DOMAIN reports : ~reports[s].moved
          /\ past' = [past EXCEPT !.read = [s \in Sources |->
                 IF synced'[s] # synced[s] THEN now ELSE @[s]]]
       \/ \E stamp \in {now, now + 1} :
            /\ seen' = Larger(seen, stamp)
            /\ past' = [past EXCEPT !.stamp = Larger(@, stamp),
                 !.read = [s \in Sources |-> IF synced'[s] # synced[s]
                                             THEN now ELSE @[s]]]
    /\ SleepAt(IF \E s \in DOMAIN reports : ~reports[s].ok
               THEN NextPace(pace) ELSE Interval)
    /\ UNCHANGED <<now, found, beat, errors, rows>>

(* The upload fails: nothing is committed.                                    *)
UploadLost ==
    /\ agent = "told" /\ Faulty
    /\ past' = [past EXCEPT !.faults = @ + 1]
    /\ SleepAt(NextPace(pace))
    /\ UNCHANGED <<now, found, synced, beat, hub>>

Stop ==
    /\ agent # "off" /\ Faulty
    /\ agent' = "off" /\ reports' = NoReports
    /\ wait' = 0 /\ spent' = 0 /\ pace' = Interval
    /\ past' = Missed(TRUE)
    /\ UNCHANGED <<now, found, synced, beat, hub>>

Start ==
    /\ agent = "off"
    /\ agent' = "sleep"
    /\ UNCHANGED <<now, found, wait, pace, spent, reports, synced, beat, hub, past>>

HealthNext ==
    \/ Tick \/ HubDown \/ Collect \/ Heartbeat \/ LateHeartbeat
    \/ Finish \/ UploadLost \/ Stop \/ Start
    \/ \E s \in Sources : Appear(s)

HealthSpec == HealthInit /\ [][HealthNext]_health

----------------------------------------------------------------------------
(* The state is well formed.                                                  *)
HealthTypeOK ==
    /\ now \in 1..MaxNow /\ found \subseteq Sources
    /\ agent \in {"off", "sleep", "pass", "told"}
    /\ wait \in 0..Larger(Interval, MaxBackoff) /\ spent \in 0..PassTime
    /\ DOMAIN reports \subseteq found /\ DOMAIN rows \subseteq found
    /\ synced \in [Sources -> 0..MaxNow]
    /\ seen \in 0..MaxNow + 1 /\ errors \in 0..Cardinality(Sources)

(* The status of a machine follows its contacts: it is Connected while its    *)
(* last heartbeat is within the window and never without a heartbeat or an    *)
(* event stamped within it.                                                   *)
StatusFollowsContact ==
    seen # 0 =>
        /\ past.beat # 0 /\ now - past.beat <= ConnectedWindow
              => Status(seen) = "Connected"
        /\ Status(seen) = "Connected"
              => now - Larger(past.beat, past.stamp) <= ConnectedWindow

(* No row shows a sync later than the source was read or committed: a failing *)
(* source never appears freshly synced by failing.                            *)
SyncWasRead == \A s \in DOMAIN rows : rows[s].sync <= past.read[s]

(* The rows and the count beside them come from one heartbeat.                *)
RowsMatchCount == errors = Cardinality({s \in DOMAIN rows : ~rows[s].ok})

(* An agent that runs and whose heartbeats all arrive is never shown Offline, *)
(* although failing sources make it poll more slowly: the ceiling of the      *)
(* backoff and the time of a pass stay within the stale window                *)
(* (main.go:738-748, main.go:774-790, dashboard.go:16-21).                    *)
RunningNeverOffline ==
    (agent # "off" /\ ~past.missed) => Status(seen) # "Offline"

(* What the machines page says of a machine is true of it                     *)
(* (dashboard.go:253-368, database.go:959-1029).                              *)
HealthIsHonest ==
    StatusFollowsContact /\ SyncWasRead /\ RowsMatchCount /\ RunningNeverOffline
=============================================================================
