-------------------------------- MODULE CodexLog --------------------------------
(***************************************************************************)
(* The Codex adapter: the log of a session, possibly forked from another   *)
(* session, is read incrementally from a parse state kept in the cursor    *)
(* (parseLogUncached, logCacheIdentity, resolveForkBaseline and            *)
(* subtractInheritedPrefix in internal/adapters/codex/codex.go).           *)
(*                                                                         *)
(* A record carries a cumulative total, or what the last turn has used; a  *)
(* log is of one style. A forked log may begin with a copy of its parent's *)
(* records. Token counts are their totals: the components are treated      *)
(* alike. The parent's records up to the fork are on disk before the fork. *)
(***************************************************************************)
EXTENDS Integers, Sequences, FiniteSets, FiniteSetsExt, SequencesExt

CONSTANTS
  Uses,        \* tokens one turn may use
  MaxTurns,    \* bound on records of a log
  MaxChanges,  \* bound on parents that come and go and on lost states
  CodexFaults, \* bound on polls that are not committed or cannot read the parent
  None

ASSUME CodexAssumption ==
  /\ Uses \subseteq Nat \ {0} /\ IsFiniteSet(Uses)
  /\ MaxTurns \in Nat /\ MaxChanges \in Nat /\ CodexFaults \in Nat

VARIABLES
  parent,     \* the parent's cumulative totals, one per record
  forkAt,     \* how many of them the fork inherits; 0 without a fork
  style,      \* of the session's own log: "total" or "last"
  session,    \* its records; used: what the session itself has used (ghost)
  there,      \* is the parent's log on disk?
  index,      \* sessionFiles: does the last discovery know the parent?
  looked,     \* the environment the running poll has found; <<>> between polls
  resume,     \* the committed cursor: environment, line and parse state
  resolved,   \* ghost: has the parse the cursor is of read the parent's total?
  sent,       \* tokens on the hub, by line
  settled,    \* ghost: has no full parse been lost since the last committed one?
  changes, codexFaults

codexVars == <<parent, forkAt, style, session, there, index, looked, resume, resolved,
               sent, settled, changes, codexFaults>>

NatMax(a, b) == IF a < b THEN b ELSE a
Total == IF parent = <<>> THEN 0 ELSE Last(parent)

(***************************************************************************)
(* The environment a parse state belongs to: what is known of the parent.  *)
(***************************************************************************)

\* Faulty variant: the parse state does not depend on the parent.
EnvironmentIgnored == <<"alone">>

\* logCacheIdentity
Environment ==
  IF forkAt = 0 THEN <<"alone">>
  ELSE IF ~index THEN <<"unresolved">>
  ELSE IF ~there THEN <<"unavailable">>
  ELSE <<"parent", Len(parent)>>

\* resolveForkBaseline and inheritedCumulativeUsage: is there a total to be read?
Resolved == forkAt > 0 /\ index /\ there

(***************************************************************************)
(* One pass over the lines                                                 *)
(***************************************************************************)

\* The state before the first line, with the parent's total or without.
Fresh(known) ==
  LET baseline == IF known THEN parent[forkAt] ELSE 0
  IN  [previous |-> 0, had |-> FALSE, baseline |-> baseline, resolved |-> known,
       pending |-> known, remaining |-> baseline]

\* A cumulative snapshot: copied ones are suppressed until the session has
\* passed the baseline; a total that falls starts a new sequence.
Cumulative(state, total) ==
  IF state.pending /\ total <= state.baseline
  THEN [state |-> state, tokens |-> 0, emit |-> TRUE]
  ELSE LET previous == IF state.pending THEN state.baseline ELSE state.previous
           had      == state.pending \/ state.had
           used     == IF had /\ total < previous THEN total ELSE NatMax(0, total - previous)
       IN  [state  |-> [state EXCEPT !.previous = total, !.had = TRUE, !.pending = FALSE],
            tokens |-> used, emit |-> used > 0 \/ had]

\* The use of one turn, less what is left of the inherited prefix.
LastTurn(state, used) ==
  LET own == IF state.resolved THEN NatMax(0, used - state.remaining) ELSE used
  IN  [state  |-> [state EXCEPT !.remaining =
                     IF state.resolved THEN NatMax(0, @ - used) ELSE @],
       tokens |-> own, emit |-> own > 0 \/ state.resolved]

\* A record read in a pass that has seen these turns already.
Reading(state, record, seen) ==
  IF record.kind = "total" THEN Cumulative(state, record.tokens)
  ELSE LET read == LastTurn(state, record.tokens)
       IN  [read EXCEPT !.emit = @ /\ record.turn \notin seen]

\* parseLogUncached from a line on: the state after it and its events.
Pass(state, from) ==
  FoldLeft(
    LAMBDA acc, i :
      LET read == Reading(acc.state, session[i], acc.seen)
      IN  [state  |-> read.state,
           seen   |-> acc.seen \cup {session[i].turn},
           events |-> IF read.emit
                      THEN acc.events \cup {[line |-> i, tokens |-> read.tokens]}
                      ELSE acc.events],
    [state |-> state, seen |-> {}, events |-> {}],
    [i \in 1..(Len(session) - from) |-> from + i])

\* The state of a cursor is used only in the environment it was made in.
Resumable ==
  resume.state # None /\ resume.line > 0 /\ resume.env = looked

Parsed(known) == IF Resumable THEN Pass(resume.state, resume.line) ELSE Pass(Fresh(known), 0)

\* What a full parse would send now.
Full == Pass(Fresh(Resolved), 0).events

Stored(events) ==
  [i \in DOMAIN sent \cup {e.line : e \in events} |->
     IF \E e \in events : e.line = i
     THEN (CHOOSE e \in events : e.line = i).tokens ELSE sent[i]]

(***************************************************************************)
(* The tool                                                                *)
(***************************************************************************)

AgentSide == UNCHANGED <<index, looked, resume, resolved, sent, settled, codexFaults>>

ParentTurn(n) ==
  /\ there /\ Len(parent) < MaxTurns
  /\ parent' = Append(parent, Total + n)
  /\ AgentSide /\ UNCHANGED <<forkAt, style, session, there, changes>>

Use(n) == IF Len(parent) = 1 THEN parent[1] ELSE parent[n] - (IF n = 1 THEN 0 ELSE parent[n - 1])

\* The session is forked; its log begins with a copy of the parent's records,
\* or, for totals, with none.
ForkNow ==
  /\ forkAt = 0 /\ session = <<>> /\ parent # <<>>
  /\ forkAt' = Len(parent)
  /\ LET copy == [i \in 1..Len(parent) |->
                    [kind |-> style, tokens |-> IF style = "total" THEN parent[i] ELSE Use(i),
                     turn |-> i, used |-> 0]]
     IN  \/ session' = copy
         \/ style = "total" /\ session' = <<>>
  /\ AgentSide /\ UNCHANGED <<parent, style, there, changes>>

\* The cumulative total the session goes on from.
Carried == IF session # <<>> THEN Last(session).tokens
           ELSE IF forkAt = 0 THEN 0 ELSE parent[forkAt]

Turn(n) ==
  /\ Len(session) < MaxTurns + forkAt
  /\ session' = Append(session,
       [kind |-> style, tokens |-> IF style = "total" THEN Carried + n ELSE n,
        turn |-> Len(session) + 1, used |-> n])
  /\ AgentSide /\ UNCHANGED <<parent, forkAt, style, there, changes>>

\* The totals begin again, in a session that has turns of its own.
Restarted(n) ==
  /\ style = "total" /\ Len(session) < MaxTurns + forkAt
  /\ session # <<>> /\ Last(session).used > 0 /\ n < Last(session).tokens
  /\ session' = Append(session,
       [kind |-> "total", tokens |-> n, turn |-> Len(session) + 1, used |-> n])
  /\ AgentSide /\ UNCHANGED <<parent, forkAt, style, there, changes>>

\* The same turn is reported once more, in a log that is not forked.
Repeated ==
  /\ session # <<>> /\ forkAt = 0 /\ Len(session) < MaxTurns
  /\ session' = Append(session, [Last(session) EXCEPT !.used = 0])
  /\ AgentSide /\ UNCHANGED <<parent, forkAt, style, there, changes>>

Change == changes < MaxChanges /\ changes' = changes + 1

\* The parent's log appears late, or is removed.
ParentMoves ==
  /\ Change
  /\ there' = ~there
  /\ AgentSide /\ UNCHANGED <<parent, forkAt, style, session>>

\* The parse state was written by another version.
StateLost ==
  /\ looked = <<>> /\ Change /\ resume.state # None
  /\ resume' = [resume EXCEPT !.state = None]
  /\ UNCHANGED <<parent, forkAt, style, session, there, index, looked, resolved, sent, settled,
                 codexFaults>>

(***************************************************************************)
(* The agent. A poll takes the signature of the parent's log first, and    *)
(* reads the parent and the log after it: the tool can write in between,   *)
(* and the parent's log can come or go. What is written while the lines    *)
(* are being parsed and sent touches nothing of the poll, so that the read *)
(* and the commit are one step.                                            *)
(***************************************************************************)

\* refreshSessionIndex
Discover ==
  /\ looked = <<>> /\ index # there
  /\ index' = there
  /\ UNCHANGED <<parent, forkAt, style, session, there, looked, resume, resolved, sent, settled,
                 changes, codexFaults>>

\* parseLog takes the identity of the environment.
Look ==
  /\ looked = <<>>
  /\ looked' = Environment
  /\ UNCHANGED <<parent, forkAt, style, session, there, index, resume, resolved, sent, settled,
                 changes, codexFaults>>

\* parseLogUncached, upload and commit, under the identity of the look.
Poll(known) ==
  /\ looked # <<>> /\ looked' = <<>>
  /\ sent' = Stored(Parsed(known).events)
  /\ resume' = [env |-> looked, line |-> Len(session), state |-> Parsed(known).state]
  /\ resolved' = Parsed(known).state.resolved
  /\ settled' = (settled \/ ~Resumable)
  /\ UNCHANGED <<parent, forkAt, style, session, there, index, changes>>

ParseAndCommit == Poll(Resolved) /\ UNCHANGED codexFaults

CodexFault == codexFaults < CodexFaults /\ codexFaults' = codexFaults + 1

\* The parent cannot be read: resolveForkBaseline drops the error.
ParentUnread == CodexFault /\ Resolved /\ ~Resumable /\ Poll(FALSE)

\* Only a part of the events arrives, or the parse fails.
ParseAndLose ==
  /\ CodexFault
  /\ looked # <<>> /\ looked' = <<>>
  /\ \E known \in {Resolved, FALSE} : \E arrived \in SUBSET Parsed(known).events :
       sent' = Stored(arrived)
  /\ settled' = (settled /\ Resumable)
  /\ UNCHANGED <<parent, forkAt, style, session, there, index, resume, resolved, changes>>

CodexInit ==
  /\ parent = <<>> /\ forkAt = 0 /\ session = <<>>
  /\ style \in {"total", "last"} /\ there \in BOOLEAN /\ index = FALSE
  /\ resume = [env |-> <<>>, line |-> 0, state |-> None]
  /\ looked = <<>> /\ resolved = FALSE /\ sent = <<>> /\ settled = TRUE
  /\ changes = 0 /\ codexFaults = 0

CodexNext ==
  \/ \E n \in Uses : ParentTurn(n) \/ Turn(n) \/ Restarted(n)
  \/ ForkNow \/ Repeated \/ ParentMoves \/ StateLost
  \/ Discover \/ Look \/ ParseAndCommit \/ ParentUnread \/ ParseAndLose

CodexSpec == CodexInit /\ [][CodexNext]_codexVars

-----------------------------------------------------------------------------

CodexTypeOK ==
  /\ \A i \in 1..Len(parent) : parent[i] \in Nat
  /\ forkAt \in 0..Len(parent) /\ style \in {"total", "last"}
  /\ \A i \in 1..Len(session) :
       session[i] \in [kind : {style}, tokens : Nat, turn : Nat, used : Nat]
  /\ there \in BOOLEAN /\ index \in BOOLEAN /\ settled \in BOOLEAN /\ resolved \in BOOLEAN
  /\ resume.line \in 0..Len(session)
  /\ DOMAIN sent \subseteq 1..Len(session) /\ \A i \in DOMAIN sent : sent[i] \in Nat
  /\ changes \in 0..MaxChanges /\ codexFaults \in 0..CodexFaults

\* A line that repeats a turn of an earlier one.
Repeats(i) == \E j \in 1..(i - 1) : session[j].kind = "last" /\ session[j].turn = session[i].turn

Caught == settled /\ resume.line = Len(session) /\ resume.env = Environment

\* The parse has read the parent's total just when its environment names the
\* parent's log: the log has neither come nor gone, nor failed to be read,
\* between the look and the read.
Certain == resolved = (Len(resume.env) = 2)

HoldsFull ==
  /\ \A e \in Full : e.line \in DOMAIN sent /\ sent[e.line] = e.tokens
  /\ \A i \in DOMAIN sent : (\E e \in Full : e.line = i) \/ Repeats(i)

(***************************************************************************)
(* "the adapter-private state a resumed parse needs to produce events      *)
(* identical to a full re-parse" (codex.go, 468-471): after a committed    *)
(* poll the hub holds what a full parse sends and nothing else, wherever   *)
(* the log was cut by polls; only repeated turns, which the hub drops by   *)
(* their dimensions, may be there besides (codex.go, 572-575). A state the *)
(* read of which missed the parent the look has named is not such a state: *)
(* ResumeAlwaysFull.                                                       *)
(***************************************************************************)
ResumeIsFull == Caught /\ Certain => HoldsFull

(***************************************************************************)
(* The same of every state that is resumed, as the comment has it          *)
(* (codex.go, 468-471). It fails: logCacheIdentity names the parent, the   *)
(* read of the parent fails or finds it gone, resolveForkBaseline drops    *)
(* the error (437-440), and the state without the parent's total is        *)
(* resumed from then on under the identity that names the parent.          *)
(***************************************************************************)
ResumeAlwaysFull == Caught => HoldsFull

SumOver(f, lines) == FoldSet(LAMBDA i, acc : f[i] + acc, 0, lines)

(***************************************************************************)
(* A fork's inherited tokens count once: after a committed poll that knows *)
(* the parent, the session counts what it has used itself, whether its log *)
(* copies the parent's records or not, was read before the parent was      *)
(* there, or starts its totals again (codex.go, 586-690).                  *)
(***************************************************************************)
InheritedCountsOnce ==
  Caught /\ Certain /\ (forkAt = 0 \/ Resolved) =>
    SumOver(sent, {i \in DOMAIN sent : ~Repeats(i)}) =
      SumOver([i \in 1..Len(session) |-> session[i].used], 1..Len(session))

(***************************************************************************)
(* The hub's count of a Codex session is right however its log was cut     *)
(* into polls and whenever its parent became known (codex.go, 461-735),    *)
(* but for a poll that names a parent it then fails to read.               *)
(***************************************************************************)
CodexCounts == ResumeIsFull /\ InheritedCountsOnce

=============================================================================
