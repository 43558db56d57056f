------------------------------- MODULE LogCursor -------------------------------
(***************************************************************************)
(* How the adapters of session logs read a growing file (Parse of          *)
(* internal/adapters/claude, openclaw and generic, ReadRecordLimit in      *)
(* internal/adapters/adapter.go): a poll resumes at the committed cursor,  *)
(* reads lines up to the end of the file and commits the place where it    *)
(* stopped once the events are on the hub.                                 *)
(*                                                                         *)
(* The tool writes a record in pieces, two halves and a newline, so that a *)
(* poll can find any of them at the end of the file. A usage record makes  *)
(* one event; a duration record belongs to the usage record before it      *)
(* (Claude). An event is known by its place in the file (the byte offset   *)
(* for generic, else the line number) and its record.                      *)
(***************************************************************************)
EXTENDS Integers, Sequences, FiniteSets, FiniteSetsExt

CONSTANTS
  Adapters,    \* of "claude", "openclaw" and "generic"
  MaxRecs,     \* bound on records ever written
  MaxOps,      \* bound on truncated, moved and copied files and lost cursors
  LogFaults,   \* bound on failing polls
  NL           \* a newline

ASSUME LogAssumption ==
  /\ Adapters \subseteq {"claude", "openclaw", "generic"}
  /\ MaxRecs \in Nat /\ MaxOps \in Nat /\ LogFaults \in Nat
  /\ NL \notin [rec : Nat, kind : {"usage", "duration"}, half : {1, 2}]

VARIABLES
  adapter,   \* whose log this is
  file,      \* its content, piece by piece
  inode,     \* which file is at the path
  torn,      \* ghost: was the file truncated since what lies before the cursor
             \* was read?
  written,   \* records begun so far
  logCursor, \* the committed cursor: identity, offset and line
  look,      \* a poll that has decided where to start, or NoLook
  logHub,    \* the events of this source on the hub
  hasty,     \* ghost: did a read overtake the writer (see Hasty)?
  ops, logFaults

logVars == <<adapter, file, inode, torn, written, logCursor, look, logHub, hasty, ops, logFaults>>

Usage == "usage"
Duration == "duration"
Piece(n, k, h) == [rec |-> n, kind |-> k, half |-> h]

NoCursor == [identity |-> <<>>, offset |-> 0, line |-> 0]
NoLook == [identity |-> <<>>, offset |-> -1, line |-> 0, size |-> 0]

(***************************************************************************)
(* Lines                                                                   *)
(***************************************************************************)

Newlines == {i \in 1..Len(file) : file[i] = NL}

\* The line that starts after byte s ends here.
LineEnd(s) == LET ends == {i \in Newlines : i > s}
              IN  IF ends = {} THEN Len(file) ELSE Min(ends)

Terminated(s) == file[LineEnd(s)] = NL

\* Where the lines begin that a reader finds from byte o on.
Starts(o) == {s \in {o} \cup {i \in Newlines : i > o} : s < Len(file)}

\* Does the line hold a whole record (a decodable one)?
Whole(s) ==
  /\ s + 2 <= LineEnd(s)
  /\ file[s + 1] # NL /\ file[s + 1].half = 1 /\ file[s + 2] # NL

RecordAt(s) == file[s + 1]
IsUsage(s) == Whole(s) /\ RecordAt(s).kind = Usage
IsDuration(s) == Whole(s) /\ RecordAt(s).kind = Duration
Blank(s) == file[s + 1] = NL

(***************************************************************************)
(* The identity a cursor is bound to: the inode for Claude and generic,    *)
(* the first line for OpenClaw.                                            *)
(***************************************************************************)
Identity ==
  IF adapter = "openclaw" THEN <<0>> \o SubSeq(file, 1, LineEnd(0)) ELSE <<inode>>

\* An empty identity is a fresh cursor; generic compares it all the same.
Resumes ==
  /\ logCursor.identity = Identity \/ (logCursor.identity = <<>> /\ adapter # "generic")
  /\ logCursor.offset <= Len(file)

\* previousLineStart: nothing is replayed after a line without its newline.
PreviousStart(o) ==
  IF file[o] # NL THEN o
  ELSE LET before == {i \in Newlines : i < o}
       IN  IF before = {} THEN 0 ELSE Max(before)

\* A poll that starts at this offset, with this line number.
From(offset, line) ==
  [identity |-> Identity, offset |-> offset, line |-> line, size |-> Len(file)]

\* The next line is a duration record, and a line before it can be replayed.
Replays ==
  LET o == logCursor.offset
  IN  /\ adapter = "claude" /\ o > 0 /\ logCursor.line > 0
      /\ o \in Starts(o) /\ IsDuration(o) /\ PreviousStart(o) < o

\* Faulty variant: the offset is trusted whatever file it belongs to.
BeginsAnywhere ==
  IF logCursor.offset <= Len(file) THEN From(logCursor.offset, logCursor.line) ELSE From(0, 0)

\* Faulty variant: a duration at the cursor does not replay its usage record.
BeginsWithoutReplay ==
  IF Resumes THEN From(logCursor.offset, logCursor.line) ELSE From(0, 0)

\* Faulty variant: the line number is not taken back with the offset.
BeginsKeepingLine ==
  IF ~Resumes THEN From(0, 0)
  ELSE From(IF Replays THEN PreviousStart(logCursor.offset) ELSE logCursor.offset, logCursor.line)

\* Where Parse seeks to; Claude replays the line before a duration record.
Begins ==
  IF ~Resumes THEN From(0, 0)
  ELSE IF Replays THEN From(PreviousStart(logCursor.offset), logCursor.line - 1)
  ELSE From(logCursor.offset, logCursor.line)

(***************************************************************************)
(* What a read finds from there                                            *)
(***************************************************************************)

\* A last line that does not decode and has no newline is left for later.
LeftOver(o) ==
  {s \in Starts(o) : adapter # "generic" /\ ~Terminated(s) /\ ~Whole(s)}

Consumed(o) == Starts(o) \ LeftOver(o)

\* A file that was truncated after the look may end before o.
Stop(o) ==
  IF LeftOver(o) # {} THEN Min(LeftOver(o))
  ELSE IF o <= Len(file) THEN Len(file) ELSE o

\* Faulty variant: a blank line does not decode either.
ReadableStrictly(o) == adapter = "generic" => \A s \in Starts(o) : Whole(s)

\* generic gives up on a line that does not decode.
Readable(o) == adapter = "generic" => \A s \in Starts(o) : Whole(s) \/ Blank(s)

LineOf(s, from) == from.line + Cardinality({t \in Consumed(from.offset) : t <= s})

\* The duration records that follow the usage record of s in this read.
Follows(s, o) ==
  \E t \in Consumed(o) :
    /\ s < t /\ IsDuration(t)
    /\ ~\E u \in Consumed(o) : s < u /\ u < t /\ IsUsage(u)

LogEvent(s, from) ==
  [place |-> IF adapter = "generic" THEN <<inode, s>> ELSE <<LineOf(s, from)>>,
   rec   |-> RecordAt(s).rec,
   timed |-> adapter = "claude" /\ Follows(s, from.offset)]

Events(from) == {LogEvent(s, from) : s \in {t \in Consumed(from.offset) : IsUsage(t)}}

Same(e, f) == e.place = f.place /\ e.rec = f.rec

\* The hub replaces an event of the same id.
Upserted(events) == {h \in logHub : \A e \in events : ~Same(h, e)} \cup events

(***************************************************************************)
(* The tool                                                                *)
(***************************************************************************)

Unfinished == file # <<>> /\ file[Len(file)] # NL

Grow(piece) == file' = Append(file, piece)

Begin(kind) ==
  /\ ~Unfinished /\ written < MaxRecs
  /\ written' = written + 1
  /\ Grow(Piece(written + 1, kind, 1))
  /\ UNCHANGED <<adapter, inode, torn, logCursor, look, logHub, hasty, ops, logFaults>>

Continue ==
  /\ Unfinished
  /\ LET last == file[Len(file)] IN
     Grow(IF last.half = 1 THEN [last EXCEPT !.half = 2] ELSE NL)
  /\ UNCHANGED <<adapter, inode, torn, written, logCursor, look, logHub, hasty, ops, logFaults>>

Op == ops < MaxOps /\ ops' = ops + 1

\* In place, at any moment.
Truncate ==
  /\ Op /\ file # <<>>
  /\ file' = <<>> /\ torn' = (logCursor.offset > 0)
  /\ UNCHANGED <<adapter, inode, written, logCursor, look, logHub, hasty, logFaults>>

\* Another file is put at the path: an empty one, or a copy. (A poll under way
\* would go on with the file it holds open; that is left out.)
Replace ==
  /\ Op /\ look = NoLook
  /\ inode' = inode + 1
  /\ file' \in {file, <<>>}
  /\ UNCHANGED <<adapter, torn, written, logCursor, look, logHub, hasty, logFaults>>

\* The local state is lost: the log will be scanned again.
Forget ==
  /\ Op /\ look = NoLook
  /\ logCursor' = NoCursor /\ torn' = FALSE
  /\ UNCHANGED <<adapter, file, inode, written, look, logHub, hasty, logFaults>>

(***************************************************************************)
(* A poll                                                                  *)
(***************************************************************************)

\* The file is opened, its size and its next line are looked at.
Look ==
  /\ look = NoLook
  /\ look' = Begins
  /\ UNCHANGED <<adapter, file, inode, torn, written, logCursor, logHub, hasty, ops, logFaults>>

\* The read takes a line before its newline, or what came after the look, or
\* goes on at the offset of a file that is gone.
Hasty(o) ==
  \/ look.size < Len(file)
  \/ torn /\ o > 0
  \/ \E s \in Consumed(o) : ~Terminated(s)

\* Read to the end; all events arrive and the cursor is committed.
Read ==
  /\ look # NoLook /\ Readable(look.offset)
  /\ logHub' = Upserted(Events(look))
  /\ logCursor' = [identity |-> look.identity, offset |-> Stop(look.offset),
                   line |-> look.line + Cardinality(Consumed(look.offset))]
  /\ hasty' = (hasty \/ Hasty(look.offset))
  /\ torn' = (torn /\ look.offset > 0)
  /\ look' = NoLook
  /\ UNCHANGED <<adapter, file, inode, written, ops, logFaults>>

\* Some of the events arrive, or none; nothing is committed.
ReadFails ==
  /\ look # NoLook
  /\ logFaults < LogFaults /\ logFaults' = logFaults + 1
  /\ \E arrived \in SUBSET Events(look) : logHub' = Upserted(arrived)
  /\ hasty' = (hasty \/ Hasty(look.offset))
  /\ look' = NoLook
  /\ UNCHANGED <<adapter, file, inode, torn, written, logCursor, ops>>

\* One line that does not decode: generic reports an error for the source.
ReadRefused ==
  /\ look # NoLook /\ ~Readable(look.offset)
  /\ look' = NoLook
  /\ UNCHANGED <<adapter, file, inode, torn, written, logCursor, logHub, hasty, ops, logFaults>>

LogInit ==
  /\ adapter \in Adapters
  /\ file = <<>> /\ inode = 1 /\ torn = FALSE /\ written = 0
  /\ logCursor = NoCursor /\ look = NoLook /\ logHub = {}
  /\ hasty = FALSE /\ ops = 0 /\ logFaults = 0

LogPoll == Look \/ Read \/ ReadRefused

LogNext ==
  \/ \E kind \in {Usage, Duration} : Begin(kind)
  \/ Continue \/ Truncate \/ Replace \/ Forget
  \/ LogPoll \/ ReadFails

LogSpec == LogInit /\ [][LogNext]_logVars

\* A step of LogPoll, told by what it does to look: a poll begins, or ends other
\* than by failing.
Polled ==
  /\ look' = IF look = NoLook THEN Begins ELSE NoLook
  /\ UNCHANGED logFaults

\* The tool finishes the line it has begun, and the agent keeps polling.
LogFairness == WF_logVars(Continue) /\ WF_look(Polled)

-----------------------------------------------------------------------------

LogTypeOK ==
  /\ adapter \in Adapters
  /\ \A i \in 1..Len(file) :
       file[i] = NL \/ file[i] \in [rec : 1..MaxRecs, kind : {Usage, Duration}, half : {1, 2}]
  /\ Len(file) <= 3 * MaxRecs
  /\ inode \in 1..(MaxOps + 1) /\ torn \in BOOLEAN /\ written \in 0..MaxRecs
  /\ logCursor.offset \in 0..(3 * MaxRecs) /\ logCursor.line \in Nat
  /\ look # NoLook => look.offset \in 0..(3 * MaxRecs) /\ look.line \in Nat
  /\ \A h \in logHub : h.rec \in 1..MaxRecs /\ h.timed \in BOOLEAN
  /\ hasty \in BOOLEAN /\ ops \in 0..MaxOps /\ logFaults \in 0..LogFaults

OnLogHub(n) == \E h \in logHub : h.rec = n

(***************************************************************************)
(* The reset of the cursor "handles replacement and truncation safely"     *)
(* (adapter.go, 58-60): each complete usage record the next poll will not  *)
(* read again is on the hub, whatever happened to the file.                *)
(***************************************************************************)
TruncationSafe ==
  Resumes => \A s \in Starts(0) :
    s < logCursor.offset /\ IsUsage(s) => OnLogHub(RecordAt(s).rec)

(***************************************************************************)
(* The part of TruncationSafe the code provides: no usage record is        *)
(* skipped, through partial lines, another file at the path, truncation,   *)
(* lost answers and lost cursors, unless the log is one of Claude or       *)
(* generic, was truncated and had grown past the old offset when a poll    *)
(* next looked (claude.go, 104, and generic.go, 134, compare the offset    *)
(* with the size alone; OpenClaw's identity covers the first line).        *)
(***************************************************************************)
NoRecordSkipped == (torn => adapter = "openclaw") => TruncationSafe

Once == \A h, g \in logHub : h.rec = g.rec => Same(h, g)

(***************************************************************************)
(* "This allows safe rescanning without duplicates."                       *)
(* (docs/tokemon-spec-v0.2.md, 720): no record is on the hub under two     *)
(* ids.                                                                    *)
(***************************************************************************)
RescanSafe == Once

(***************************************************************************)
(* The part of RescanSafe the code provides: no record has two ids, unless *)
(* a read overtook the writer (the newline it missed counts as a line of   *)
(* its own later on) or, for generic, another file is at the path.         *)
(***************************************************************************)
CalmRescanSafe ==
  hasty \/ (adapter = "generic" /\ inode # 1) \/ Once

(***************************************************************************)
(* "Keep it on that usage event" (claude.go, 135): a duration record that  *)
(* follows its usage record and lies before the cursor is on the hub with  *)
(* that event, even if the poll that sent the usage record ended between   *)
(* the two, unless a read overtook the writer or the file was truncated.   *)
(***************************************************************************)
DurationKept ==
  adapter = "claude" /\ Resumes /\ ~hasty /\ ~torn =>
    \A s, t \in Starts(0) :
      /\ IsUsage(s) /\ IsDuration(t) /\ t = LineEnd(s) /\ LineEnd(t) <= logCursor.offset
      => \E h \in logHub : h.rec = RecordAt(s).rec /\ h.timed

\* The record is in the file, on a line with its newline.
Written(n) == \E s \in Starts(0) : IsUsage(s) /\ Terminated(s) /\ RecordAt(s).rec = n

(***************************************************************************)
(* Every usage record reaches the hub while it stays in the file, after    *)
(* any failing polls and resets, but for the truncated logs of             *)
(* NoRecordSkipped; a line that is being written delays a generic source   *)
(* only until it is finished.                                              *)
(***************************************************************************)
RecordsRead ==
  \A n \in 1..MaxRecs :
    Written(n) ~> (OnLogHub(n) \/ ~Written(n) \/ (torn /\ adapter # "openclaw"))

=============================================================================
