---------------------------- MODULE RecoveryProofs -----------------------------
(***************************************************************************)
(* A log that is read while a tool writes it, and the lock of the database *)
(* file. (What is proved of the passes is in AgentPassProofs.)             *)
(*                                                                         *)
(* How the adapters read a growing log, for every adapter, any number of   *)
(* records, polls, failures, truncations and files at the path: no         *)
(* complete record before the cursor is skipped, but for a truncated log   *)
(* of Claude or generic (NothingSkipped), a duration record stays with its *)
(* usage record (DurationsKept), no record gets two ids (RescanIsSafe).    *)
(*                                                                         *)
(* A record takes three pieces, so that the lines of a file begin at the   *)
(* multiples of three (PiecesInOrder, LinesCounted), and what Parse finds  *)
(* from an offset is arithmetic. First comes the shape of a file, then     *)
(* what a read from an offset consumes and counts, then the invariant      *)
(* LogInv and one lemma for each kind of step.                             *)
(*                                                                         *)
(* The lock excludes, for any number of processes, crashes and failing     *)
(* system calls, when processes start one at a time and none is suspended. *)
(*                                                                         *)
(* What is proved of each part holds of all side by side                   *)
(* (RecoveryHoldsParts).                                                   *)
(***************************************************************************)
EXTENDS MCRecovery, FiniteSetTheorems, WellFoundedInduction, TLAPS

\* What the tool writes between newlines.
Pieces == [rec : 1..MaxRecs, kind : {Usage, Duration}, half : {1, 2}]

\* A line is a first half, the second half of the same record and a newline;
\* the last line may lack the end.
PiecesInOrder ==
  \A i \in 1..Len(file) :
    \/ file[i] = NL /\ i > 1 /\ file[i - 1] # NL /\ file[i - 1].half = 2
    \/ /\ file[i] # NL /\ file[i].half = 2 /\ i > 1
       /\ file[i - 1] # NL /\ file[i - 1].half = 1
       /\ file[i - 1].kind = file[i].kind /\ file[i - 1].rec = file[i].rec
    \/ file[i] # NL /\ file[i].half = 1 /\ (i = 1 \/ file[i - 1] = NL)

Shape == file \in Seq(Pieces \cup {NL}) /\ PiecesInOrder

\* A line starts after byte s; byte o ends a line; a read can stop at o.
LineAt(s) == s \in 0..(Len(file) - 1) /\ (s = 0 \/ file[s] = NL)
AtLine(o) == o = 0 \/ file[o] = NL
AtPause(o) == AtLine(o) \/ (file[o] # NL /\ file[o].half = 2)

LEMMA NewlineIsNoPiece == NL \notin Pieces
<1>1. Pieces \subseteq [rec : Nat, kind : {"usage", "duration"}, half : {1, 2}]
  <2>1. MaxRecs \in Nat
    BY LogAssumption
  <2> QED
    BY <2>1 DEF Pieces, Usage, Duration
<1> QED
  BY <1>1, LogAssumption

LEMMA SizeIsNatural == Shape => Len(file) \in Nat
BY DEF Shape

\* What a line holds, as far as it is written.
LEMMA LineShape ==
  ASSUME Shape, NEW s, LineAt(s)
  PROVE  /\ s \in Nat /\ s + 1 <= Len(file)
         /\ file[s + 1] # NL /\ file[s + 1].half = 1
         /\ s + 2 <= Len(file) =>
              /\ file[s + 2] # NL /\ file[s + 2].half = 2
              /\ file[s + 2].kind = file[s + 1].kind /\ file[s + 2].rec = file[s + 1].rec
         /\ s + 3 <= Len(file) => file[s + 3] = NL
<1>l. Len(file) \in Nat
  BY SizeIsNatural
<1>1. s \in Nat /\ s + 1 <= Len(file)
  BY <1>l DEF LineAt
<1>2. file[s + 1] # NL /\ file[s + 1].half = 1
  <2>1. s > 0 => file[s] = NL /\ s \in 1..Len(file)
    BY <1>1, <1>l DEF LineAt
  <2>2. s + 1 \in 1..Len(file) /\ s + 1 - 1 = s
    BY <1>1, <1>l
  <2> QED
    BY <2>1, <2>2, <1>1 DEF Shape, PiecesInOrder
<1>3. ASSUME s + 2 <= Len(file)
      PROVE  /\ file[s + 2] # NL /\ file[s + 2].half = 2
             /\ file[s + 2].kind = file[s + 1].kind /\ file[s + 2].rec = file[s + 1].rec
  <2>1. s + 2 \in 1..Len(file) /\ s + 2 - 1 = s + 1 /\ s + 2 # 1
    BY <1>1, <1>l, <1>3
  <2> QED
    <3>1. \/ file[s + 2] = NL /\ file[s + 1] # NL /\ file[s + 1].half = 2
          \/ /\ file[s + 2] # NL /\ file[s + 2].half = 2
             /\ file[s + 1].kind = file[s + 2].kind /\ file[s + 1].rec = file[s + 2].rec
          \/ file[s + 2] # NL /\ file[s + 2].half = 1 /\ file[s + 1] = NL
      BY <2>1, <1>1, <1>l DEF Shape, PiecesInOrder
    <3> QED
      BY <3>1, <1>2
<1>4. ASSUME s + 3 <= Len(file) PROVE file[s + 3] = NL
  <2>1. s + 3 \in 1..Len(file) /\ s + 3 - 1 = s + 2 /\ s + 3 # 1 /\ s + 2 <= Len(file)
    BY <1>1, <1>l, <1>4
  <2> QED
    <3>1. \/ file[s + 3] = NL
          \/ file[s + 2] # NL /\ file[s + 2].half = 1
          \/ file[s + 2] = NL
      BY <2>1, <1>1, <1>l DEF Shape, PiecesInOrder
    <3> QED
      BY <3>1, <2>1, <1>3
<1> QED
  BY <1>1, <1>2, <1>3, <1>4

\* Min and Max of FiniteSetsExt at a known element.
LEMMA LeastIs ==
  ASSUME NEW S, S \subseteq Int, NEW m \in S, \A x \in S : m <= x
  PROVE  Min(S) = m
<1>1. Min(S) \in S /\ \A x \in S : Min(S) <= x
  BY Zenon DEF Min
<1>2. Min(S) <= m /\ m <= Min(S) /\ Min(S) \in Int /\ m \in Int
  BY <1>1
<1> QED
  BY <1>2

LEMMA GreatestIs ==
  ASSUME NEW S, S \subseteq Int, NEW m \in S, \A x \in S : x <= m
  PROVE  Max(S) = m
<1>1. Max(S) \in S /\ \A x \in S : Max(S) >= x
  <2>1. \A x \in S : m >= x
    OBVIOUS
  <2> QED
    BY <2>1, Zenon DEF Max
<1>2. m <= Max(S) /\ Max(S) <= m /\ Max(S) \in Int /\ m \in Int
  BY <1>1
<1> QED
  BY <1>2

LEMMA LeastNatural ==
  ASSUME NEW T, T \subseteq Nat, T # {}
  PROVE  \E n \in T : \A k \in T : n <= k
<1>1. PICK n \in T : \A k \in T : <<k, n>> \notin OpToRel(<, Nat)
  BY NatLessThanWellFounded, WFMin, Zenon
<1>2. \A k \in T : ~(k < n)
  BY <1>1 DEF OpToRel
<1> QED
  BY <1>2

\* A line ends three bytes on, or with the file.
LEMMA LineEnds ==
  ASSUME Shape, NEW s, LineAt(s)
  PROVE  LineEnd(s) = IF s + 3 <= Len(file) THEN s + 3 ELSE Len(file)
<1>l. Len(file) \in Nat /\ s \in Nat
  BY SizeIsNatural, LineShape
<1> DEFINE ends == {i \in Newlines : i > s}
<1>1. ends \subseteq Int
  BY <1>l DEF Newlines
<1>2. \A i \in ends : i >= s + 3
  BY LineShape, <1>l DEF Newlines
<1>3. CASE s + 3 <= Len(file)
  <2>1. s + 3 \in ends
    BY <1>3, <1>l, LineShape DEF Newlines
  <2> HIDE DEF ends
  <2>2. Min(ends) = s + 3
    BY <2>1, <1>1, <1>2, LeastIs
  <2> QED
    BY <2>1, <2>2, <1>3 DEF LineEnd, ends
<1>4. CASE ~(s + 3 <= Len(file))
  <2>1. ends = {}
    BY <1>2, <1>4, <1>l DEF Newlines
  <2> QED
    BY <2>1, <1>4 DEF LineEnd
<1> QED
  BY <1>3, <1>4

\* A read that stopped before a newline finds a blank line next.
LEMMA PauseShape ==
  ASSUME Shape, NEW o \in 1..Len(file), file[o] # NL, file[o].half = 2, o < Len(file)
  PROVE  file[o + 1] = NL /\ LineEnd(o) = o + 1 /\ ~Whole(o) /\ Terminated(o) /\ Blank(o)
<1>l. Len(file) \in Nat /\ o \in Nat
  BY SizeIsNatural
<1>1. file[o + 1] = NL
  <2>1. o + 1 \in 1..Len(file) /\ o + 1 - 1 = o /\ o + 1 # 1
    BY <1>l
  <2> QED
    BY <2>1 DEF Shape, PiecesInOrder
<1> DEFINE ends == {i \in Newlines : i > o}
<1>2. ends \subseteq Int /\ o + 1 \in ends /\ \A i \in ends : o + 1 <= i
  BY <1>1, <1>l DEF Newlines
<1>3. LineEnd(o) = o + 1
  <2> HIDE DEF ends
  <2>1. Min(ends) = o + 1
    BY <1>2, LeastIs
  <2> QED
    BY <2>1, <1>2 DEF LineEnd, ends
<1> QED
  BY <1>1, <1>3, <1>l DEF Whole, Terminated, Blank

\* Which lines are whole, and which have their newline.
LEMMA LineFacts ==
  ASSUME Shape, NEW s, LineAt(s)
  PROVE  /\ Whole(s) <=> s + 2 <= Len(file)
         /\ Terminated(s) <=> s + 3 <= Len(file)
         /\ ~Blank(s) /\ RecordAt(s) = file[s + 1]
<1>l. Len(file) \in Nat /\ s \in Nat
  BY SizeIsNatural, LineShape
<1>1. Whole(s) <=> s + 2 <= Len(file)
  BY <1>l, LineShape, LineEnds DEF Whole
<1>2. Terminated(s) <=> s + 3 <= Len(file)
  <2>1. CASE s + 3 <= Len(file)
    BY <2>1, LineShape, LineEnds DEF Terminated
  <2>2. CASE ~(s + 3 <= Len(file))
    <3>1. Len(file) = s + 1 \/ Len(file) = s + 2
      BY <2>2, <1>l, LineShape
    <3> QED
      BY <2>2, <3>1, <1>l, LineShape, LineEnds DEF Terminated
  <2> QED
    BY <2>1, <2>2
<1> QED
  BY <1>1, <1>2, LineShape DEF Blank, RecordAt

\* The lines a reader finds from byte o on.
LEMMA StartsFrom ==
  ASSUME Shape, NEW o \in 0..Len(file), NEW s
  PROVE  s \in Starts(o) <=> \/ s = o /\ o < Len(file)
                             \/ s > o /\ LineAt(s)
<1>l. Len(file) \in Nat /\ o \in Nat
  BY SizeIsNatural
<1> QED
  BY <1>l DEF Starts, LineAt, Newlines

LEMMA StartsAre == Shape => \A s : s \in Starts(0) <=> LineAt(s)
<1> SUFFICES ASSUME Shape, NEW s PROVE s \in Starts(0) <=> LineAt(s)
  OBVIOUS
<1>1. Len(file) \in Nat
  BY SizeIsNatural
<1> QED
  BY <1>1, StartsFrom DEF LineAt

\* The file ends in a line of which one half is written.
Partial == LineAt(Len(file) - 1)

\* A file ends within a record or where a read can stop.
LEMMA LastPiece ==
  ASSUME Shape
  PROVE  /\ Partial \/ AtPause(Len(file))
         /\ ~(Partial /\ AtPause(Len(file)))
<1>l. Len(file) \in Nat
  BY SizeIsNatural
<1>1. CASE Len(file) = 0
  BY <1>1 DEF Partial, LineAt, AtPause, AtLine
<1>2. CASE Len(file) > 0
  <2>1. Len(file) \in 1..Len(file)
    BY <1>2, <1>l
  <2>2. \/ file[Len(file)] = NL
        \/ file[Len(file)] # NL /\ file[Len(file)].half = 2
        \/ /\ file[Len(file)] # NL /\ file[Len(file)].half = 1
           /\ Len(file) = 1 \/ file[Len(file) - 1] = NL
    BY <2>1 DEF Shape, PiecesInOrder
  <2>3. Partial => file[Len(file)] # NL /\ file[Len(file)].half = 1
    <3> SUFFICES ASSUME Partial PROVE file[Len(file)] # NL /\ file[Len(file)].half = 1
      OBVIOUS
    <3>1. Len(file) - 1 + 1 = Len(file)
      BY <1>l
    <3> QED
      BY <3>1, LineShape DEF Partial
  <2>4. file[Len(file)] # NL /\ file[Len(file)].half = 1 => Partial
    <3> SUFFICES ASSUME file[Len(file)] # NL, file[Len(file)].half = 1 PROVE Partial
      OBVIOUS
    <3>1. Len(file) = 1 \/ file[Len(file) - 1] = NL
      BY <2>2
    <3> QED
      BY <3>1, <1>2, <1>l DEF Partial, LineAt
  <2> QED
    BY <2>2, <2>3, <2>4, <1>2 DEF AtPause, AtLine
<1> QED
  BY <1>1, <1>2, <1>l

LEMMA BeforePartial ==
  ASSUME Shape, NEW o \in 0..Len(file), AtPause(o), Partial
  PROVE  o <= Len(file) - 1
<1>1. o # Len(file)
  BY LastPiece
<1> QED
  BY <1>1, SizeIsNatural

\* Only a line of one half is left for later.
LEMMA LeftOverIs ==
  ASSUME Shape, NEW o \in 0..Len(file), AtPause(o)
  PROVE  LeftOver(o) = IF adapter # "generic" /\ Partial THEN {Len(file) - 1} ELSE {}
<1>l. Len(file) \in Nat /\ o \in Nat
  BY SizeIsNatural
<1>1. ASSUME NEW s, LineAt(s)
      PROVE  ~Terminated(s) /\ ~Whole(s) <=> s = Len(file) - 1
  <2>1. s \in Nat /\ s + 1 <= Len(file)
    BY <1>1, LineShape
  <2>2. Whole(s) <=> s + 2 <= Len(file)
    BY <1>1, LineFacts
  <2>3. Terminated(s) <=> s + 3 <= Len(file)
    BY <1>1, LineFacts
  <2> QED
    BY <1>l, <2>1, <2>2, <2>3
<1>2. ASSUME o < Len(file), ~LineAt(o) PROVE Terminated(o)
  <2>1. o \in 1..Len(file) /\ file[o] # NL /\ file[o].half = 2
    BY <1>2, <1>l DEF AtPause, AtLine, LineAt
  <2> QED
    BY <2>1, <1>2, PauseShape
<1>3. \A s : s \in LeftOver(o) => adapter # "generic" /\ Partial /\ s = Len(file) - 1
  <2> SUFFICES ASSUME NEW s \in LeftOver(o)
               PROVE  adapter # "generic" /\ Partial /\ s = Len(file) - 1
    OBVIOUS
  <2>1. s \in Starts(o) /\ adapter # "generic" /\ ~Terminated(s) /\ ~Whole(s)
    BY DEF LeftOver
  <2>2. LineAt(s)
    BY <2>1, <1>2, StartsFrom
  <2> QED
    BY <2>1, <2>2, <1>1 DEF Partial
<1>4. ASSUME adapter # "generic", Partial PROVE Len(file) - 1 \in LeftOver(o)
  <2>1. Len(file) - 1 \in Starts(o)
    <3>1. o <= Len(file) - 1
      BY <1>4, BeforePartial
    <3> QED
      BY <3>1, <1>l, <1>4, StartsFrom DEF Partial
  <2>2. ~Terminated(Len(file) - 1) /\ ~Whole(Len(file) - 1)
    BY <1>4, <1>1 DEF Partial
  <2> QED
    BY <1>4, <2>1, <2>2 DEF LeftOver
<1> QED
  BY <1>3, <1>4

\* A read stops before that line or at the end of the file.
LEMMA StopIs ==
  ASSUME Shape, NEW o \in 0..Len(file), AtPause(o), Readable(o)
  PROVE  /\ Stop(o) \in o..Len(file) /\ AtPause(Stop(o))
         /\ Partial => adapter # "generic" /\ Stop(o) = Len(file) - 1
         /\ ~Partial => Stop(o) = Len(file)
<1>l. Len(file) \in Nat /\ o \in Nat
  BY SizeIsNatural
<1>1. CASE Partial
  <2>1. o <= Len(file) - 1
    BY <1>1, BeforePartial
  <2>2. Len(file) - 1 \in Starts(o)
    BY <1>1, <2>1, <1>l, StartsFrom DEF Partial
  <2>3. ~Whole(Len(file) - 1) /\ ~Blank(Len(file) - 1)
    <3>1. Whole(Len(file) - 1) <=> Len(file) - 1 + 2 <= Len(file)
      BY <1>1, LineFacts DEF Partial
    <3>2. ~Blank(Len(file) - 1)
      BY <1>1, LineFacts DEF Partial
    <3> QED
      BY <3>1, <3>2, <1>l
  <2>4. adapter # "generic"
    BY <2>2, <2>3 DEF Readable
  <2>5. LeftOver(o) = {Len(file) - 1}
    BY <1>1, <2>4, LeftOverIs
  <2>6. Min({Len(file) - 1}) = Len(file) - 1
    BY <1>l, LeastIs
  <2>7. Stop(o) = Len(file) - 1
    BY <2>5, <2>6 DEF Stop
  <2>8. AtPause(Len(file) - 1)
    BY <1>1 DEF Partial, LineAt, AtPause, AtLine
  <2> QED
    BY <1>1, <2>1, <2>4, <2>7, <2>8, <1>l
<1>2. CASE ~Partial
  <2>1. Stop(o) = Len(file)
    BY <1>2, LeftOverIs DEF Stop
  <2> QED
    BY <1>2, <2>1, <1>l, LastPiece
<1> QED
  BY <1>1, <1>2

\* A whole record on the line that starts after byte s.
UsageAt(s) == LineAt(s) /\ s + 2 <= Len(file) /\ file[s + 1].kind = Usage
DurationAt(s) == LineAt(s) /\ s + 2 <= Len(file) /\ file[s + 1].kind = Duration

\* Records by their pieces, and as the readers decode them.
LEMMA RecordsAreWhole ==
  ASSUME Shape, NEW s, LineAt(s)
  PROVE  (IsUsage(s) <=> UsageAt(s)) /\ (IsDuration(s) <=> DurationAt(s))
BY LineFacts DEF IsUsage, IsDuration, UsageAt, DurationAt

LEMMA PauseHoldsNone ==
  ASSUME Shape, NEW o \in 0..Len(file), AtPause(o), ~LineAt(o), o < Len(file)
  PROVE  ~IsUsage(o) /\ ~IsDuration(o)
<1>1. o \in 1..Len(file) /\ file[o] # NL /\ file[o].half = 2
  BY SizeIsNatural DEF AtPause, AtLine, LineAt
<1> QED
  BY <1>1, PauseShape DEF IsUsage, IsDuration

\* The lines a read from o consumes that hold a usage record.
LEMMA UsagesConsumed ==
  ASSUME Shape, NEW o \in 0..Len(file), AtPause(o), NEW s
  PROVE  s \in Consumed(o) /\ IsUsage(s) <=> o <= s /\ UsageAt(s)
<1>l. Len(file) \in Nat /\ o \in Nat
  BY SizeIsNatural
<1>1. ASSUME s \in Consumed(o), IsUsage(s) PROVE o <= s /\ UsageAt(s)
  <2>1. s \in Starts(o)
    BY <1>1 DEF Consumed
  <2>2. LineAt(s)
    BY <1>1, <2>1, StartsFrom, PauseHoldsNone
  <2>3. o <= s
    BY <2>1, <2>2, StartsFrom, LineShape, <1>l
  <2> QED
    BY <1>1, <2>2, <2>3, RecordsAreWhole
<1>2. ASSUME o <= s, UsageAt(s) PROVE s \in Consumed(o) /\ IsUsage(s)
  <2>1. LineAt(s) /\ s + 2 <= Len(file) /\ s \in Nat
    BY <1>2, LineShape DEF UsageAt
  <2>2. s \in Starts(o)
    BY <1>2, <2>1, <1>l, StartsFrom
  <2>3. s \notin LeftOver(o)
    BY <2>1, <1>l, LeftOverIs
  <2> QED
    BY <1>2, <2>1, <2>2, <2>3, RecordsAreWhole DEF Consumed
<1> QED
  BY <1>1, <1>2

-----------------------------------------------------------------------------

\* The newlines up to byte x.
CountedTo(x) == {i \in Newlines : i <= x}

\* Three bytes to a line, and the bytes of an unfinished one.
LinesCounted ==
  \A x \in 0..Len(file) :
    3 * Cardinality(CountedTo(x)) = IF AtLine(x) THEN x ELSE x - file[x].half

LEMMA NewlinesFinite ==
  ASSUME Shape
  PROVE  /\ IsFiniteSet(Newlines)
         /\ \A x : IsFiniteSet(CountedTo(x)) /\ Cardinality(CountedTo(x)) \in Nat
<1>1. IsFiniteSet(1..Len(file))
  BY SizeIsNatural, FS_Interval
<1>2. IsFiniteSet(Newlines)
  <2>1. Newlines \subseteq 1..Len(file)
    BY DEF Newlines
  <2> QED
    BY <1>1, <2>1, FS_Subset
<1>3. ASSUME NEW x PROVE IsFiniteSet(CountedTo(x)) /\ Cardinality(CountedTo(x)) \in Nat
  <2>1. CountedTo(x) \subseteq Newlines
    BY DEF CountedTo
  <2>2. IsFiniteSet(CountedTo(x))
    BY <1>2, <2>1, FS_Subset
  <2> QED
    BY <2>2, FS_CardinalityType
<1> QED
  BY <1>2, <1>3

\* The lines between two places, counted by the newlines.
LEMMA LinesBetween ==
  ASSUME Shape, NEW o \in 0..Len(file), NEW x \in o..Len(file)
  PROVE  Cardinality({o} \cup (CountedTo(x) \ CountedTo(o)))
           = 1 + Cardinality(CountedTo(x)) - Cardinality(CountedTo(o))
<1>l. Len(file) \in Nat /\ o \in Nat /\ x \in Nat
  BY SizeIsNatural
<1> DEFINE D == CountedTo(x) \ CountedTo(o)
<1>1. CountedTo(x) \cap CountedTo(o) = CountedTo(o)
  BY <1>l DEF CountedTo, Newlines
<1>2. IsFiniteSet(D) /\ Cardinality(D) = Cardinality(CountedTo(x)) - Cardinality(CountedTo(o))
  BY <1>1, NewlinesFinite, FS_Difference
<1>3. o \notin D
  BY <1>l DEF CountedTo, Newlines
<1>4. {o} \cup D = D \cup {o}
  OBVIOUS
<1> HIDE DEF D
<1>5. Cardinality(D \cup {o}) = Cardinality(D) + 1
  BY <1>2, <1>3, FS_AddElement
<1>6. Cardinality(CountedTo(x)) \in Nat /\ Cardinality(CountedTo(o)) \in Nat
  BY NewlinesFinite
<1>7. Cardinality({o} \cup D) = 1 + Cardinality(CountedTo(x)) - Cardinality(CountedTo(o))
  <2>1. Cardinality({o} \cup D) = Cardinality(D) + 1
    BY <1>4, <1>5
  <2> QED
    BY <2>1, <1>2, <1>6
<1> QED
  BY <1>7 DEF D

\* The lines a read consumes begin at o or at a newline before its stop.
LEMMA ConsumedIs ==
  ASSUME Shape, NEW o \in 0..Len(file), AtPause(o), Readable(o)
  PROVE  Consumed(o) = IF o < Stop(o) THEN {o} \cup (CountedTo(Stop(o) - 1) \ CountedTo(o))
                       ELSE {}
<1>l. Len(file) \in Nat /\ o \in Nat /\ Stop(o) \in Nat /\ o <= Stop(o)
  BY SizeIsNatural, StopIs
<1>1. ASSUME NEW s PROVE s \in Consumed(o) <=> s \in Starts(o) /\ s < Stop(o)
  <2>1. s \in Starts(o) => s \in 0..(Len(file) - 1)
    BY <1>l, StartsFrom DEF LineAt
  <2>2. CASE Partial
    <3>1. LeftOver(o) = {Len(file) - 1} /\ Stop(o) = Len(file) - 1
      BY <2>2, LeftOverIs, StopIs
    <3> QED
      BY <3>1, <2>1, <1>l DEF Consumed
  <2>3. CASE ~Partial
    <3>1. LeftOver(o) = {} /\ Stop(o) = Len(file)
      BY <2>3, LeftOverIs, StopIs
    <3> QED
      BY <3>1, <2>1, <1>l DEF Consumed
  <2> QED
    BY <2>2, <2>3
<1>2. ASSUME NEW s
      PROVE  (s \in Starts(o) /\ s < Stop(o)) <=>
               (s = o /\ o < Stop(o)) \/ (s \in CountedTo(Stop(o) - 1) /\ s > o)
  <2>0. Stop(o) <= Len(file)
    BY StopIs
  <2>1. s \in Starts(o) <=> (s = o /\ o < Len(file)) \/ (s > o /\ LineAt(s))
    BY StartsFrom
  <2>2. s > o /\ LineAt(s) /\ s < Stop(o) <=> s \in CountedTo(Stop(o) - 1) /\ s > o
    BY <1>l, <2>0 DEF LineAt, CountedTo, Newlines
  <2> QED
    BY <2>0, <2>1, <2>2, <1>l
<1>3. ASSUME NEW s PROVE s \in CountedTo(Stop(o) - 1) /\ s > o <=>
                         s \in CountedTo(Stop(o) - 1) \ CountedTo(o)
  BY <1>l DEF CountedTo, Newlines
<1>4. ASSUME ~(o < Stop(o)) PROVE CountedTo(Stop(o) - 1) \ CountedTo(o) = {}
  BY <1>4, <1>l DEF CountedTo, Newlines
<1> QED
  BY <1>1, <1>2, <1>3, <1>4

LEMMA BeforePause ==
  ASSUME Shape, LinesCounted, NEW x \in 1..Len(file), AtPause(x)
  PROVE  3 * Cardinality(CountedTo(x - 1)) = IF AtLine(x) THEN x - 3 ELSE x - 2
<1>l. Len(file) \in Nat /\ x \in Nat
  BY SizeIsNatural
<1>1. \/ file[x] = NL /\ x > 1 /\ file[x - 1] # NL /\ file[x - 1].half = 2
      \/ file[x] # NL /\ x > 1 /\ file[x - 1] # NL /\ file[x - 1].half = 1
  BY <1>l DEF Shape, PiecesInOrder, AtPause, AtLine
<1>2. x - 1 \in 0..Len(file) /\ ~AtLine(x - 1)
  BY <1>1, <1>l DEF AtLine
<1>3. 3 * Cardinality(CountedTo(x - 1)) = x - 1 - file[x - 1].half
  BY <1>2 DEF LinesCounted
<1> QED
  BY <1>1, <1>3, <1>l DEF AtLine

\* How many lines a read consumes for the bytes it moves over.
LEMMA LinesConsumed ==
  ASSUME Shape, LinesCounted, NEW o \in 0..Len(file), AtPause(o), Readable(o)
  PROVE  /\ Cardinality(Consumed(o)) \in Nat
         /\ o = Stop(o) => Cardinality(Consumed(o)) = 0
         /\ o < Stop(o) =>
              3 * Cardinality(Consumed(o)) = (Stop(o) - o) + (IF AtLine(Stop(o)) THEN 0 ELSE 1)
                                               + (IF AtLine(o) THEN 0 ELSE 2)
<1>l. Len(file) \in Nat /\ o \in Nat /\ Stop(o) \in Nat /\ o <= Stop(o)
      /\ Stop(o) <= Len(file) /\ AtPause(Stop(o))
  BY SizeIsNatural, StopIs
<1>1. CASE o = Stop(o)
  <2>1. ~(o < Stop(o))
    BY <1>1, <1>l
  <2>2. Consumed(o) = {}
    BY <2>1, ConsumedIs
  <2>3. Cardinality(Consumed(o)) = 0
    BY <2>2, FS_EmptySet
  <2> QED
    BY <2>1, <2>3
<1>2. CASE o < Stop(o)
  <2> DEFINE c == Cardinality(Consumed(o))
             m == Cardinality(CountedTo(Stop(o) - 1))
             n == Cardinality(CountedTo(o))
  <2>1. c = 1 + m - n
    <3>1. Stop(o) - 1 \in o..Len(file)
      BY <1>2, <1>l
    <3> QED
      BY <3>1, <1>2, ConsumedIs, LinesBetween
  <2>2. m \in Nat /\ n \in Nat
    BY NewlinesFinite
  <2>3. 3 * m = IF AtLine(Stop(o)) THEN Stop(o) - 3 ELSE Stop(o) - 2
    <3>1. Stop(o) \in 1..Len(file)
      BY <1>2, <1>l
    <3> QED
      BY <3>1, <1>l, BeforePause
  <2>4. 3 * n = IF AtLine(o) THEN o ELSE o - 2
    BY DEF LinesCounted, AtPause
  <2>5. c \in Nat
    <3>1. IsFiniteSet(CountedTo(Stop(o) - 1) \ CountedTo(o))
      BY NewlinesFinite, FS_Difference
    <3>2. IsFiniteSet({o} \cup (CountedTo(Stop(o) - 1) \ CountedTo(o)))
      BY <3>1, FS_Singleton, FS_Union
    <3> QED
      BY <3>2, <1>2, ConsumedIs, FS_CardinalityType
  <2> HIDE DEF c, m, n
  <2>6. 3 * c = (Stop(o) - o) + (IF AtLine(Stop(o)) THEN 0 ELSE 1) + (IF AtLine(o) THEN 0 ELSE 2)
    BY <2>1, <2>2, <2>3, <2>4, <2>5, <1>l
  <2> QED
    BY <2>5, <2>6, <1>2 DEF c
<1> QED
  BY <1>1, <1>2, <1>l

\* A read that begins at a line end numbers a line by its place in the file.
LEMMA LineOfRecord ==
  ASSUME Shape, LinesCounted, NEW from, from.offset \in 0..Len(file), AtLine(from.offset),
         from.line \in Nat, 3 * from.line = from.offset,
         NEW s, from.offset <= s, UsageAt(s)
  PROVE  LineOf(s, from) \in Nat /\ 3 * LineOf(s, from) = s + 3
<1> DEFINE o == from.offset
           Before == {t \in Consumed(o) : t <= s}
<1>l. Len(file) \in Nat /\ o \in Nat /\ s \in Nat /\ s + 2 <= Len(file) /\ LineAt(s)
  BY SizeIsNatural, LineShape DEF UsageAt
<1>p. AtPause(o)
  BY DEF AtPause
<1>1. Before = {o} \cup (CountedTo(s) \ CountedTo(o))
  <2>1. ASSUME NEW t PROVE t \in Consumed(o) /\ t <= s <=> t \in Starts(o) /\ t <= s
    <3>1. t \in LeftOver(o) => t = Len(file) - 1
      BY <1>p, LeftOverIs
    <3> QED
      BY <3>1, <1>l DEF Consumed
  <2>2. ASSUME NEW t
        PROVE  (t \in Starts(o) /\ t <= s) <=> (t = o \/ (t > o /\ t <= s /\ LineAt(t)))
    BY <1>l, StartsFrom
  <2>3. ASSUME NEW t
        PROVE  t > o /\ t <= s /\ LineAt(t) <=> t \in CountedTo(s) \ CountedTo(o)
    BY <1>l DEF LineAt, CountedTo, Newlines
  <2> QED
    BY <2>1, <2>2, <2>3
<1>2. Cardinality(Before) = 1 + Cardinality(CountedTo(s)) - Cardinality(CountedTo(o))
  BY <1>1, <1>l, LinesBetween
<1>3. 3 * Cardinality(CountedTo(s)) = s /\ 3 * Cardinality(CountedTo(o)) = o
  BY <1>l DEF LinesCounted, LineAt, AtLine
<1>4. Cardinality(CountedTo(s)) \in Nat /\ Cardinality(CountedTo(o)) \in Nat
  BY NewlinesFinite
<1>5. LineOf(s, from) = from.line + Cardinality(Before)
  BY DEF LineOf
<1> HIDE DEF Before, o
<1>6. 3 * from.line = o /\ o <= s
  BY DEF o
<1> QED
  BY SMTT(40), <1>2, <1>3, <1>4, <1>5, <1>6, <1>l

-----------------------------------------------------------------------------

\* Records are written one after the other.
RecordsAscend ==
  \A i, j \in 1..Len(file) :
    i < j /\ file[i] # NL /\ file[j] # NL /\ file[j].half = 1 => file[i].rec < file[j].rec

\* The file holds no more than the records begun.
FileFits ==
  /\ written \in 0..MaxRecs
  /\ Len(file) <= 3 * written
  /\ Unfinished => Len(file) <= 3 * written - (3 - file[Len(file)].half)
  /\ \A i \in 1..Len(file) : file[i] # NL => file[i].rec <= written

FileInv == Shape /\ RecordsAscend /\ FileFits /\ LinesCounted

LEMMA PieceFields ==
  ASSUME Shape, NEW i \in 1..Len(file), file[i] # NL
  PROVE  /\ file[i] \in Pieces /\ file[i].rec \in 1..MaxRecs /\ file[i].rec \in Nat
         /\ file[i].kind \in {Usage, Duration} /\ file[i].half \in {1, 2}
<1>1. file[i] \in Pieces \cup {NL}
  BY DEF Shape
<1>2. file[i] \in Pieces
  BY <1>1
<1> QED
  BY <1>2, LogAssumption DEF Pieces

LEMMA EmptyFile == file = <<>> /\ written \in 0..MaxRecs => FileInv
<1> SUFFICES ASSUME file = <<>>, written \in 0..MaxRecs PROVE FileInv
  OBVIOUS
<1>1. Len(file) = 0 /\ file \in Seq(Pieces \cup {NL}) /\ written \in Nat
  BY LogAssumption
<1>2. Shape /\ RecordsAscend
  BY <1>1 DEF Shape, PiecesInOrder, RecordsAscend
<1>3. FileFits
  BY <1>1 DEF FileFits, Unfinished
<1>4. LinesCounted
  <2>1. CountedTo(0) = {}
    BY <1>1 DEF CountedTo, Newlines
  <2> QED
    BY <2>1, <1>1, FS_EmptySet DEF LinesCounted, AtLine
<1> QED
  BY <1>2, <1>3, <1>4 DEF FileInv

\* What appending a piece does to the file.
LEMMA Appended ==
  ASSUME Shape, NEW p \in Pieces \cup {NL}, Grow(p)
  PROVE  /\ file' \in Seq(Pieces \cup {NL}) /\ Len(file') = Len(file) + 1
         /\ file'[Len(file) + 1] = p /\ \A i \in 1..Len(file) : file'[i] = file[i]
         /\ file' # <<>>
BY DEF Shape, Grow

\* Appending a piece that may follow keeps the shape of the file.
LEMMA GrowthKeepsFile ==
  ASSUME FileInv, NEW p \in Pieces \cup {NL}, Grow(p), written' \in 0..MaxRecs,
         written <= written',
         LET n == Len(file) IN
         \/ /\ p = NL /\ n > 0 /\ file[n] # NL /\ file[n].half = 2 /\ written' = written
         \/ /\ p # NL /\ p.half = 2 /\ n > 0 /\ file[n] # NL /\ file[n].half = 1
            /\ file[n].kind = p.kind /\ file[n].rec = p.rec /\ written' = written
         \/ /\ p # NL /\ p.half = 1 /\ (n = 0 \/ file[n] = NL)
            /\ p.rec = written + 1 /\ written' = written + 1
  PROVE  FileInv'
<1>n. PICK n \in Nat : n = Len(file)
  BY SizeIsNatural DEF FileInv
<1>l. n \in Nat /\ n = Len(file) /\ written \in Nat /\ written' \in Nat
  BY <1>n, LogAssumption DEF FileInv, FileFits
<1>a. /\ file' \in Seq(Pieces \cup {NL}) /\ Len(file') = n + 1
      /\ file'[n + 1] = p /\ \A i \in 1..n : file'[i] = file[i]
  BY Appended, <1>l DEF FileInv
<1>h. 1..(n + 1) = (1..n) \cup {n + 1} /\ n + 1 - 1 = n
  BY <1>l
<1>f. \A i \in 1..n : file[i] # NL =>
        file[i].rec \in Nat /\ file[i].rec <= written /\ file[i].half \in {1, 2}
  BY PieceFields, <1>l DEF FileInv, FileFits
<1>p. p # NL => p.rec \in Nat /\ p.half \in {1, 2}
  BY LogAssumption DEF Pieces
<1>1. Shape'
  <2>1. ASSUME NEW i \in 1..n
        PROVE \/ file'[i] = NL /\ i > 1 /\ file'[i - 1] # NL /\ file'[i - 1].half = 2
              \/ /\ file'[i] # NL /\ file'[i].half = 2 /\ i > 1
                 /\ file'[i - 1] # NL /\ file'[i - 1].half = 1
                 /\ file'[i - 1].kind = file'[i].kind /\ file'[i - 1].rec = file'[i].rec
              \/ file'[i] # NL /\ file'[i].half = 1 /\ (i = 1 \/ file'[i - 1] = NL)
    <3>1. file'[i] = file[i] /\ (i > 1 => file'[i - 1] = file[i - 1])
      BY <1>a, <1>l
    <3>2. i > 1 \/ i = 1
      BY <1>l
    <3> QED
      BY <3>1, <3>2, <1>l DEF FileInv, Shape, PiecesInOrder
  <2>2. \/ file'[n + 1] = NL /\ n + 1 > 1 /\ file'[n] # NL /\ file'[n].half = 2
        \/ /\ file'[n + 1] # NL /\ file'[n + 1].half = 2 /\ n + 1 > 1
           /\ file'[n] # NL /\ file'[n].half = 1
           /\ file'[n].kind = file'[n + 1].kind /\ file'[n].rec = file'[n + 1].rec
        \/ file'[n + 1] # NL /\ file'[n + 1].half = 1 /\ (n + 1 = 1 \/ file'[n] = NL)
    <3>1. n > 0 => file'[n] = file[n] /\ n + 1 > 1
      BY <1>a, <1>l
    <3>2. n > 0 \/ n + 1 = 1
      BY <1>l
    <3> QED
      <4>1. CASE p = NL
        BY <4>1, <1>a, <1>l, <3>1
      <4>2. CASE p # NL /\ p.half = 2
        BY <4>2, <1>a, <1>l, <3>1
      <4>3. CASE p # NL /\ p.half = 1
        BY <4>3, <1>a, <1>l, <3>1, <3>2
      <4> QED
        BY <4>1, <4>2, <4>3, <1>p
  <2>3. PiecesInOrder'
    <3> SUFFICES ASSUME NEW i \in 1..(n + 1)
        PROVE \/ file'[i] = NL /\ i > 1 /\ file'[i - 1] # NL /\ file'[i - 1].half = 2
              \/ /\ file'[i] # NL /\ file'[i].half = 2 /\ i > 1
                 /\ file'[i - 1] # NL /\ file'[i - 1].half = 1
                 /\ file'[i - 1].kind = file'[i].kind /\ file'[i - 1].rec = file'[i].rec
              \/ file'[i] # NL /\ file'[i].half = 1 /\ (i = 1 \/ file'[i - 1] = NL)
      BY <1>a DEF PiecesInOrder
    <3>1. CASE i \in 1..n
      BY <2>1, <3>1
    <3>2. CASE i = n + 1
      <4>1. i - 1 = n
        BY <3>2, <1>l
      <4> QED
        BY <2>2, <3>2, <4>1
    <3> QED
      BY <3>1, <3>2, <1>h
  <2> QED
    BY <2>3, <1>a DEF Shape
<1>2. RecordsAscend'
  <2> SUFFICES ASSUME NEW i \in 1..(n + 1), NEW j \in 1..(n + 1), i < j, file'[i] # NL,
                      file'[j] # NL, file'[j].half = 1
               PROVE  file'[i].rec < file'[j].rec
    BY <1>a DEF RecordsAscend
  <2>1. i \in 1..n /\ file'[i] = file[i]
    BY <1>a, <1>l
  <2>2. CASE j \in 1..n
    BY <2>1, <2>2, <1>a, <1>l DEF FileInv, RecordsAscend
  <2>3. CASE j = n + 1
    BY <2>1, <2>3, <1>a, <1>f, <1>l, <1>p
  <2> QED
    BY <2>2, <2>3, <1>h
<1>3. FileFits'
  <2>0. n <= 3 * written /\ (n > 0 /\ file[n] # NL => n <= 3 * written - (3 - file[n].half))
    <3>1. n > 0 => file # <<>>
      BY <1>l
    <3> QED
      BY <3>1, <1>l DEF FileInv, FileFits, Unfinished
  <2>1. n + 1 <= 3 * written'
    BY <2>0, <1>l
  <2>2. p # NL => n + 1 <= 3 * written' - (3 - p.half)
    BY <2>0, <1>l
  <2>3. \A i \in 1..(n + 1) : file'[i] # NL => file'[i].rec <= written'
    <3> SUFFICES ASSUME NEW i \in 1..(n + 1), file'[i] # NL PROVE file'[i].rec <= written'
      OBVIOUS
    <3>1. CASE i \in 1..n
      BY <3>1, <1>a, <1>f, <1>l
    <3>2. CASE i = n + 1
      <4>1. n > 0 /\ file[n] # NL => file[n].rec <= written
        BY <1>f, <1>l
      <4> QED
        BY <3>2, <1>a, <1>l, <1>p, <4>1
    <3> QED
      BY <3>1, <3>2, <1>h
  <2> QED
    BY <2>1, <2>2, <2>3, <1>a, <1>l DEF FileFits, Unfinished
<1>4. LinesCounted'
  <2>1. Newlines' = Newlines \cup (IF p = NL THEN {n + 1} ELSE {})
    BY <1>a, <1>l DEF Newlines
  <2>2. ASSUME NEW x \in 0..n PROVE CountedTo(x)' = CountedTo(x) /\ (AtLine(x)' <=> AtLine(x))
    BY <1>a, <1>l, <2>1 DEF CountedTo, AtLine
  <2>3. CountedTo(n + 1)' = CountedTo(n) \cup (IF p = NL THEN {n + 1} ELSE {})
    BY <1>l, <2>1 DEF CountedTo, Newlines
  <2>4. IsFiniteSet(CountedTo(n)) /\ Cardinality(CountedTo(n)) \in Nat /\ n + 1 \notin CountedTo(n)
    <3>1. n + 1 \notin CountedTo(n)
      BY <1>l DEF CountedTo
    <3> QED
      BY <3>1, NewlinesFinite DEF FileInv
  <2>5. Cardinality(CountedTo(n + 1)') = Cardinality(CountedTo(n)) + (IF p = NL THEN 1 ELSE 0)
    <3>1. CASE p = NL
      BY <3>1, <2>3, <2>4, FS_AddElement
    <3>2. CASE p # NL
      <4>1. CountedTo(n + 1)' = CountedTo(n)
        BY <3>2, <2>3
      <4> QED
        BY <3>2, <4>1, <2>4
    <3> QED
      BY <3>1, <3>2
  <2>6. 3 * Cardinality(CountedTo(n)) = IF AtLine(n) THEN n ELSE n - file[n].half
    BY <1>l DEF FileInv, LinesCounted
  <2>7. 3 * Cardinality(CountedTo(n + 1)') = IF p = NL THEN n + 1 ELSE n + 1 - p.half
    <3>1. CASE p = NL
      BY <3>1, <2>4, <2>5, <2>6, <1>l DEF AtLine
    <3>2. CASE p # NL
      BY <3>2, <2>4, <2>5, <2>6, <1>l DEF AtLine
    <3> QED
      BY <3>1, <3>2
  <2>8. AtLine(n + 1)' <=> p = NL
    BY <1>a, <1>l DEF AtLine
  <2>9. ASSUME NEW x \in 0..n
        PROVE  3 * Cardinality(CountedTo(x)') = IF AtLine(x)' THEN x ELSE x - file'[x].half
    <3>1. 3 * Cardinality(CountedTo(x)) = IF AtLine(x) THEN x ELSE x - file[x].half
      BY <1>l DEF FileInv, LinesCounted
    <3>2. ~AtLine(x) => file'[x] = file[x]
      BY <1>a, <1>l DEF AtLine
    <3> QED
      BY <3>1, <3>2, <2>2
  <2>10. 0..(n + 1) = (0..n) \cup {n + 1}
    BY <1>l
  <2> QED
    BY <1>a, <2>7, <2>8, <2>9, <2>10 DEF LinesCounted
<1> QED
  BY <1>1, <1>2, <1>3, <1>4 DEF FileInv

LEMMA RecordBegun ==
  ASSUME FileInv, NEW kind \in {Usage, Duration}, Begin(kind)
  PROVE  /\ Piece(written + 1, kind, 1) \in Pieces /\ Grow(Piece(written + 1, kind, 1))
         /\ FileInv'
<1> DEFINE p == Piece(written + 1, kind, 1)
<1>1. written' = written + 1 /\ written + 1 \in 1..MaxRecs /\ written \in Nat
  BY LogAssumption DEF Begin, FileInv, FileFits
<1>2. p \in Pieces
  BY <1>1 DEF Piece, Pieces
<1>3. p # NL /\ p.half = 1 /\ p.rec = written + 1
  BY <1>2, NewlineIsNoPiece DEF Piece
<1>4. Len(file) = 0 \/ file[Len(file)] = NL
  BY DEF Begin, Unfinished, FileInv, Shape
<1>5. Grow(p)
  BY DEF Begin
<1> HIDE DEF p
<1>6. written' \in 0..MaxRecs /\ written <= written'
  BY <1>1, LogAssumption
<1>7. FileInv'
  BY <1>1, <1>2, <1>3, <1>4, <1>5, <1>6, GrowthKeepsFile
<1> QED
  BY <1>2, <1>5, <1>7 DEF p

LEMMA RecordContinued ==
  ASSUME FileInv, Continue
  PROVE  /\ \E p \in Pieces \cup {NL} : Grow(p)
         /\ FileInv' /\ file # <<>>
<1>n. PICK n \in Nat : n = Len(file)
  BY SizeIsNatural DEF FileInv
<1>1. file # <<>> /\ n > 0 /\ n \in 1..Len(file) /\ file[n] # NL
  BY <1>n DEF Continue, Unfinished, FileInv, Shape
<1> DEFINE p == IF file[n].half = 1 THEN [file[n] EXCEPT !.half = 2] ELSE NL
<1>2. file[n] \in Pieces /\ file[n].half \in {1, 2}
  BY <1>1, PieceFields DEF FileInv
<1>3. p \in Pieces \cup {NL}
  BY <1>2 DEF Pieces
<1>4. Grow(p)
  BY <1>n DEF Continue
<1>5. \/ p = NL /\ file[n].half = 2
      \/ /\ p # NL /\ p.half = 2 /\ file[n].half = 1
         /\ file[n].kind = p.kind /\ file[n].rec = p.rec
  <2>1. CASE file[n].half = 1
    <3>1. p = [file[n] EXCEPT !.half = 2]
      BY <2>1
    <3>2. p \in Pieces /\ p.half = 2 /\ p.kind = file[n].kind /\ p.rec = file[n].rec
      BY <3>1, <1>2 DEF Pieces
    <3> QED
      BY <2>1, <3>2, NewlineIsNoPiece
  <2>2. CASE file[n].half = 2
    BY <2>2
  <2> QED
    BY <1>2, <2>1, <2>2
<1> HIDE DEF p
<1>6. written' = written /\ written \in 0..MaxRecs /\ written <= written
  BY LogAssumption DEF Continue, FileInv, FileFits
<1>7. FileInv'
  BY <1>1, <1>3, <1>4, <1>5, <1>6, <1>n, GrowthKeepsFile
<1> QED
  BY <1>1, <1>3, <1>4, <1>7

\* Every step keeps the shape of the file.
LEMMA FileStep ==
  ASSUME FileInv, [LogNext]_logVars
  PROVE  FileInv'
<1>1. CASE UNCHANGED <<file, written>>
  BY <1>1 DEF FileInv, Shape, PiecesInOrder, RecordsAscend, FileFits, LinesCounted, Unfinished,
    CountedTo, Newlines, AtLine
<1>2. (file = <<>> /\ written \in 0..MaxRecs => FileInv)'
  BY EmptyFile, PTL
<1>3. CASE Truncate \/ Replace
  <2>1. written' = written /\ (file' = <<>> \/ file' = file) /\ written \in 0..MaxRecs
    BY <1>3 DEF Truncate, Replace, FileInv, FileFits
  <2> QED
    BY <2>1, <1>1, <1>2
<1>4. CASE Forget \/ LogPoll \/ ReadFails \/ UNCHANGED logVars
  BY <1>1, <1>4 DEF Forget, LogPoll, Look, Read, ReadRefused, ReadFails, logVars
<1> QED
  BY <1>3, <1>4, RecordBegun, RecordContinued DEF LogNext

-----------------------------------------------------------------------------

\* Every whole usage record that begins before o is on the hub.
OnHubUpTo(o) == \A s : UsageAt(s) /\ s < o => OnLogHub(file[s + 1].rec)

\* Every usage record whose duration record ends by o is on the hub with it.
TimedUpTo(o) ==
  \A s : UsageAt(s) /\ DurationAt(s + 3) /\ s + 6 <= o =>
    \E h \in logHub : h.rec = file[s + 1].rec /\ h.timed

\* A place a poll may resume at without losing a record or a duration.
LineReached(o) ==
  /\ o \in 0..Len(file) /\ AtPause(o) /\ (~hasty => AtLine(o))
  /\ OnHubUpTo(o)
  /\ adapter = "claude" /\ ~hasty => TimedUpTo(o)

LEMMA ReachedNothing == Shape => LineReached(0)
<1> SUFFICES ASSUME Shape PROVE LineReached(0)
  OBVIOUS
<1>1. \A s : UsageAt(s) => s \in Nat
  BY LineShape DEF UsageAt
<1> QED
  BY <1>1, SizeIsNatural DEF LineReached, AtPause, AtLine, OnHubUpTo, TimedUpTo

LEMMA GrowthKeepsLines ==
  ASSUME Shape, Shape', NEW p \in Pieces \cup {NL}, Grow(p), NEW s
  PROVE  /\ UsageAt(s)' /\ s + 2 <= Len(file) => UsageAt(s)
         /\ DurationAt(s)' /\ s + 2 <= Len(file) => DurationAt(s)
         /\ LineAt(s)' /\ s + 2 <= Len(file) => file'[s + 1] = file[s + 1]
<1>n. PICK n \in Nat : n = Len(file)
  BY SizeIsNatural
<1>a. Len(file') = n + 1 /\ \A i \in 1..n : file'[i] = file[i]
  BY Appended, <1>n
<1> SUFFICES ASSUME LineAt(s)', s + 2 <= n
             PROVE  LineAt(s) /\ file'[s + 1] = file[s + 1]
  BY <1>n DEF UsageAt, DurationAt
<1>1. s \in 0..n /\ (s = 0 \/ file'[s] = NL)
  BY <1>a DEF LineAt
<1>2. s \in Nat /\ s + 1 \in 1..n /\ (s = 0 \/ s \in 1..n)
  BY <1>1, <1>n
<1>3. s \in 0..(n - 1) /\ (s = 0 \/ file[s] = NL)
  BY <1>1, <1>2, <1>a
<1> QED
  BY <1>2, <1>3, <1>a, <1>n DEF LineAt

LEMMA PauseEndsRecord ==
  ASSUME Shape, NEW o \in 0..Len(file), AtPause(o), NEW s, LineAt(s), s < o
  PROVE  s + 2 <= o
<1>1. file[s + 1] # NL /\ file[s + 1].half = 1 /\ s \in Nat
  BY LineShape
<1>2. o # s + 1
  BY <1>1 DEF AtPause, AtLine
<1> QED
  BY <1>1, <1>2, SizeIsNatural

\* Appending a piece takes nothing back from what was reached.
LEMMA GrowthKeepsReached ==
  ASSUME Shape, Shape', NEW p \in Pieces \cup {NL}, Grow(p),
         UNCHANGED <<adapter, logHub, hasty>>, NEW o \in 0..Len(file), LineReached(o)
  PROVE  LineReached(o)'
<1>n. PICK n \in Nat : n = Len(file)
  BY SizeIsNatural
<1>a. Len(file') = n + 1 /\ \A i \in 1..n : file'[i] = file[i]
  BY Appended, <1>n
<1>p. o \in 0..n /\ AtPause(o) /\ o \in Nat
  BY <1>n DEF LineReached
<1>q. o = 0 \/ file'[o] = file[o]
  BY <1>a, <1>p
<1>1. o \in 0..Len(file') /\ (AtLine(o)' <=> AtLine(o)) /\ AtPause(o)'
  BY <1>a, <1>p, <1>q DEF AtPause, AtLine
<1>w. ASSUME NEW s, UsageAt(s)', s < o PROVE UsageAt(s) /\ file'[s + 1] = file[s + 1]
  <2>1. s \in Nat /\ (s = 0 \/ file'[s] = NL)
    BY <1>w, <1>a DEF UsageAt, LineAt
  <2>2. s = 0 \/ file'[s] = file[s]
    BY <2>1, <1>w, <1>p, <1>a
  <2>3. LineAt(s)
    BY <2>1, <2>2, <1>w, <1>p, <1>n DEF LineAt
  <2>4. s + 2 <= Len(file) /\ LineAt(s)'
    <3>1. s + 2 <= o
      BY <2>3, <1>w, <1>p, PauseEndsRecord
    <3> QED
      BY <3>1, <2>1, <1>w, <1>p, <1>n DEF UsageAt
  <2> QED
    BY <1>w, <2>4, GrowthKeepsLines
<1>2. OnHubUpTo(o)'
  BY <1>w DEF LineReached, OnHubUpTo, OnLogHub
<1>3. TimedUpTo(o) => TimedUpTo(o)'
  <2> SUFFICES ASSUME TimedUpTo(o), NEW s, UsageAt(s)', DurationAt(s + 3)', s + 6 <= o
               PROVE  \E h \in logHub : h.rec = file'[s + 1].rec /\ h.timed
    BY DEF TimedUpTo
  <2>1. s \in Nat
    BY <1>a DEF UsageAt, LineAt
  <2>2. UsageAt(s) /\ file'[s + 1] = file[s + 1]
    BY <1>w, <2>1, <1>p
  <2>3. DurationAt(s + 3)
    <3>1. s + 3 + 2 <= Len(file)
      BY <2>1, <1>p, <1>n
    <3> QED
      BY <3>1, GrowthKeepsLines
  <2> QED
    BY <2>2, <2>3 DEF TimedUpTo
<1> QED
  BY <1>1, <1>2, <1>3 DEF LineReached

-----------------------------------------------------------------------------

LEMMA LineEndsRecord ==
  ASSUME Shape, NEW o \in 0..Len(file), AtLine(o), NEW s, LineAt(s), s < o
  PROVE  s + 3 <= o
<1>1. s \in Nat /\ file[s + 1] # NL /\ (s + 2 <= Len(file) => file[s + 2] # NL)
  BY LineShape
<1>2. o # s + 1 /\ o # s + 2
  BY <1>1, SizeIsNatural DEF AtLine
<1> QED
  BY <1>1, <1>2, SizeIsNatural

\* No record is in the file twice.
LEMMA RecordsDiffer ==
  ASSUME FileInv, NEW i \in 1..Len(file), NEW j \in 1..Len(file),
         file[i] # NL, file[i].half = 1, file[j] # NL, file[j].half = 1,
         file[i].rec = file[j].rec
  PROVE  i = j
<1>1. file[i].rec \in Nat /\ file[j].rec \in Nat
  BY PieceFields DEF FileInv
<1>2. ~(i < j) /\ ~(j < i)
  BY <1>1 DEF FileInv, RecordsAscend
<1> QED
  BY <1>2, SizeIsNatural DEF FileInv

LEMMA RecordOf ==
  ASSUME FileInv, NEW s, UsageAt(s)
  PROVE  /\ s \in Nat /\ s + 1 \in 1..Len(file) /\ file[s + 1] # NL /\ file[s + 1].half = 1
         /\ RecordAt(s) = file[s + 1] /\ file[s + 1].rec \in 1..written
         /\ file[s + 1].rec \in 1..MaxRecs
<1>1. s \in Nat /\ s + 1 \in 1..Len(file) /\ file[s + 1] # NL /\ file[s + 1].half = 1
  BY LineShape, SizeIsNatural DEF UsageAt, FileInv
<1>2. file[s + 1].rec \in 1..MaxRecs /\ file[s + 1].rec <= written
  BY <1>1, PieceFields DEF FileInv, FileFits
<1>3. file[s + 1].rec \in 1..written
  BY <1>2, LogAssumption DEF FileInv, FileFits
<1> QED
  BY <1>1, <1>2, <1>3 DEF RecordAt

\* The first line of an OpenClaw log names it, by its first half alone.
LEMMA IdentityIs ==
  ASSUME Shape, adapter = "openclaw"
  PROVE  /\ Len(Identity) \in Nat
         /\ file # <<>> => Len(Identity) >= 2 /\ Identity[2] = file[1]
         /\ file = <<>> => Len(Identity) = 1
<1>n. PICK n \in Nat : n = Len(file)
  BY SizeIsNatural
<1>1. LineEnd(0) \in 0..n /\ (n > 0 => LineEnd(0) > 0)
  <2>1. CASE n = 0
    <3>1. {i \in Newlines : i > 0} = {}
      BY <2>1, <1>n DEF Newlines
    <3> QED
      BY <2>1, <3>1, <1>n DEF LineEnd
  <2>2. CASE n > 0
    <3>1. LineAt(0)
      BY <2>2, <1>n DEF LineAt
    <3> QED
      BY <3>1, <2>2, <1>n, LineEnds
  <2> QED
    BY <2>1, <2>2, <1>n
<1> DEFINE line == SubSeq(file, 1, LineEnd(0))
<1>2. line \in Seq(Pieces \cup {NL}) /\ Len(line) = LineEnd(0)
      /\ (n > 0 => line[1] = file[1])
  BY <1>1, <1>n DEF Shape
<1>3. Identity = <<0>> \o line
  BY DEF Identity
<1> HIDE DEF line
<1>4. Len(Identity) = 1 + LineEnd(0) /\ (n > 0 => Identity[2] = file[1])
  <2>1. <<0>> \in Seq({0} \cup Pieces \cup {NL}) /\ line \in Seq({0} \cup Pieces \cup {NL})
    BY <1>2
  <2> QED
    BY <1>1, <1>2, <1>3, <2>1
<1>5. file # <<>> <=> n > 0
  BY <1>n DEF Shape
<1> QED
  BY <1>1, <1>4, <1>5, <1>n

\* The record of the first line has been begun.
LEMMA FirstIsBegun ==
  ASSUME FileInv, file # <<>>
  PROVE  file[1] # NL /\ file[1].rec \in 1..written
<1>n. PICK n \in Nat : n = Len(file)
  BY SizeIsNatural DEF FileInv
<1>1. n > 0 /\ Shape
  BY <1>n DEF FileInv, Shape
<1>2. LineAt(0) /\ 0 + 1 = 1
  BY <1>1, <1>n DEF LineAt
<1>3. file[1] # NL /\ 1 \in 1..Len(file)
  BY <1>1, <1>2, <1>n, LineShape
<1>4. file[1].rec \in Nat /\ file[1].rec >= 1 /\ file[1].rec <= written /\ written \in Nat
  BY <1>1, <1>3, PieceFields, LogAssumption DEF FileInv, FileFits
<1> QED
  BY <1>3, <1>4

\* previousLineStart finds the line before.
LEMMA PreviousIs ==
  ASSUME Shape, NEW o, LineAt(o), o > 0
  PROVE  /\ o \in Nat /\ o - 3 \in Nat /\ PreviousStart(o) = o - 3 /\ LineAt(o - 3)
<1>n. PICK n \in Nat : n = Len(file)
  BY SizeIsNatural
<1>1. o \in 1..(n - 1) /\ file[o] = NL
  BY <1>n DEF LineAt
<1>2. o > 1 /\ file[o - 1] # NL /\ file[o - 1].half = 2
  BY <1>1, <1>n DEF Shape, PiecesInOrder
<1>3. o > 2 /\ file[o - 2] # NL /\ file[o - 2].half = 1
  <2>1. o - 1 \in 1..n /\ o - 1 - 1 = o - 2
    BY <1>1, <1>2, <1>n
  <2>2. /\ file[o - 1] # NL /\ file[o - 1].half = 2 /\ o - 1 > 1
        /\ file[o - 2] # NL /\ file[o - 2].half = 1
    BY <2>1, <1>2, <1>n DEF Shape, PiecesInOrder
  <2> QED
    BY <2>2, <1>1
<1>4. o - 2 = 1 \/ file[o - 3] = NL
  <2>1. o - 2 \in 1..n /\ o - 2 - 1 = o - 3
    BY <1>1, <1>3, <1>n
  <2>2. \/ file[o - 2] = NL
        \/ file[o - 2] # NL /\ file[o - 2].half = 2
        \/ o - 2 = 1 \/ file[o - 3] = NL
    BY <2>1, <1>n DEF Shape, PiecesInOrder
  <2> QED
    BY <2>2, <1>3
<1>5. o - 3 \in Nat /\ LineAt(o - 3)
  BY <1>1, <1>3, <1>4, <1>n DEF LineAt
<1> DEFINE before == {i \in Newlines : i < o}
<1>6. before \subseteq Int /\ \A i \in before : i <= o - 3
  BY <1>1, <1>2, <1>3, <1>n DEF Newlines
<1>7. CASE o = 3
  <2>1. before = {}
    BY <1>6, <1>7, <1>n DEF Newlines
  <2> QED
    BY <1>1, <1>5, <1>7, <2>1 DEF PreviousStart
<1>8. CASE o # 3
  <2>1. o - 3 \in before
    BY <1>1, <1>4, <1>5, <1>8, <1>n DEF Newlines
  <2> HIDE DEF before
  <2>2. Max(before) = o - 3
    BY <1>6, <2>1, GreatestIs
  <2> QED
    BY <1>1, <1>5, <2>1, <2>2 DEF PreviousStart, before
<1> QED
  BY <1>7, <1>8

\* A read makes an event of each whole usage record from its start on.
LEMMA EventsAre ==
  ASSUME Shape, NEW from, from.offset \in 0..Len(file), AtPause(from.offset), NEW e
  PROVE  e \in Events(from) <=> \E s : from.offset <= s /\ UsageAt(s) /\ e = LogEvent(s, from)
<1>1. e \in Events(from) <=>
        \E s : s \in Consumed(from.offset) /\ IsUsage(s) /\ e = LogEvent(s, from)
  BY DEF Events
<1>2. \A s : s \in Consumed(from.offset) /\ IsUsage(s) <=> from.offset <= s /\ UsageAt(s)
  BY UsagesConsumed
<1> QED
  BY <1>1, <1>2

\* A duration record next to its usage record is found in the same read.
LEMMA FollowsDuration ==
  ASSUME Shape, NEW o \in 0..Len(file), AtPause(o), NEW s, o <= s, UsageAt(s), DurationAt(s + 3)
  PROVE  Follows(s, o)
<1>l. Len(file) \in Nat /\ o \in Nat /\ s \in Nat
  BY SizeIsNatural, LineShape DEF UsageAt
<1>1. LineAt(s + 3) /\ s + 3 + 2 <= Len(file)
  BY DEF DurationAt
<1>2. s + 3 \in Consumed(o)
  <2>1. s + 3 \in Starts(o)
    BY <1>1, <1>l, StartsFrom
  <2>2. s + 3 \notin LeftOver(o)
    BY <1>1, <1>l, LeftOverIs
  <2> QED
    BY <2>1, <2>2 DEF Consumed
<1>3. IsDuration(s + 3)
  BY <1>1, RecordsAreWhole
<1>4. ASSUME NEW u \in Consumed(o), s < u, u < s + 3, IsUsage(u) PROVE FALSE
  <2>1. LineAt(u) /\ u \in 0..Len(file) /\ AtLine(u)
    <3>1. LineAt(u)
      BY <1>4, UsagesConsumed DEF UsageAt
    <3> QED
      BY <3>1, <1>l DEF LineAt, AtLine
  <2>2. s + 3 <= u
    BY <2>1, <1>4, LineEndsRecord DEF UsageAt
  <2> QED
    BY <2>1, <2>2, <1>4, <1>l
<1> QED
  BY <1>2, <1>3, <1>4, <1>l DEF Follows

\* A read that does not overtake the writer stops at the end of a line.
LEMMA CalmStop ==
  ASSUME Shape, NEW o \in 0..Len(file), AtLine(o), Readable(o), ~Hasty(o)
  PROVE  AtLine(Stop(o))
<1>n. PICK n \in Nat : n = Len(file)
  BY SizeIsNatural
<1>p. AtPause(o)
  BY DEF AtPause
<1>1. CASE Partial
  BY <1>1, <1>p, StopIs DEF Partial, LineAt, AtLine
<1>2. CASE ~Partial
  <2>1. Stop(o) = n /\ AtPause(n)
    BY <1>2, <1>p, <1>n, StopIs
  <2> SUFFICES ASSUME ~AtLine(n) PROVE FALSE
    BY <2>1
  <2>2. n > 0 /\ file[n] # NL /\ file[n].half = 2
    BY <2>1, <1>n DEF AtPause, AtLine
  <2>3. n > 1 /\ file[n - 1] # NL /\ file[n - 1].half = 1
    BY <2>2, <1>n DEF Shape, PiecesInOrder
  <2>4. n - 1 = 1 \/ file[n - 2] = NL
    <3>1. n - 1 \in 1..n /\ n - 1 - 1 = n - 2
      BY <2>3, <1>n
    <3> QED
      BY <3>1, <2>3, <1>n DEF Shape, PiecesInOrder
  <2>5. LineAt(n - 2)
    BY <2>3, <2>4, <1>n DEF LineAt
  <2>6. o <= n - 2
    <3>1. o # n /\ o # n - 1
      BY <2>2, <2>3, <1>n DEF AtLine
    <3> QED
      BY <3>1, <1>n
  <2>7. n - 2 \in Starts(o)
    BY <2>5, <2>6, <1>n, StartsFrom
  <2>8. n - 2 \in Consumed(o)
    BY <2>7, <1>p, <1>n, LeftOverIs DEF Consumed
  <2>9. ~Terminated(n - 2)
    <3>1. Terminated(n - 2) <=> n - 2 + 3 <= Len(file)
      BY <2>5, LineFacts
    <3> QED
      BY <3>1, <1>n
  <2> QED
    BY <2>8, <2>9 DEF Hasty
<1> QED
  BY <1>1, <1>2

-----------------------------------------------------------------------------

\* The types, with the inode bounded by the operations so far.
LogTyped ==
  /\ adapter \in Adapters
  /\ ops \in 0..MaxOps /\ inode \in 1..(ops + 1) /\ torn \in BOOLEAN
  /\ hasty \in BOOLEAN /\ logFaults \in 0..LogFaults
  /\ logCursor.offset \in 0..(3 * MaxRecs) /\ logCursor.line \in Nat
  /\ look # NoLook =>
       /\ look.offset \in 0..(3 * MaxRecs) /\ look.line \in Nat /\ look.size \in Nat
       /\ look.offset > 0 => logCursor.offset > 0

\* An OpenClaw identity that names the first line of this file.
Matches(id) == file # <<>> /\ Len(id) >= 2 /\ id[2] = file[1]

\* The file at the path is the one the cursor was committed for.
SameFile ==
  IF adapter = "openclaw" THEN Matches(logCursor.identity)
  ELSE logCursor.identity = <<inode>> /\ ~torn

\* The first line an OpenClaw identity names has been begun.
Begun(id) == Len(id) >= 2 => id[2] # NL /\ id[2].rec \in 1..written

\* What an identity can be. OpenClaw's tells a truncated file from a new one.
IdentityKnown ==
  IF adapter = "openclaw"
  THEN /\ logCursor.offset > 0 => Len(logCursor.identity) >= 1
       /\ Begun(logCursor.identity)
       /\ torn => ~Matches(logCursor.identity)
       /\ look # NoLook =>
            /\ Len(look.identity) >= 1 /\ Begun(look.identity)
            /\ torn /\ look.offset > 0 => ~Matches(look.identity)
  ELSE /\ \/ logCursor.identity = <<>> /\ logCursor.offset = 0
          \/ \E j \in 1..inode : logCursor.identity = <<j>>
       /\ look # NoLook => look.identity = <<inode>>

\* The heart of the invariant: the cursor of this very file was reached.
CursorKept == SameFile => LineReached(logCursor.offset)

\* A poll under way starts at a place that was reached; if it starts at a
\* duration record, the last poll that got past it kept its duration.
LookKept ==
  look # NoLook /\ ~torn =>
    /\ LineReached(look.offset) /\ (look.offset = 0 \/ look.size <= Len(file))
    /\ adapter = "claude" /\ ~hasty /\ look.size = Len(file) /\ DurationAt(look.offset)
       => TimedUpTo(look.offset + 3)

\* Lines against bytes: exact without haste.
CursorLines == ~hasty => 3 * logCursor.line = logCursor.offset

\* The same for a poll under way.
LookLines ==
  look # NoLook /\ ~hasty /\ (torn => look.offset = 0) => 3 * look.line = look.offset

\* The id of an event whose record begins at piece i.
PlacedAt(place, i) ==
  IF adapter = "generic" THEN \E n \in Nat : place = <<1, n>> /\ n = i - 1
  ELSE \E n \in Nat : place = <<n>> /\ 3 * n = i + 2

HubTyped == \A h \in logHub : h.rec \in 1..written /\ h.timed \in BOOLEAN

Calm == ~hasty /\ ~(adapter = "generic" /\ inode # 1)

\* Without haste the hub knows each record that is in the file by its place.
HubPlaces ==
  Calm => \A h \in logHub, i \in 1..Len(file) :
    file[i] # NL /\ file[i].half = 1 /\ file[i].rec = h.rec => PlacedAt(h.place, i)

(***************************************************************************)
(* The inductive invariant. NoRecordSkipped and DurationKept follow from   *)
(* CursorKept, and the poll that commits a cursor needs LookKept for it.   *)
(* CalmRescanSafe alone says nothing of a record that is sent again: that  *)
(* takes HubPlaces, and HubPlaces the exact line numbers.                  *)
(***************************************************************************)
LogInv ==
  /\ FileInv /\ LogTyped /\ IdentityKnown
  /\ CursorKept /\ LookKept /\ CursorLines /\ LookLines
  /\ HubTyped /\ HubPlaces /\ CalmRescanSafe

\* A poll that resumes within a file resumes in the file of its cursor, but
\* for a truncated one of Claude or generic.
LEMMA ResumesSame ==
  ASSUME LogInv, Resumes, logCursor.offset > 0, torn => adapter = "openclaw"
  PROVE  SameFile /\ LineReached(logCursor.offset)
<1>n. PICK n \in Nat : n = Len(file)
  BY SizeIsNatural DEF LogInv, FileInv
<1>0. logCursor.offset \in Nat /\ logCursor.offset <= n
  BY <1>n DEF Resumes, LogInv, LogTyped
<1>1. CASE adapter = "openclaw"
  <2>1. Len(logCursor.identity) >= 1
    BY <1>1 DEF LogInv, IdentityKnown
  <2>2. logCursor.identity = Identity
    BY <2>1, <1>1 DEF Resumes
  <2>3. file # <<>>
    BY <1>0, <1>n
  <2>4. Matches(logCursor.identity)
    BY <2>2, <2>3, <1>1, IdentityIs DEF Matches, LogInv, FileInv
  <2> QED
    BY <2>4, <1>1 DEF SameFile, LogInv, CursorKept
<1>2. CASE adapter # "openclaw"
  <2>1. PICK j \in 1..inode : logCursor.identity = <<j>>
    BY <1>2, <1>0 DEF LogInv, IdentityKnown
  <2>2. logCursor.identity = <<inode>>
    BY <2>1, <1>2 DEF Resumes, Identity
  <2> QED
    BY <2>2, <1>2 DEF SameFile, LogInv, CursorKept
<1> QED
  BY <1>1, <1>2

LEMMA ReachedBefore ==
  ASSUME FileInv, NEW o \in Nat, NEW x \in Nat, x <= o, LineReached(o), AtLine(x)
  PROVE  LineReached(x) /\ (adapter = "claude" /\ ~hasty => TimedUpTo(o))
<1>n. PICK n \in Nat : n = Len(file)
  BY SizeIsNatural DEF FileInv
<1>1. \A s : UsageAt(s) => s \in Nat
  BY LineShape DEF UsageAt, FileInv
<1>2. OnHubUpTo(x)
  BY <1>1 DEF LineReached, OnHubUpTo
<1>3. TimedUpTo(o) => TimedUpTo(x)
  BY <1>1 DEF TimedUpTo
<1> QED
  BY <1>2, <1>3, <1>n DEF LineReached, AtPause

LEMMA TimedNothing ==
  ASSUME Shape PROVE TimedUpTo(3)
BY LineShape DEF TimedUpTo, UsageAt

\* A poll that replays a line has one before it.
LEMMA ReplayIs ==
  ASSUME LogInv, Replays
  PROVE  LET o == logCursor.offset IN
         LineAt(o) /\ o - 3 \in Nat /\ PreviousStart(o) = o - 3 /\ LineAt(o - 3)
<1>n. PICK n \in Nat : n = Len(file)
  BY SizeIsNatural DEF LogInv, FileInv
<1>o. PICK o \in Nat : o = logCursor.offset
  BY DEF LogInv, LogTyped
<1>1. o > 0 /\ o \in Starts(o) /\ PreviousStart(o) < o /\ Shape
  BY <1>o DEF Replays, LogInv, FileInv
<1>2. o < n
  BY <1>1, <1>n DEF Starts
<1>3. file[o] = NL
  BY <1>1 DEF PreviousStart
<1>4. LineAt(o)
  BY <1>2, <1>3, <1>n DEF LineAt
<1> QED
  BY <1>1, <1>4, <1>o, PreviousIs

\* Whatever became of the file, a poll starts within it.
LEMMA BeginsTyped ==
  ASSUME LogInv
  PROVE  /\ Begins.identity = Identity /\ Begins.size = Len(file) /\ Begins # NoLook
         /\ Begins.offset \in 0..logCursor.offset /\ Begins.line \in Nat
         /\ Begins.offset > 0 => logCursor.offset > 0 /\ Resumes
<1>0. logCursor.offset \in Nat /\ logCursor.line \in Nat
  BY DEF LogInv, LogTyped
<1>f. ASSUME NEW o \in Nat, NEW l
      PROVE  /\ From(o, l).identity = Identity /\ From(o, l).size = Len(file)
             /\ From(o, l).offset = o /\ From(o, l).line = l /\ From(o, l) # NoLook
  <2>1. From(o, l).offset # NoLook.offset
    BY DEF From, NoLook
  <2> QED
    BY <2>1 DEF From
<1>1. CASE ~Resumes
  <2>1. Begins = From(0, 0)
    BY <1>1 DEF Begins
  <2> QED
    BY <2>1, <1>f, <1>0
<1>2. CASE Resumes /\ Replays
  <2>1. Begins = From(PreviousStart(logCursor.offset), logCursor.line - 1)
    BY <1>2 DEF Begins
  <2>2. PreviousStart(logCursor.offset) = logCursor.offset - 3 /\ logCursor.offset - 3 \in Nat
        /\ logCursor.line - 1 \in Nat /\ logCursor.offset > 0
    <3>1. logCursor.line > 0 /\ logCursor.offset > 0
      BY <1>2 DEF Replays
    <3> QED
      BY <3>1, <1>0, <1>2, ReplayIs
  <2>3. PreviousStart(logCursor.offset) \in Nat /\ PreviousStart(logCursor.offset) \in 0..logCursor.offset
    BY <2>2, <1>0
  <2> HIDE DEF Begins
  <2> QED
    BY <2>1, <2>2, <2>3, <1>f, <1>2
<1>3. CASE Resumes /\ ~Replays
  <2>1. Begins = From(logCursor.offset, logCursor.line)
    BY <1>3 DEF Begins
  <2> QED
    BY <2>1, <1>f, <1>0, <1>3
<1> QED
  BY <1>1, <1>2, <1>3

\* Where a poll starts: at the beginning, at the cursor, or one record before.
LEMMA BeginsIs ==
  ASSUME LogInv, torn => adapter = "openclaw"
  PROVE  LET o == logCursor.offset IN
         \/ Begins.offset = 0 /\ (~hasty => Begins.line = 0)
         \/ /\ o \in Nat /\ o > 0 /\ SameFile /\ LineReached(o)
            /\ Begins.offset = o /\ Begins.line = logCursor.line
            /\ ~(adapter = "claude" /\ logCursor.line > 0 /\ DurationAt(o))
         \/ /\ o > 0 /\ SameFile /\ LineReached(o) /\ LineAt(o) /\ logCursor.line > 0
            /\ Begins.offset = o - 3 /\ o - 3 \in Nat /\ LineAt(o - 3)
            /\ Begins.line = logCursor.line - 1
<1> DEFINE o == logCursor.offset
<1>n. PICK n \in Nat : n = Len(file)
  BY SizeIsNatural DEF LogInv, FileInv
<1>0. logCursor.offset \in Nat /\ logCursor.line \in Nat /\ Shape
  BY DEF LogInv, LogTyped, FileInv
<1>1. CASE ~Resumes
  BY <1>1 DEF Begins, From
<1>2. CASE Resumes /\ o = 0
  <2>1. Begins = From(0, logCursor.line)
    BY <1>2 DEF Begins, Replays
  <2>2. ~hasty => logCursor.line = 0
    BY <1>2, <1>0 DEF LogInv, CursorLines
  <2> QED
    BY <2>1, <2>2 DEF From
<1>3. CASE Resumes /\ o > 0
  <2>1. SameFile /\ LineReached(o) /\ o <= n
    BY <1>3, <1>n, ResumesSame DEF Resumes
  <2>2. ASSUME LineAt(o)
        PROVE  o \in Starts(o) /\ (IsDuration(o) <=> DurationAt(o)) /\ PreviousStart(o) < o
    <3>1. o < Len(file) /\ o \in 0..Len(file)
      BY <2>2, <1>n DEF LineAt
    <3>2. o \in Starts(o)
      BY <3>1, <1>0, StartsFrom
    <3>3. IsDuration(o) <=> DurationAt(o)
      BY <1>0, <2>2, RecordsAreWhole
    <3>4. PreviousStart(o) < o
      BY <1>0, <1>3, <2>2, PreviousIs
    <3> QED
      BY <3>2, <3>3, <3>4
  <2>4. CASE Replays
    <3>1. Begins = From(PreviousStart(o), logCursor.line - 1)
      BY <1>3, <2>4 DEF Begins
    <3>2. LineAt(o) /\ PreviousStart(o) = o - 3 /\ o - 3 \in Nat /\ LineAt(o - 3)
      BY <2>4, ReplayIs
    <3>3. logCursor.line > 0
      BY <2>4 DEF Replays
    <3> QED
      BY <2>1, <3>1, <3>2, <3>3, <1>3 DEF From
  <2>5. CASE ~Replays
    <3>1. Begins = From(o, logCursor.line)
      BY <1>3, <2>5 DEF Begins
    <3>2. ~(adapter = "claude" /\ logCursor.line > 0 /\ DurationAt(o))
      BY <2>2, <2>5, <1>3 DEF DurationAt, Replays
    <3> QED
      BY <2>1, <3>1, <3>2, <1>0, <1>3 DEF From
  <2> QED
    BY <2>4, <2>5
<1> QED
  BY <1>0, <1>1, <1>2, <1>3

-----------------------------------------------------------------------------

\* Nothing LogInv says of the file, the cursor and the hub reads the look.
LEMMA LookStep ==
  ASSUME LogInv, Look
  PROVE  LogInv'
<1>n. PICK n \in Nat : n = Len(file)
  BY SizeIsNatural DEF LogInv, FileInv
<1>0. /\ look' = Begins
      /\ UNCHANGED <<adapter, file, inode, torn, written, logCursor, logHub, hasty, ops, logFaults>>
  BY DEF Look
<1>f. FileInv'
  BY FileStep DEF LogInv, LogNext, LogPoll
<1>s. Shape /\ logCursor.offset \in 0..(3 * MaxRecs) /\ logCursor.offset \in Nat
      /\ logCursor.line \in Nat /\ MaxRecs \in Nat
  BY LogAssumption DEF LogInv, LogTyped, FileInv
<1>1. (AtLine(0)) /\ LineReached(0) /\ TimedUpTo(3)
  BY <1>s, ReachedNothing, TimedNothing DEF AtLine
<1>2. /\ look' # NoLook /\ look'.offset = Begins.offset /\ look'.line = Begins.line
      /\ look'.size = n /\ look'.identity = Identity
      /\ Begins.offset \in 0..logCursor.offset /\ Begins.line \in Nat
      /\ Begins.offset > 0 => logCursor.offset > 0 /\ Resumes
  BY <1>0, <1>n, BeginsTyped
<1>3. ASSUME torn => adapter = "openclaw"
      PROVE  /\ Begins.offset \in 0..n /\ LineReached(Begins.offset)
             /\ adapter = "claude" /\ ~hasty /\ DurationAt(Begins.offset)
                  => TimedUpTo(Begins.offset + 3)
             /\ ~hasty => 3 * Begins.line = Begins.offset
  <2>l. ~hasty => 3 * logCursor.line = logCursor.offset
    BY DEF LogInv, CursorLines
  <2>1. CASE Begins.offset = 0 /\ (~hasty => Begins.line = 0)
    BY <2>1, <1>1, <1>n
  <2>2. CASE /\ logCursor.offset > 0 /\ SameFile /\ LineReached(logCursor.offset)
             /\ Begins.offset = logCursor.offset /\ Begins.line = logCursor.line
             /\ ~(adapter = "claude" /\ logCursor.line > 0 /\ DurationAt(logCursor.offset))
    <3>1. ~hasty => logCursor.line > 0
      BY <2>l, <2>2, <1>s
    <3>2. logCursor.offset \in 0..n
      BY <2>2, <1>n DEF LineReached
    <3> QED
      BY <2>l, <2>2, <3>1, <3>2, <1>s
  <2>3. CASE /\ logCursor.offset > 0 /\ SameFile /\ LineReached(logCursor.offset) /\ LineAt(logCursor.offset)
             /\ logCursor.line > 0
             /\ Begins.offset = logCursor.offset - 3 /\ logCursor.offset - 3 \in Nat
             /\ LineAt(logCursor.offset - 3) /\ Begins.line = logCursor.line - 1
    <3>1. logCursor.offset \in 0..n /\ AtLine(logCursor.offset - 3)
      BY <2>3, <1>n DEF LineReached, LineAt, AtLine
    <3>2. LineReached(logCursor.offset - 3) /\ (adapter = "claude" /\ ~hasty => TimedUpTo(logCursor.offset))
      <4>1. logCursor.offset - 3 <= logCursor.offset /\ FileInv
        BY <1>s DEF LogInv
      <4> QED
        BY <4>1, <2>3, <3>1, <1>s, ReachedBefore
    <3>3. logCursor.offset - 3 + 3 = logCursor.offset /\ logCursor.offset - 3 \in 0..n
      BY <1>s, <3>1, <2>3
    <3>4. ~hasty => 3 * (logCursor.line - 1) = logCursor.offset - 3
      BY <2>l, <1>s
    <3> QED
      BY <2>3, <3>1, <3>2, <3>3, <3>4
  <2> QED
    BY <1>3, <2>1, <2>2, <2>3, BeginsIs
<1>5. LookKept'
  <2> SUFFICES ASSUME ~torn PROVE LookKept'
    BY <1>0 DEF LookKept
  <2> QED
    BY <1>0, <1>2, <1>3, <1>n DEF LookKept, LineReached, AtPause, AtLine, OnHubUpTo, OnLogHub,
      TimedUpTo, UsageAt, DurationAt, LineAt
<1>6. LookLines'
  <2>1. CASE torn /\ Begins.offset > 0
    BY <2>1, <1>0, <1>2 DEF LookLines
  <2>2. CASE torn /\ Begins.offset = 0 /\ adapter # "openclaw"
    <3>1. ~hasty => Begins.line = 0
      <4> SUFFICES ASSUME ~hasty PROVE Begins.line = 0
        OBVIOUS
      <4>1. 3 * logCursor.line = logCursor.offset
        BY DEF LogInv, CursorLines
      <4>2. CASE Begins = From(0, 0)
        BY <4>2 DEF From
      <4>3. CASE Begins = From(logCursor.offset, logCursor.line)
        <5>1. logCursor.offset = 0 /\ Begins.line = logCursor.line
          BY <4>3, <2>2 DEF From
        <5> QED
          BY <5>1, <4>1, <1>s
      <4>4. CASE Replays /\ Begins = From(PreviousStart(logCursor.offset), logCursor.line - 1)
        <5>1. PreviousStart(logCursor.offset) = logCursor.offset - 3
          BY <4>4, ReplayIs
        <5>2. logCursor.offset = 3 /\ Begins.line = logCursor.line - 1
          BY <4>4, <5>1, <2>2, <1>s DEF From
        <5> QED
          BY <5>2, <4>1, <1>s
      <4> QED
        BY <4>2, <4>3, <4>4 DEF Begins
    <3> QED
      BY <3>1, <2>2, <1>0, <1>2 DEF LookLines
  <2>3. CASE torn => adapter = "openclaw"
    BY <2>3, <1>0, <1>2, <1>3 DEF LookLines
  <2> QED
    BY <2>1, <2>2, <2>3, <1>2, <1>s
<1>7. LogTyped'
  BY <1>0, <1>2, <1>n, <1>s DEF LogInv, LogTyped
<1>8. IdentityKnown'
  <2>1. CASE adapter = "openclaw"
    <3>1. Len(Identity) >= 1 /\ Begun(Identity)
      <4>1. /\ file # <<>> => Len(Identity) >= 2 /\ Identity[2] = file[1]
            /\ file = <<>> => Len(Identity) = 1
        BY <2>1, <1>s, IdentityIs
      <4>2. file # <<>> => file[1] # NL /\ file[1].rec \in 1..written
        BY FirstIsBegun DEF LogInv
      <4>3. CASE file = <<>>
        BY <4>1, <4>3 DEF Begun
      <4>4. CASE file # <<>>
        <5>1. Len(Identity) >= 2 /\ Identity[2] = file[1]
          BY <4>1, <4>4
        <5>2. Identity[2] # NL /\ Identity[2].rec \in 1..written
          BY <4>2, <4>4, <5>1
        <5>3. Len(Identity) >= 1
          BY <5>1, <2>1, <1>s, IdentityIs
        <5> QED
          BY <5>2, <5>3 DEF Begun
      <4> QED
        BY <4>3, <4>4
    <3>2. ~(torn /\ Begins.offset > 0)
      <4>1. torn => ~SameFile
        BY <2>1 DEF LogInv, IdentityKnown, SameFile
      <4> QED
        BY <4>1, <2>1, <1>2, ResumesSame
    <3> QED
      BY <2>1, <3>1, <3>2, <1>0, <1>2 DEF LogInv, IdentityKnown, Matches, Begun
  <2>2. CASE adapter # "openclaw"
    BY <2>2, <1>0, <1>2 DEF LogInv, IdentityKnown, Identity
  <2> QED
    BY <2>1, <2>2
<1>9. CursorKept' /\ CursorLines'
  BY <1>0 DEF LogInv, CursorKept, CursorLines, SameFile, Matches, LineReached, AtPause, AtLine,
    OnHubUpTo, OnLogHub, TimedUpTo, UsageAt, DurationAt, LineAt
<1>10. HubTyped' /\ HubPlaces' /\ CalmRescanSafe'
  BY <1>0 DEF LogInv, HubTyped, HubPlaces, PlacedAt, Calm, CalmRescanSafe, Once, Same
<1> QED
  BY <1>f, <1>5, <1>6, <1>7, <1>8, <1>9, <1>10 DEF LogInv

-----------------------------------------------------------------------------

LEMMA GrowthStep ==
  ASSUME LogInv, FileInv', NEW p \in Pieces \cup {NL}, Grow(p), written \in Nat,
         written' \in {written, written + 1},
         p # NL /\ p.half = 1 => p.rec = written + 1,
         file = <<>> => p # NL /\ p.half = 1,
         UNCHANGED <<adapter, inode, torn, logCursor, look, logHub, hasty, ops, logFaults>>
  PROVE  LogInv'
<1>n. PICK n \in Nat : n = Len(file)
  BY SizeIsNatural DEF LogInv, FileInv
<1>s. Shape /\ Shape' /\ logCursor.offset \in Nat /\ logCursor.line \in Nat
  BY DEF LogInv, LogTyped, FileInv
<1>a. /\ Len(file') = n + 1 /\ file'[n + 1] = p /\ file' # <<>>
      /\ \A i \in 1..n : file'[i] = file[i]
  BY Appended, <1>n, <1>s
<1>0. UNCHANGED <<adapter, inode, torn, logCursor, look, logHub, hasty, ops, logFaults>>
  OBVIOUS
<1>r. ASSUME NEW o \in 0..n, LineReached(o) PROVE LineReached(o)'
  BY <1>r, <1>s, <1>n, <1>0, GrowthKeepsReached
<1>q. ASSUME NEW o \in 0..n PROVE AtLine(o)' <=> AtLine(o)
  BY <1>a, <1>n DEF AtLine
<1>1. LogTyped'
  BY <1>0, <1>a, <1>n DEF LogInv, LogTyped
<1>3. ASSUME NEW id, adapter = "openclaw", Begun(id), Matches(id)' PROVE Matches(id)
  <2>1. CASE file # <<>>
    <3>1. 1 \in 1..n
      BY <2>1, <1>n, <1>s DEF Shape
    <3>2. file'[1] = file[1]
      BY <3>1, <1>a
    <3> QED
      BY <2>1, <3>2, <1>3 DEF Matches
  <2>2. CASE file = <<>>
    <3>1. file'[1] = p /\ p.rec = written + 1
      BY <2>2, <1>n, <1>a
    <3>2. id[2] = file'[1] /\ id[2].rec \in 1..written
      BY <1>3 DEF Begun, Matches
    <3>3. written + 1 \notin 1..written
      OBVIOUS
    <3> QED
      BY <3>1, <3>2, <3>3
  <2> QED
    BY <2>1, <2>2
<1>b. ASSUME NEW id, Begun(id) PROVE Begun(id)'
  BY <1>b DEF Begun
<1>2. IdentityKnown'
  <2>1. CASE adapter = "openclaw"
    <3>1. /\ logCursor.offset > 0 => Len(logCursor.identity) >= 1
          /\ Begun(logCursor.identity)
          /\ torn => ~Matches(logCursor.identity)
          /\ look # NoLook =>
               /\ Len(look.identity) >= 1 /\ Begun(look.identity)
               /\ torn /\ look.offset > 0 => ~Matches(look.identity)
      BY <2>1 DEF LogInv, IdentityKnown
    <3>2. Begun(logCursor.identity)' /\ (torn => ~Matches(logCursor.identity)')
      BY <3>1, <2>1, <1>0, <1>3, <1>b DEF Begun, Matches
    <3>3. look # NoLook =>
            /\ Len(look.identity) >= 1 /\ Begun(look.identity)'
            /\ torn /\ look.offset > 0 => ~Matches(look.identity)'
      BY <3>1, <2>1, <1>0, <1>3, <1>b DEF Begun, Matches
    <3> QED
      BY <2>1, <3>1, <3>2, <3>3, <1>0 DEF IdentityKnown
  <2>2. CASE adapter # "openclaw"
    BY <2>2, <1>0 DEF LogInv, IdentityKnown
  <2> QED
    BY <2>1, <2>2
<1>i. SameFile' => SameFile
  <2>1. CASE adapter # "openclaw"
    BY <2>1, <1>0 DEF SameFile
  <2>2. CASE adapter = "openclaw"
    <3>1. Begun(logCursor.identity)
      BY <2>2 DEF LogInv, IdentityKnown
    <3> QED
      BY <3>1, <2>2, <1>0, <1>3 DEF SameFile, Matches
  <2> QED
    BY <2>1, <2>2
<1>4. CursorKept'
  <2> SUFFICES ASSUME SameFile' PROVE LineReached(logCursor.offset)'
    BY <1>0 DEF CursorKept
  <2>1. LineReached(logCursor.offset) /\ logCursor.offset \in 0..n
    BY <1>i, <1>n DEF LogInv, CursorKept, LineReached
  <2>2. \A o \in 0..n : LineReached(o) => LineReached(o)'
    BY <1>r
  <2> QED
    BY <2>1, <2>2, <1>0 DEF LineReached, AtPause, AtLine, OnHubUpTo, TimedUpTo
<1>5. LookKept'
  <2> SUFFICES ASSUME look # NoLook, ~torn PROVE LookKept'
    BY <1>0 DEF LookKept
  <2>1. LineReached(look.offset) /\ look.offset \in 0..n /\ look.size \in Nat
        /\ (look.offset = 0 \/ look.size <= n)
    BY <1>n DEF LogInv, LookKept, LineReached, LogTyped
  <2>2. LineReached(look.offset)'
    BY <2>1, <1>0, <1>r DEF LineReached, AtPause, AtLine, OnHubUpTo, TimedUpTo
  <2>3. CASE look.offset = 0
    <3>1. TimedUpTo(3)'
      BY <1>s, <1>a DEF TimedUpTo, UsageAt, LineAt
    <3>2. TimedUpTo(look.offset + 3)'
      BY <2>3, <3>1, <1>0 DEF TimedUpTo
    <3> QED
      BY <2>2, <2>3, <3>2, <1>0 DEF LookKept
  <2>4. CASE look.size <= n
    BY <2>1, <2>2, <2>4, <1>0, <1>a DEF LookKept
  <2> QED
    BY <2>1, <2>3, <2>4
<1>6. CursorLines' /\ LookLines'
  BY <1>0 DEF LogInv, CursorLines, LookLines
<1>8. HubTyped'
  <2>1. \A h \in logHub : h.rec \in 1..written'
    BY DEF LogInv, HubTyped
  <2> QED
    BY <2>1, <1>0 DEF LogInv, HubTyped
<1>9. HubPlaces' /\ CalmRescanSafe'
  <2>1. Calm' = Calm /\ CalmRescanSafe'
    BY <1>0 DEF Calm, LogInv, CalmRescanSafe, Once, Same
  <2>2. ASSUME Calm, NEW h \in logHub, NEW i \in 1..(n + 1),
               file'[i] # NL, file'[i].half = 1, file'[i].rec = h.rec
        PROVE  PlacedAt(h.place, i)'
    <3>1. h.rec \in 1..written
      BY DEF LogInv, HubTyped
    <3>2. i \in 1..n
      <4>1. i # n + 1
        BY <2>2, <3>1, <1>a
      <4> QED
        BY <4>1, <1>n
    <3>3. PlacedAt(h.place, i)
      BY <2>2, <3>2, <1>a, <1>n DEF LogInv, HubPlaces
    <3> QED
      BY <3>3, <1>0 DEF PlacedAt
  <2> QED
    BY <2>1, <2>2, <1>0, <1>a DEF HubPlaces
<1> QED
  BY <1>1, <1>2, <1>4, <1>5, <1>6, <1>8, <1>9 DEF LogInv

LEMMA ToolStep ==
  ASSUME LogInv, Continue \/ \E kind \in {Usage, Duration} : Begin(kind)
  PROVE  LogInv'
<1>f. FileInv /\ FileInv' /\ written \in Nat
  BY FileStep, LogAssumption DEF LogInv, LogNext, FileInv, FileFits
<1>1. ASSUME NEW kind \in {Usage, Duration}, Begin(kind) PROVE LogInv'
  <2>1. Piece(written + 1, kind, 1) \in Pieces /\ Grow(Piece(written + 1, kind, 1))
    BY <1>1, <1>f, RecordBegun
  <2>2. /\ Piece(written + 1, kind, 1) # NL /\ Piece(written + 1, kind, 1).half = 1
        /\ Piece(written + 1, kind, 1).rec = written + 1
    BY <2>1, NewlineIsNoPiece DEF Piece
  <2>3. /\ written' \in {written, written + 1}
        /\ UNCHANGED <<adapter, inode, torn, logCursor, look, logHub, hasty, ops, logFaults>>
    BY <1>1 DEF Begin
  <2> QED
    BY <1>f, <2>1, <2>2, <2>3, GrowthStep
<1>2. ASSUME Continue PROVE LogInv'
  <2>1. PICK p \in Pieces \cup {NL} : Grow(p)
    BY <1>2, <1>f, RecordContinued
  <2>2. file # <<>> /\ Len(file) \in Nat /\ Len(file) > 0
    <3>1. file # <<>>
      BY <1>2, <1>f, RecordContinued
    <3> QED
      BY <3>1, <1>f DEF FileInv, Shape
  <2>3. p # NL => p.half # 1
    <3>1. p = IF file[Len(file)].half = 1 THEN [file[Len(file)] EXCEPT !.half = 2] ELSE NL
      <4>1. file' = Append(file, IF file[Len(file)].half = 1
                                 THEN [file[Len(file)] EXCEPT !.half = 2] ELSE NL)
        BY <1>2 DEF Continue, Grow
      <4>2. file' = Append(file, p)
        BY <2>1 DEF Grow
      <4> QED
        BY <4>1, <4>2, <1>f DEF FileInv, Shape
    <3>2. file[Len(file)] \in Pieces
      <4>1. file[Len(file)] # NL
        BY <1>2 DEF Continue, Unfinished
      <4> QED
        BY <4>1, <2>2, <1>f, PieceFields DEF FileInv
    <3> QED
      BY <3>1, <3>2 DEF Pieces
  <2>4. /\ written' \in {written, written + 1}
        /\ UNCHANGED <<adapter, inode, torn, logCursor, look, logHub, hasty, ops, logFaults>>
    BY <1>2 DEF Continue
  <2> QED
    BY <1>f, <2>1, <2>2, <2>3, <2>4, GrowthStep
<1> QED
  BY <1>1, <1>2

LEMMA TruncateStep ==
  ASSUME LogInv, Truncate
  PROVE  LogInv'
<1>f. FileInv' /\ Shape'
  BY FileStep DEF LogInv, LogNext, FileInv
<1>0. /\ ops \in 0..MaxOps /\ ops' \in 0..MaxOps /\ ops' = ops + 1
      /\ file' = <<>> /\ Len(file') = 0 /\ torn' = (logCursor.offset > 0)
      /\ UNCHANGED <<adapter, inode, written, logCursor, look, logHub, hasty, logFaults>>
  BY LogAssumption DEF Truncate, Op, LogInv, LogTyped
<1>1. LogTyped'
  <2>1. inode \in 1..(ops' + 1)
    BY <1>0 DEF LogInv, LogTyped
  <2> QED
    BY <2>1, <1>0 DEF LogInv, LogTyped
<1>2. IdentityKnown'
  BY <1>0 DEF LogInv, IdentityKnown, Matches, Begun
<1>t. ~torn' => logCursor.offset = 0 /\ (look # NoLook => look.offset = 0)
  <2>1. logCursor.offset \in Nat /\ (look # NoLook => look.offset \in Nat /\ (look.offset > 0 => logCursor.offset > 0))
    BY LogAssumption DEF LogInv, LogTyped
  <2>2. ~torn' => ~(logCursor.offset > 0)
    BY <1>0
  <2> QED
    BY <2>1, <2>2
<1>u. /\ LET x == 0 IN LineReached(x)'
      /\ \A s : ~UsageAt(s)'
  BY <1>f, <1>0 DEF LineReached, AtPause, AtLine, OnHubUpTo, TimedUpTo, UsageAt, LineAt
<1>3. CursorKept'
  <2> SUFFICES ASSUME SameFile' PROVE LineReached(logCursor.offset)'
    BY DEF CursorKept
  <2>1. ~torn'
    BY <1>0 DEF SameFile, Matches
  <2> QED
    BY <2>1, <1>t, <1>u, <1>0 DEF LineReached, AtPause, AtLine, OnHubUpTo, TimedUpTo
<1>4. LookKept'
  <2> SUFFICES ASSUME look # NoLook, ~torn' PROVE LookKept'
    BY <1>0 DEF LookKept
  <2>1. look.offset = 0
    BY <1>t
  <2>2. LineReached(look.offset)'
    BY <2>1, <1>u, <1>0 DEF LineReached, AtPause, AtLine, OnHubUpTo, TimedUpTo
  <2>3. TimedUpTo(look.offset + 3)'
    BY <1>u DEF TimedUpTo
  <2> QED
    BY <2>1, <2>2, <2>3, <1>0 DEF LookKept
<1>5. CursorLines' /\ LookLines'
  <2>1. look # NoLook /\ (torn' => look.offset = 0) => look.offset = 0
    BY <1>t
  <2> QED
    BY <2>1, <1>0 DEF LogInv, CursorLines, LookLines
<1>6. HubTyped' /\ HubPlaces' /\ CalmRescanSafe'
  BY <1>0 DEF LogInv, HubTyped, HubPlaces, Calm, CalmRescanSafe, Once, Same
<1> QED
  BY <1>f, <1>1, <1>2, <1>3, <1>4, <1>5, <1>6 DEF LogInv

LEMMA FileIsLost ==
  ASSUME LogInv, Replace \/ Forget
  PROVE  LogInv'
<1>f. FileInv /\ Shape /\ FileInv' /\ Shape'
  BY FileStep DEF LogInv, LogNext, FileInv
<1>0. /\ look = NoLook /\ look' = NoLook /\ ops \in 0..MaxOps /\ ops' \in 0..MaxOps
      /\ ops' = ops + 1
      /\ UNCHANGED <<adapter, written, logHub, hasty, logFaults>>
  BY LogAssumption DEF Replace, Forget, Op, LogInv, LogTyped
<1>c. \/ /\ logCursor' = logCursor /\ torn' = torn
         /\ inode' = inode + 1 /\ file' \in {file, <<>>}
      \/ /\ logCursor' = NoCursor /\ torn' = FALSE
         /\ inode' = inode /\ file' = file
  BY DEF Replace, Forget
<1>i. inode \in 1..(ops + 1) /\ ops \in Nat
  BY <1>0 DEF LogInv, LogTyped
<1>k. NoCursor.offset = 0 /\ NoCursor.line = 0 /\ NoCursor.identity = <<>>
  BY DEF NoCursor
<1>1. LogTyped'
  <2>1. inode' \in 1..(ops' + 1)
    BY <1>0, <1>c, <1>i
  <2>2. logCursor'.offset \in 0..(3 * MaxRecs) /\ logCursor'.line \in Nat /\ torn' \in BOOLEAN
    <3>1. logCursor' = logCursor \/ (logCursor'.offset = 0 /\ logCursor'.line = 0)
      BY <1>c, <1>k
    <3>2. 0 \in 0..(3 * MaxRecs)
      BY LogAssumption
    <3>3. torn' \in BOOLEAN
      BY <1>c DEF LogInv, LogTyped
    <3> QED
      BY <3>1, <3>2, <3>3 DEF LogInv, LogTyped
  <2> QED
    BY <1>0, <2>1, <2>2 DEF LogInv, LogTyped
<1>2. IdentityKnown'
  <2>1. CASE adapter = "openclaw"
    <3>1. CASE logCursor' = logCursor /\ torn' = torn /\ file' \in {file, <<>>}
      BY <2>1, <3>1, <1>0 DEF LogInv, IdentityKnown, Begun, Matches
    <3>2. CASE logCursor' = NoCursor /\ torn' = FALSE
      BY <2>1, <3>2, <1>0, <1>k DEF IdentityKnown, Begun
    <3> QED
      BY <3>1, <3>2, <1>c
  <2>2. CASE adapter # "openclaw"
    <3>1. logCursor' = logCursor \/ (logCursor'.identity = <<>> /\ logCursor'.offset = 0)
      BY <1>c, <1>k
    <3>2. \A j \in 1..inode : j \in 1..inode'
      BY <1>c, <1>i
    <3> QED
      BY <2>2, <3>1, <3>2, <1>0 DEF LogInv, IdentityKnown
  <2> QED
    BY <2>1, <2>2
<1>3. SameFile' => logCursor'.offset = 0 \/ (SameFile /\ file' = file /\ logCursor' = logCursor)
  <2> SUFFICES ASSUME SameFile', logCursor' = logCursor, logCursor.offset # 0
               PROVE  SameFile /\ file' = file
    BY <1>c, <1>k
  <2>c. logCursor # NoCursor
    BY <1>k
  <2>1. CASE adapter = "openclaw"
    BY <2>1, <2>c, <1>0, <1>c DEF SameFile, Matches
  <2>2. CASE adapter # "openclaw"
    <3>1. PICK j \in 1..inode : logCursor.identity = <<j>>
      BY <2>2 DEF LogInv, IdentityKnown
    <3>2. logCursor.identity = <<inode'>>
      BY <2>2, <1>0 DEF SameFile
    <3>3. inode' = j
      BY <3>1, <3>2
    <3>4. inode' # inode + 1
      BY <3>3, <1>i
    <3> QED
      BY <2>c, <3>4, <1>c
  <2> QED
    BY <2>1, <2>2
<1>4. CursorKept'
  <2> SUFFICES ASSUME SameFile' PROVE LineReached(logCursor.offset)'
    BY DEF CursorKept
  <2>1. CASE logCursor'.offset = 0
    <3>1. LET x == 0 IN LineReached(x)'
      <4>1. \A s : UsageAt(s)' => s \in Nat
        BY <1>f DEF UsageAt, LineAt, Shape
      <4> QED
        BY <4>1, <1>f DEF LineReached, AtPause, AtLine, OnHubUpTo, TimedUpTo, Shape
    <3> QED
      BY <2>1, <3>1 DEF LineReached, AtPause, AtLine, OnHubUpTo, TimedUpTo
  <2>2. CASE SameFile /\ file' = file /\ logCursor' = logCursor
    BY <2>2, <1>0 DEF LogInv, CursorKept, LineReached, AtPause, AtLine, OnHubUpTo,
      OnLogHub, TimedUpTo, UsageAt, DurationAt, LineAt
  <2> QED
    BY <2>1, <2>2, <1>3
<1>5. LookKept' /\ LookLines'
  BY <1>0 DEF LookKept, LookLines
<1>6. CursorLines'
  BY <1>0, <1>c, <1>k DEF LogInv, CursorLines
<1>7. HubTyped' /\ CalmRescanSafe' /\ HubPlaces'
  <2>1. Calm' => Calm
    BY <1>0, <1>c, <1>i DEF Calm
  <2>2. (file' = file \/ Len(file') = 0)
    BY <1>c
  <2>3. HubPlaces'
    BY <2>1, <2>2, <1>0 DEF LogInv, HubPlaces, PlacedAt
  <2>4. CalmRescanSafe'
    BY <2>1, <1>0 DEF LogInv, CalmRescanSafe, Calm, Once, Same
  <2> QED
    BY <2>3, <2>4, <1>0 DEF LogInv, HubTyped
<1> QED
  BY <1>f, <1>1, <1>2, <1>4, <1>5, <1>6, <1>7 DEF LogInv

LEMMA RefusedStep ==
  ASSUME LogInv, ReadRefused \/ UNCHANGED logVars
  PROVE  LogInv'
<1>f. FileInv'
  BY FileStep DEF LogInv, LogNext, LogPoll
<1>0. /\ UNCHANGED <<adapter, file, inode, torn, written, logCursor, logHub, hasty, ops, logFaults>>
      /\ look' = look \/ look' = NoLook
  BY DEF ReadRefused, logVars
<1>1. LogTyped' /\ IdentityKnown'
  BY <1>0 DEF LogInv, LogTyped, IdentityKnown, Matches, Begun
<1>2. CursorKept' /\ CursorLines' /\ LookKept' /\ LookLines'
  BY ZenonT(60), <1>0
  DEF LogInv, CursorKept, CursorLines, LookKept, LookLines, SameFile, Matches, LineReached, AtPause,
    AtLine, OnHubUpTo, OnLogHub, TimedUpTo, UsageAt, DurationAt, LineAt
<1>3. HubTyped' /\ HubPlaces' /\ CalmRescanSafe'
  BY <1>0 DEF LogInv, HubTyped, HubPlaces, PlacedAt, Calm, CalmRescanSafe, Once, Same
<1> QED
  BY <1>f, <1>1, <1>2, <1>3 DEF LogInv

-----------------------------------------------------------------------------

LEMMA EventFields ==
  ASSUME FileInv, NEW from, NEW s, UsageAt(s)
  PROVE  /\ LogEvent(s, from).rec = file[s + 1].rec /\ LogEvent(s, from).rec \in 1..written
         /\ LogEvent(s, from).timed = (adapter = "claude" /\ Follows(s, from.offset))
         /\ LogEvent(s, from).timed \in BOOLEAN
         /\ LogEvent(s, from).place
              = IF adapter = "generic" THEN <<inode, s>> ELSE <<LineOf(s, from)>>
<1>1. RecordAt(s) = file[s + 1] /\ file[s + 1].rec \in 1..written
  BY RecordOf
<1>2. (adapter = "claude" /\ Follows(s, from.offset)) \in BOOLEAN
  OBVIOUS
<1> QED
  BY <1>1, <1>2 DEF LogEvent

\* What the hub holds after a poll from look.offset, some of its events sent.
LEMMA HubGrows ==
  ASSUME FileInv, look.offset \in 0..Len(file), AtPause(look.offset),
         NEW arrived \in SUBSET Events(look), logHub' = Upserted(arrived), UNCHANGED file
  PROVE  /\ \A e \in logHub' : e \in logHub \/ e \in arrived
         /\ \A r : OnLogHub(r) => OnLogHub(r)'
         /\ \A s : UsageAt(s) /\ look.offset <= s /\ arrived = Events(look)
                     => LogEvent(s, look) \in logHub' /\ OnLogHub(file[s + 1].rec)'
         /\ \A s : /\ adapter = "claude" /\ UsageAt(s) /\ DurationAt(s + 3)
                   /\ \E h \in logHub : h.rec = file[s + 1].rec /\ h.timed
                   => \E h \in logHub' : h.rec = file[s + 1].rec /\ h.timed
<1>s. Shape
  BY DEF FileInv
<1>0. logHub' = {h \in logHub : \A e \in arrived : ~Same(h, e)} \cup arrived
  BY DEF Upserted
<1>e. \A e \in arrived : \E s : look.offset <= s /\ UsageAt(s) /\ e = LogEvent(s, look)
  BY <1>s, EventsAre
<1>1. \A e \in logHub' : e \in logHub \/ e \in arrived
  BY <1>0
<1>k. ASSUME NEW h \in logHub
      PROVE  h \in logHub' \/ \E e \in arrived : e \in logHub' /\ e.rec = h.rec
  BY <1>0 DEF Same
<1>2. \A r : OnLogHub(r) => OnLogHub(r)'
  BY <1>k DEF OnLogHub
<1>3. ASSUME NEW s, UsageAt(s), look.offset <= s, arrived = Events(look)
      PROVE  LogEvent(s, look) \in logHub' /\ OnLogHub(file[s + 1].rec)'
  <2>1. LogEvent(s, look) \in Events(look)
    BY <1>3, <1>s, EventsAre
  <2>2. LogEvent(s, look) \in logHub'
    BY <2>1, <1>3, <1>0
  <2>3. LogEvent(s, look).rec = file[s + 1].rec
    BY <1>3, EventFields
  <2> QED
    BY <2>2, <2>3 DEF OnLogHub
<1>4. ASSUME NEW s, adapter = "claude", UsageAt(s), DurationAt(s + 3),
             NEW h \in logHub, h.rec = file[s + 1].rec, h.timed
      PROVE  \E g \in logHub' : g.rec = file[s + 1].rec /\ g.timed
  <2>1. CASE h \in logHub'
    BY <2>1, <1>4
  <2>2. CASE \E e \in arrived : e \in logHub' /\ e.rec = h.rec
    <3>1. PICK e \in arrived : e \in logHub' /\ e.rec = h.rec
      BY <2>2
    <3>2. PICK t : look.offset <= t /\ UsageAt(t) /\ e = LogEvent(t, look)
      BY <1>e
    <3>3. e.rec = file[t + 1].rec
      BY <3>2, EventFields
    <3>4. t = s
      <4>1. /\ t \in Nat /\ t + 1 \in 1..Len(file) /\ file[t + 1] # NL /\ file[t + 1].half = 1
            /\ s \in Nat /\ s + 1 \in 1..Len(file) /\ file[s + 1] # NL /\ file[s + 1].half = 1
        BY <3>2, <1>4, RecordOf
      <4>2. file[t + 1].rec = file[s + 1].rec
        BY <3>1, <3>3, <1>4
      <4>3. t + 1 = s + 1
        BY <4>1, <4>2, RecordsDiffer
      <4> QED
        BY <4>1, <4>3
    <3>5. Follows(s, look.offset)
      BY <3>2, <3>4, <1>4, <1>s, FollowsDuration
    <3>6. e.timed = (adapter = "claude" /\ Follows(s, look.offset))
      BY <3>2, <3>4, EventFields
    <3>7. e.timed
      BY <3>5, <3>6, <1>4
    <3> QED
      BY <3>1, <3>7, <1>4
  <2> QED
    BY <2>1, <2>2, <1>k
<1>5. \A s : /\ adapter = "claude" /\ UsageAt(s) /\ DurationAt(s + 3)
             /\ \E h \in logHub : h.rec = file[s + 1].rec /\ h.timed
             => \E h \in logHub' : h.rec = file[s + 1].rec /\ h.timed
  BY <1>4
<1> QED
  BY <1>1, <1>2, <1>3, <1>5

\* A poll from 0, or of a file that was not truncated.
Sound == torn => look.offset = 0

LEMMA SoundLook ==
  ASSUME LogInv, look # NoLook, Sound
  PROVE  /\ LineReached(look.offset) /\ look.offset \in 0..Len(file) /\ look.offset \in Nat
         /\ AtPause(look.offset) /\ (~hasty => AtLine(look.offset))
         /\ look.line \in Nat /\ (~hasty => 3 * look.line = look.offset)
         /\ look.offset = 0 \/ look.size <= Len(file)
         /\ adapter = "claude" /\ ~hasty /\ look.size = Len(file) /\ DurationAt(look.offset)
              => TimedUpTo(look.offset + 3)
<1>n. PICK n \in Nat : n = Len(file)
  BY SizeIsNatural DEF LogInv, FileInv
<1>0. Shape /\ torn \in BOOLEAN
  BY DEF LogInv, FileInv, LogTyped
<1>1. /\ LineReached(look.offset) /\ (look.offset = 0 \/ look.size <= Len(file))
      /\ adapter = "claude" /\ ~hasty /\ look.size = Len(file) /\ DurationAt(look.offset)
           => TimedUpTo(look.offset + 3)
  <2>1. CASE ~torn
    BY <2>1 DEF LogInv, LookKept
  <2>2. CASE look.offset = 0
    BY <2>2, <1>0, ReachedNothing, TimedNothing
  <2> QED
    BY <2>1, <2>2, <1>0 DEF Sound
<1>2. look.line \in Nat /\ (~hasty => 3 * look.line = look.offset)
  BY DEF LogInv, LogTyped, LookLines, Sound
<1> QED
  BY <1>1, <1>2, <1>n DEF LineReached

\* Whatever is read and from where, only records that were begun are sent.
LEMMA AnyEvent ==
  ASSUME FileInv, NEW from, from.offset \in Nat, NEW e \in Events(from)
  PROVE  e.rec \in 1..written /\ e.timed \in BOOLEAN
<1>n. PICK n \in Nat : n = Len(file)
  BY SizeIsNatural DEF FileInv
<1>1. PICK s \in Consumed(from.offset) : IsUsage(s) /\ e = LogEvent(s, from)
  BY DEF Events
<1>2. s \in Nat /\ s + 1 \in 1..n
  BY <1>1, <1>n DEF Consumed, Starts, Newlines
<1>3. file[s + 1] # NL
  BY <1>1 DEF IsUsage, Whole
<1>4. file[s + 1].rec \in 1..written
  BY <1>2, <1>3, <1>n, PieceFields, LogAssumption DEF FileInv, FileFits
<1>5. e.rec = file[s + 1].rec
  BY <1>1 DEF LogEvent, RecordAt
<1>6. e.timed = (adapter = "claude" /\ Follows(s, from.offset))
  BY <1>1 DEF LogEvent
<1>7. (adapter = "claude" /\ Follows(s, from.offset)) \in BOOLEAN
  OBVIOUS
<1> QED
  BY <1>4, <1>5, <1>6, <1>7

\* A poll, committed or not, keeps what is said of the hub.
LEMMA HubStep ==
  ASSUME LogInv, look # NoLook, NEW arrived \in SUBSET Events(look),
         logHub' = Upserted(arrived), hasty' = (hasty \/ Hasty(look.offset)),
         UNCHANGED <<adapter, file, inode, written>>
  PROVE  HubTyped' /\ HubPlaces' /\ CalmRescanSafe'
<1> DEFINE o == look.offset
<1>n. PICK n \in Nat : n = Len(file)
  BY SizeIsNatural DEF LogInv, FileInv
<1>1. HubTyped'
  <2>1. \A e \in arrived : e.rec \in 1..written /\ e.timed \in BOOLEAN
    BY AnyEvent, LogAssumption DEF LogInv, LogTyped
  <2>2. \A e \in logHub' : e \in logHub \/ e \in arrived
    BY DEF Upserted
  <2> QED
    BY <2>1, <2>2 DEF LogInv, HubTyped
<1>a. CASE ~Sound
  <2>1. torn /\ look.offset # 0
    BY <1>a DEF Sound
  <2>2. look.offset > 0
    BY <2>1, LogAssumption DEF LogInv, LogTyped
  <2>3. Hasty(look.offset)
    BY <2>1, <2>2, Zenon DEF Hasty
  <2>4. hasty'
    BY <2>3, Zenon
  <2> QED
    BY <2>4, <1>1 DEF HubPlaces, Calm, CalmRescanSafe
<1>b. CASE Sound
  <2>s. /\ FileInv /\ Shape /\ LinesCounted /\ o \in 0..Len(file) /\ o \in Nat /\ AtPause(o)
       /\ (~hasty => AtLine(o)) /\ look.line \in Nat /\ (~hasty => 3 * look.line = o)
    BY <1>b, SoundLook DEF LogInv, FileInv
  <2>h. hasty \in BOOLEAN /\ (~hasty' => ~hasty) /\ (Calm' => Calm)
    BY DEF LogInv, LogTyped, Calm
  <2>e. \A e \in arrived : \E s : o <= s /\ UsageAt(s) /\ e = LogEvent(s, look)
    BY <2>s, EventsAre
  <2>g. \A e \in logHub' : e \in logHub \/ e \in arrived
    BY <2>s, HubGrows
  <2>2. ASSUME Calm, NEW s, o <= s, UsageAt(s) PROVE PlacedAt(LogEvent(s, look).place, s + 1)
    <3>0. ~hasty /\ (adapter = "generic" => inode = 1) /\ s \in Nat
      BY <2>2, <2>s, RecordOf DEF Calm
    <3>1. CASE adapter = "generic"
      <4>1. LogEvent(s, look).place = <<1, s>> /\ s + 1 - 1 = s
        BY <3>0, <3>1, <2>2, <2>s, EventFields
      <4> QED
        BY <3>0, <3>1, <4>1 DEF PlacedAt
    <3>2. CASE adapter # "generic"
      <4>1. LogEvent(s, look).place = <<LineOf(s, look)>>
        BY <3>2, <2>2, <2>s, EventFields
      <4>2. LineOf(s, look) \in Nat /\ 3 * LineOf(s, look) = s + 3
        BY <3>0, <2>2, <2>s, LineOfRecord
      <4>3. s + 1 + 2 = s + 3
        BY <3>0
      <4> QED
        BY <3>2, <4>1, <4>2, <4>3 DEF PlacedAt
    <3> QED
      BY <3>1, <3>2
  <2>3. ASSUME Calm, NEW h \in logHub', NEW i \in 1..n, file[i] # NL, file[i].half = 1,
               file[i].rec = h.rec
        PROVE  PlacedAt(h.place, i)
    <3>1. CASE h \in logHub
      BY <3>1, <2>3, <1>n DEF LogInv, HubPlaces
    <3>2. CASE h \in arrived
      <4>1. PICK s : o <= s /\ UsageAt(s) /\ h = LogEvent(s, look)
        BY <3>2, <2>e
      <4>2. h.rec = file[s + 1].rec
        BY <4>1, <2>s, EventFields
      <4>3. s + 1 \in 1..Len(file) /\ file[s + 1] # NL /\ file[s + 1].half = 1
        BY <4>1, <2>s, RecordOf
      <4>4. i = s + 1
        BY <4>2, <4>3, <2>3, <2>s, <1>n, RecordsDiffer
      <4> QED
        BY <4>1, <4>4, <2>2, <2>3
    <3> QED
      BY <3>1, <3>2, <2>g
  <2>4. HubPlaces'
    BY <2>3, <2>h, <1>n DEF HubPlaces, PlacedAt
  <2>5. CalmRescanSafe'
    <3> SUFFICES ASSUME Calm', NEW h \in logHub', NEW g \in logHub', h.rec = g.rec
                 PROVE  h.place = g.place
      BY DEF CalmRescanSafe, Once, Same, Calm
    <3>c. Calm
      BY <2>h
    <3>1. ASSUME NEW i \in 1..n, file[i] # NL, file[i].half = 1, file[i].rec = h.rec
          PROVE  h.place = g.place
      <4>1. PlacedAt(h.place, i) /\ PlacedAt(g.place, i)
        BY <3>1, <3>c, <2>3
      <4>2. CASE adapter = "generic"
        BY <4>1, <4>2 DEF PlacedAt
      <4>3. CASE adapter # "generic"
        <5>1. PICK k \in Nat : h.place = <<k>> /\ 3 * k = i + 2
          BY <4>1, <4>3 DEF PlacedAt
        <5>2. PICK l \in Nat : g.place = <<l>> /\ 3 * l = i + 2
          BY <4>1, <4>3 DEF PlacedAt
        <5>3. k = l
          BY <5>1, <5>2
        <5> QED
          BY <5>1, <5>2, <5>3
      <4> QED
        BY <4>2, <4>3
    <3>2. ASSUME NEW e \in arrived, e.rec = h.rec PROVE h.place = g.place
      <4>1. PICK s : o <= s /\ UsageAt(s) /\ e = LogEvent(s, look)
        BY <2>e
      <4>2. s + 1 \in 1..n /\ file[s + 1] # NL /\ file[s + 1].half = 1 /\ file[s + 1].rec = h.rec
        BY <4>1, <3>2, <2>s, <1>n, RecordOf, EventFields
      <4> QED
        BY <4>2, <3>1
    <3>3. CASE h \in logHub /\ g \in logHub
      BY <3>3, <3>c DEF LogInv, CalmRescanSafe, Calm, Once, Same
    <3> QED
      BY <3>2, <3>3, <2>g
  <2> QED
    BY <2>4, <2>5, <1>1
<1> QED
  BY <1>a, <1>b

-----------------------------------------------------------------------------

\* What a poll has reached it keeps, wherever the poll itself stops.
LEMMA ReachedStays ==
  ASSUME LogInv, look # NoLook, NEW arrived \in SUBSET Events(look),
         logHub' = Upserted(arrived), hasty' = (hasty \/ Hasty(look.offset)),
         UNCHANGED <<adapter, file>>, Sound, NEW x, LineReached(x)
  PROVE  LineReached(x)'
<1>s. /\ FileInv /\ look.offset \in 0..Len(file) /\ AtPause(look.offset)
      /\ hasty \in BOOLEAN /\ (~hasty' => ~hasty)
  BY SoundLook DEF LogInv, LogTyped
<1>1. \A r : OnLogHub(r) => OnLogHub(r)'
  BY <1>s, HubGrows
<1>2. OnHubUpTo(x)'
  BY <1>1 DEF LineReached, OnHubUpTo, UsageAt, LineAt
<1>3. ASSUME adapter = "claude", TimedUpTo(x) PROVE TimedUpTo(x)'
  <2>1. \A s : /\ UsageAt(s) /\ DurationAt(s + 3)
               /\ \E h \in logHub : h.rec = file[s + 1].rec /\ h.timed
               => \E h \in logHub' : h.rec = file[s + 1].rec /\ h.timed
    BY <1>s, <1>3, HubGrows
  <2>2. \A s : (UsageAt(s)' <=> UsageAt(s)) /\ (DurationAt(s)' <=> DurationAt(s))
    BY DEF UsageAt, DurationAt, LineAt
  <2> QED
    BY <2>1, <2>2, <1>3 DEF TimedUpTo
<1> QED
  BY <1>s, <1>2, <1>3 DEF LineReached, AtPause, AtLine

LEMMA ReadFailsStep ==
  ASSUME LogInv, ReadFails
  PROVE  LogInv'
<1>f. FileInv'
  BY FileStep DEF LogInv, LogNext
<1>0. /\ look # NoLook /\ look' = NoLook /\ hasty' = (hasty \/ Hasty(look.offset))
      /\ UNCHANGED <<adapter, file, inode, torn, written, logCursor, ops>>
  BY DEF ReadFails
<1>a. PICK arrived \in SUBSET Events(look) : logHub' = Upserted(arrived)
  BY DEF ReadFails
<1>h. hasty \in BOOLEAN /\ hasty' \in BOOLEAN /\ (~hasty' => ~hasty)
  BY <1>0 DEF LogInv, LogTyped, Hasty
<1>1. LogTyped' /\ IdentityKnown'
  <2>1. logFaults' \in 0..LogFaults
    BY LogAssumption DEF ReadFails, LogInv, LogTyped
  <2> QED
    BY <2>1, <1>0, <1>h DEF LogInv, LogTyped, IdentityKnown, Matches, Begun
<1>2. CursorKept'
  <2> SUFFICES ASSUME SameFile PROVE LineReached(logCursor.offset)'
    BY <1>0 DEF CursorKept, SameFile, Matches
  <2>1. LineReached(logCursor.offset) /\ Sound
    BY DEF LogInv, CursorKept, SameFile, IdentityKnown, Sound
  <2>2. LET x == logCursor.offset IN LineReached(x) => LineReached(x)'
    BY <1>0, <1>a, <2>1, ReachedStays
  <2> QED
    BY <2>1, <2>2, <1>0 DEF LineReached, AtPause, AtLine, OnHubUpTo, TimedUpTo
<1>3. CursorLines' /\ LookKept' /\ LookLines'
  BY <1>0, <1>h DEF LogInv, CursorLines, LookKept, LookLines
<1>4. HubTyped' /\ HubPlaces' /\ CalmRescanSafe'
  BY <1>0, <1>a, HubStep
<1> QED
  BY <1>f, <1>1, <1>2, <1>3, <1>4 DEF LogInv

\* Between two line ends a read consumes a line for three bytes.
LEMMA LinesMoved ==
  ASSUME Shape, LinesCounted, NEW o \in 0..Len(file), AtLine(o), Readable(o), AtLine(Stop(o))
  PROVE  3 * Cardinality(Consumed(o)) = Stop(o) - o
<1>1. AtPause(o) /\ Len(file) \in Nat
  BY SizeIsNatural DEF AtPause
<1>2. Stop(o) \in o..Len(file)
  BY <1>1, StopIs
<1>3. /\ Cardinality(Consumed(o)) \in Nat
      /\ o = Stop(o) => Cardinality(Consumed(o)) = 0
      /\ o < Stop(o) => 3 * Cardinality(Consumed(o)) = (Stop(o) - o) + 0 + 0
  BY <1>1, LinesConsumed
<1> QED
  BY <1>1, <1>2, <1>3

\* Wherever a read begins, it stops within the file or where it began.
LEMMA AnyStop ==
  ASSUME FileInv, NEW o \in 0..(3 * MaxRecs)
  PROVE  /\ Stop(o) \in 0..(3 * MaxRecs) /\ (o > 0 => Stop(o) > 0)
         /\ Cardinality(Consumed(o)) \in Nat
<1>n. PICK n \in Nat : n = Len(file)
  BY SizeIsNatural DEF FileInv
<1>m. MaxRecs \in Nat /\ n <= 3 * MaxRecs
  BY <1>n, LogAssumption DEF FileInv, FileFits
<1>1. \A s \in Starts(o) : s \in Nat /\ o <= s /\ s < n
  BY <1>n, <1>m DEF Starts, Newlines
<1>2. LeftOver(o) \subseteq Starts(o) /\ Consumed(o) \subseteq Starts(o)
  BY DEF LeftOver, Consumed
<1>f. IsFiniteSet(Starts(o))
  <2>1. Starts(o) \subseteq 0..n
    BY <1>1, <1>n
  <2>2. IsFiniteSet(0..n)
    BY <1>n, FS_Interval
  <2> QED
    BY <2>1, <2>2, FS_Subset
<1>3. IsFiniteSet(LeftOver(o)) /\ Cardinality(Consumed(o)) \in Nat
  BY <1>2, <1>f, FS_Subset, FS_CardinalityType
<1>4. CASE LeftOver(o) = {}
  BY <1>4, <1>3, <1>n, <1>m DEF Stop
<1>5. CASE LeftOver(o) # {}
  <2>1. LeftOver(o) \subseteq Nat
    BY <1>1, <1>2
  <2>2. PICK m \in LeftOver(o) : \A s \in LeftOver(o) : m <= s
    BY <2>1, <1>5, LeastNatural
  <2>3. m \in Nat /\ o <= m /\ m < n /\ LeftOver(o) \subseteq Int
    BY <1>1, <1>2, <2>1, <2>2
  <2>4. Min(LeftOver(o)) = m
    BY <2>2, <2>3, LeastIs
  <2>5. Stop(o) = m
    BY <2>4, <1>5 DEF Stop
  <2> QED
    BY <2>3, <2>5, <1>3, <1>m
<1> QED
  BY <1>4, <1>5

\* A committed read: the records below its start were reached before, the
\* others are on the hub by its events.
LEMMA ReadStep ==
  ASSUME LogInv, Read
  PROVE  LogInv'
<1> DEFINE o == look.offset
<1>f. FileInv'
  BY FileStep DEF LogInv, LogNext, LogPoll
<1>0. /\ look # NoLook /\ Readable(o) /\ look' = NoLook /\ torn' = (torn /\ o > 0)
      /\ logHub' = Upserted(Events(look)) /\ hasty' = (hasty \/ Hasty(o))
      /\ logCursor' = [identity |-> look.identity, offset |-> Stop(o),
                    line |-> look.line + Cardinality(Consumed(o))]
      /\ UNCHANGED <<adapter, file, inode, written, ops, logFaults>>
  BY DEF Read
<1>n. PICK n \in Nat : n = Len(file)
  BY SizeIsNatural DEF LogInv, FileInv
<1>x. PICK x : x = Stop(o)
  OBVIOUS
<1>c. PICK c : c = Cardinality(Consumed(o))
  OBVIOUS
<1>k. logCursor'.identity = look.identity /\ logCursor'.offset = x /\ logCursor'.line = look.line + c
  BY <1>0, <1>x, <1>c
<1>y. /\ FileInv /\ Shape /\ LinesCounted /\ look.line \in Nat /\ look.size \in Nat
      /\ o \in 0..(3 * MaxRecs) /\ o \in Nat /\ torn \in BOOLEAN /\ hasty \in BOOLEAN
  BY <1>0, LogAssumption DEF LogInv, FileInv, LogTyped
<1>z. x \in 0..(3 * MaxRecs) /\ c \in Nat /\ (o > 0 => x > 0)
  BY <1>y, <1>x, <1>c, AnyStop
<1>t. torn' <=> ~Sound
  <2>1. o > 0 <=> o # 0
    BY <1>y
  <2>2. torn' <=> torn /\ o > 0
    BY <1>0, Zenon
  <2> QED
    BY <2>1, <2>2, Zenon DEF Sound
<1>1. LogTyped'
  <2>1. logCursor'.line \in Nat
    BY <1>k, <1>y, <1>z
  <2>2. hasty' \in BOOLEAN /\ torn' \in BOOLEAN
    BY <1>0, <1>y DEF Hasty
  <2> QED
    BY <2>1, <2>2, <1>0, <1>k, <1>z DEF LogInv, LogTyped
<1>2. IdentityKnown'
  <2>1. CASE adapter = "openclaw"
    <3>1. Len(look.identity) >= 1 /\ Begun(look.identity)
          /\ (torn /\ look.offset > 0 => ~Matches(look.identity))
      BY <2>1, <1>0 DEF LogInv, IdentityKnown
    <3> QED
      BY <2>1, <3>1, <1>0, <1>k DEF IdentityKnown, Begun, Matches
  <2>2. CASE adapter # "openclaw"
    <3>1. look.identity = <<inode>> /\ inode \in 1..inode
      BY <2>2, <1>0 DEF LogInv, IdentityKnown, LogTyped
    <3> QED
      BY <2>2, <3>1, <1>k, <1>0 DEF IdentityKnown
  <2> QED
    BY <2>1, <2>2
<1>8. LookKept' /\ LookLines'
  BY <1>0 DEF LookKept, LookLines
<1>9. HubTyped' /\ HubPlaces' /\ CalmRescanSafe'
  BY <1>0, HubStep
<1>a. CASE ~Sound
  <2>1. torn' /\ torn /\ o > 0 /\ hasty'
    BY <1>a, <1>0, <1>t, <1>y DEF Sound, Hasty
  <2>2. CursorKept' /\ CursorLines'
    BY <2>1, <1>2 DEF CursorKept, CursorLines, SameFile, IdentityKnown
  <2> QED
    BY <2>2, <1>f, <1>1, <1>2, <1>8, <1>9 DEF LogInv
<1>b. CASE Sound
  <2>s. /\ o \in 0..Len(file) /\ AtPause(o) /\ (~hasty => AtLine(o)) /\ LineReached(o)
        /\ (o = 0 \/ look.size <= n) /\ (~hasty => 3 * look.line = o)
    BY <1>b, <1>0, <1>n, SoundLook
  <2>h. ~hasty' => ~hasty /\ ~Hasty(o) /\ AtLine(o) /\ AtLine(x) /\ (o = 0 \/ look.size = n)
    <3>1. hasty \in BOOLEAN /\ Hasty(o) \in BOOLEAN
      BY DEF LogInv, LogTyped, Hasty
    <3>2. ~hasty' => ~hasty /\ ~Hasty(o) /\ AtLine(o)
      BY <1>0, <2>s, <1>y, <3>1
    <3>3. ~hasty' => AtLine(x)
      BY <3>2, <1>0, <2>s, <1>y, <1>x, <1>y, CalmStop
    <3>4. ~hasty' => o = 0 \/ look.size = n
      BY <3>2, <2>s, <1>y, <1>n DEF Hasty
    <3> QED
      BY <3>1, <3>2, <3>3, <3>4, <1>0
  <2>g. /\ \A r : OnLogHub(r) => OnLogHub(r)'
        /\ \A s : UsageAt(s) /\ o <= s => LogEvent(s, look) \in logHub' /\ OnLogHub(file[s + 1].rec)'
        /\ \A s : /\ adapter = "claude" /\ UsageAt(s) /\ DurationAt(s + 3)
                  /\ \E h \in logHub : h.rec = file[s + 1].rec /\ h.timed
                  => \E h \in logHub' : h.rec = file[s + 1].rec /\ h.timed
    <3>1. Events(look) \in SUBSET Events(look) /\ UNCHANGED file
      BY <1>0
    <3>2. look.offset \in 0..Len(file) /\ AtPause(look.offset) /\ FileInv
      BY <2>s, <1>y
    <3>3. logHub' = Upserted(Events(look))
      BY <1>0
    <3> QED
      BY <3>1, <3>2, <3>3, HubGrows
  <2>v. x \in o..n /\ x \in Nat /\ AtPause(x)
    BY <2>s, <1>y, <1>0, <1>x, <1>n, StopIs
  <2>u. \A s : /\ UsageAt(s)' <=> UsageAt(s)
               /\ DurationAt(s)' <=> DurationAt(s)
               /\ UsageAt(s) => s \in Nat /\ LineAt(s)
    BY <1>0, <2>s, <1>y, RecordOf DEF UsageAt, DurationAt, LineAt
  <2>3. ASSUME NEW s, UsageAt(s), s < x PROVE OnLogHub(file[s + 1].rec)'
    <3>1. s \in Nat
      BY <2>3, <2>u
    <3>2. CASE s < o
      <4>1. OnLogHub(file[s + 1].rec)
        BY <3>2, <2>3, <2>s, <1>y DEF LineReached, OnHubUpTo
      <4> QED
        BY <4>1, <2>g, <1>0 DEF OnLogHub
    <3>3. CASE o <= s
      BY <3>3, <2>3, <2>g
    <3> QED
      BY <3>1, <3>2, <3>3, <2>s, <1>y
  <2>4. ASSUME adapter = "claude", ~hasty', NEW s, UsageAt(s), DurationAt(s + 3), s + 6 <= x
        PROVE  \E h \in logHub' : h.rec = file[s + 1].rec /\ h.timed
    <3>1. s \in Nat /\ LineAt(s) /\ LineAt(s + 3)
      BY <2>4, <2>u DEF DurationAt
    <3>2. CASE o <= s
      <4>1. LogEvent(s, look) \in logHub' /\ LogEvent(s, look).rec = file[s + 1].rec
            /\ LogEvent(s, look).timed = (adapter = "claude" /\ Follows(s, look.offset))
        BY <3>2, <2>4, <2>g, <2>s, <1>y, EventFields
      <4>2. Follows(s, look.offset)
        BY <3>2, <2>4, <2>s, <1>y, FollowsDuration
      <4>3. LogEvent(s, look).timed
        BY <4>1, <4>2, <2>4
      <4> QED
        BY <4>1, <4>3
    <3>3. CASE s < o
      <4>0. ~hasty /\ AtLine(o) /\ look.size = n
        BY <2>4, <2>h, <1>y, <3>1, <3>3
      <4>1. s + 3 <= o
        BY <3>1, <3>3, <4>0, <2>s, <1>y, LineEndsRecord
      <4>2. s + 3 < o => s + 6 <= o
        <5> SUFFICES ASSUME s + 3 < o PROVE s + 6 <= o
          OBVIOUS
        <5>1. s + 3 + 3 <= o
          BY <3>1, <4>0, <2>s, <1>y, LineEndsRecord
        <5> QED
          BY <5>1, <3>1, <2>s, <1>y
      <4>3. \E h \in logHub : h.rec = file[s + 1].rec /\ h.timed
        <5>1. CASE s + 6 <= o
          <6>1. TimedUpTo(o)
            BY <4>0, <2>s, <1>y, <2>4 DEF LineReached
          <6> QED
            BY <5>1, <6>1, <2>4 DEF TimedUpTo
        <5>2. CASE o = s + 3
          <6>1. TimedUpTo(o + 3)
            BY <5>2, <4>0, <1>0, <2>4, <1>n, <1>b, SoundLook
          <6>2. s + 6 <= o + 3
            BY <5>2, <3>1
          <6> QED
            BY <6>1, <6>2, <2>4 DEF TimedUpTo
        <5> QED
          BY <5>1, <5>2, <4>1, <4>2, <3>1, <2>s, <1>y
      <4> QED
        BY <4>3, <2>4, <2>g
    <3> QED
      BY <3>1, <3>2, <3>3, <2>s, <1>y
  <2>5. LineReached(x)'
    <3>1. OnHubUpTo(x)'
      BY <2>3, <2>u, <1>0 DEF OnHubUpTo, OnLogHub
    <3>2. adapter = "claude" /\ ~hasty' => TimedUpTo(x)'
      BY <2>4, <2>u, <1>0 DEF TimedUpTo
    <3>3. AtPause(x)' /\ (~hasty' => AtLine(x)')
      BY <2>v, <2>h, <1>0 DEF AtPause, AtLine
    <3>4. x \in 0..Len(file')
      BY <2>v, <1>n, <2>s, <1>y, <1>0
    <3> QED
      BY <3>1, <3>2, <3>3, <3>4, <1>0 DEF LineReached
  <2>6. CursorKept'
    BY <2>5, <1>k DEF CursorKept, LineReached, AtPause, AtLine, OnHubUpTo, TimedUpTo
  <2>7. CursorLines'
    <3> SUFFICES ASSUME ~hasty' PROVE 3 * (look.line + c) = x
      BY <1>k DEF CursorLines
    <3>1. 3 * look.line = o
      BY <2>h, <2>s
    <3>2. 3 * c = x - o
      BY <2>h, <1>0, <2>s, <1>y, <1>x, <1>c, LinesMoved
    <3> QED
      BY SMTT(40), <3>1, <3>2, <1>y, <1>z
  <2> QED
    BY <1>f, <1>1, <1>2, <2>6, <2>7, <1>8, <1>9 DEF LogInv
<1> QED
  BY <1>a, <1>b

-----------------------------------------------------------------------------

LEMMA LogInitially == LogInit => LogInv
<1> SUFFICES ASSUME LogInit PROVE LogInv
  OBVIOUS
<1>0. /\ adapter \in Adapters /\ file = <<>> /\ inode = 1 /\ torn = FALSE /\ written = 0
      /\ logCursor = NoCursor /\ look = NoLook /\ logHub = {} /\ hasty = FALSE
      /\ ops = 0 /\ logFaults = 0
      /\ logCursor.offset = 0 /\ logCursor.line = 0 /\ logCursor.identity = <<>>
  BY DEF LogInit, NoCursor
<1>1. FileInv /\ Shape
  <2>1. written \in 0..MaxRecs
    BY <1>0, LogAssumption
  <2> QED
    BY <2>1, <1>0, EmptyFile DEF FileInv
<1>2. LogTyped
  <2>1. 0 \in 0..MaxOps /\ 0 \in 0..LogFaults /\ 0 \in 0..(3 * MaxRecs) /\ 1 \in 1..(0 + 1)
    BY LogAssumption
  <2>2. inode \in 1..(ops + 1) /\ logCursor.line \in Nat /\ logCursor.offset \in 0..(3 * MaxRecs)
    BY <2>1, <1>0
  <2>3. ops \in 0..MaxOps /\ logFaults \in 0..LogFaults
    BY <2>1, <1>0
  <2>4. torn \in BOOLEAN /\ hasty \in BOOLEAN /\ adapter \in Adapters /\ look = NoLook
    BY <1>0
  <2> QED
    BY <2>2, <2>3, <2>4 DEF LogTyped
<1>3. IdentityKnown
  BY <1>0 DEF IdentityKnown, Begun
<1>4. CursorKept /\ LookKept /\ CursorLines /\ LookLines
  BY <1>0, <1>1, ReachedNothing DEF CursorKept, LookKept, CursorLines, LookLines
<1>5. HubTyped /\ HubPlaces /\ CalmRescanSafe
  BY <1>0 DEF HubTyped, HubPlaces, CalmRescanSafe, Once
<1> QED
  BY <1>1, <1>2, <1>3, <1>4, <1>5 DEF LogInv

LEMMA LogStep == LogInv /\ [LogNext]_logVars => LogInv'
BY LookStep, ReadStep, ReadFailsStep, RefusedStep, ToolStep, TruncateStep, FileIsLost DEF LogNext, LogPoll

LEMMA LogKept == LogSpec => []LogInv
BY LogInitially, LogStep, PTL DEF LogSpec

\* The invariant bounds every variable.
LEMMA LogTypesHold == LogInv => LogTypeOK
<1> SUFFICES ASSUME LogInv PROVE LogTypeOK
  OBVIOUS
<1>n. PICK n \in Nat : n = Len(file)
  BY SizeIsNatural DEF LogInv, FileInv
<1>s. FileInv /\ Shape /\ LogTyped /\ MaxRecs \in Nat /\ MaxOps \in Nat /\ written \in 0..MaxRecs
  BY LogAssumption DEF LogInv, FileInv, FileFits
<1>1. \A i \in 1..Len(file) :
        file[i] = NL \/ file[i] \in [rec : 1..MaxRecs, kind : {Usage, Duration}, half : {1, 2}]
  BY <1>s, PieceFields DEF Pieces
<1>2. n <= 3 * MaxRecs
  BY <1>s, <1>n DEF FileInv, FileFits
<1>3. inode \in 1..(MaxOps + 1)
  <2>1. ops \in 0..MaxOps /\ inode \in 1..(ops + 1)
    BY <1>s DEF LogTyped
  <2> QED
    BY <2>1, <1>s
<1>6. \A h \in logHub : h.rec \in 1..MaxRecs /\ h.timed \in BOOLEAN
  BY <1>s DEF LogInv, HubTyped
<1> QED
  BY <1>s, <1>n, <1>1, <1>2, <1>3, <1>6 DEF LogTypeOK, LogTyped

(***************************************************************************)
(* Every variable stays in its type: the committed offset never passes the *)
(* bytes the tool can have written, though the file may end before it.     *)
(***************************************************************************)
THEOREM LogTypeCorrect == LogSpec => []LogTypeOK
BY LogKept, LogTypesHold, PTL

LEMMA NothingIsSkipped == LogInv => NoRecordSkipped
<1> SUFFICES ASSUME LogInv, torn => adapter = "openclaw", Resumes,
                    NEW s \in Starts(0), s < logCursor.offset, IsUsage(s)
             PROVE  OnLogHub(RecordAt(s).rec)
  BY DEF NoRecordSkipped, TruncationSafe
<1>1. Shape /\ FileInv /\ logCursor.offset \in Nat
  BY DEF LogInv, FileInv, LogTyped
<1>2. LineAt(s) /\ UsageAt(s) /\ s \in Nat
  BY <1>1, StartsAre, RecordsAreWhole, RecordOf
<1>3. LineReached(logCursor.offset)
  <2>1. logCursor.offset > 0
    BY <1>1, <1>2
  <2> QED
    BY <2>1, ResumesSame
<1> QED
  BY <1>2, <1>3 DEF LineReached, OnHubUpTo, RecordAt

(***************************************************************************)
(* Each complete usage record the next poll will not read again is on the  *)
(* hub (the Parse loops return an offset only with the events before it;   *)
(* adapter.go, 58-60, resets the offset for another file), through partial *)
(* lines, truncation, copies, failing polls and lost cursors, except in a  *)
(* log of Claude or generic that was truncated and not yet read again from *)
(* its beginning (the run log_truncation shows why).                       *)
(***************************************************************************)
THEOREM NothingSkipped == LogSpec => []NoRecordSkipped
BY LogKept, NothingIsSkipped, PTL

(***************************************************************************)
(* Unless a read overtook the writer or, for generic, another file is at   *)
(* the path, no record is on the hub under two ids, however often the log  *)
(* is scanned again: Parse numbers lines on from the cursor, and the hub   *)
(* replaces an event of the same id.                                       *)
(***************************************************************************)
THEOREM RescanIsSafe == LogSpec => []CalmRescanSafe
<1>1. LogInv => CalmRescanSafe
  BY DEF LogInv
<1> QED
  BY <1>1, LogKept, PTL

LEMMA DurationsAreKept == LogInv => DurationKept
<1> SUFFICES ASSUME LogInv, adapter = "claude", Resumes, ~hasty, ~torn,
                    NEW s \in Starts(0), NEW t \in Starts(0), IsUsage(s), IsDuration(t),
                    t = LineEnd(s), LineEnd(t) <= logCursor.offset
             PROVE  \E h \in logHub : h.rec = RecordAt(s).rec /\ h.timed
  BY DEF DurationKept
<1>n. PICK n \in Nat : n = Len(file)
  BY SizeIsNatural DEF LogInv, FileInv
<1>1. Shape /\ FileInv /\ logCursor.offset \in Nat /\ logCursor.offset <= n
  BY <1>n DEF LogInv, FileInv, LogTyped, Resumes
<1>2. UsageAt(s) /\ DurationAt(t) /\ LineAt(s) /\ LineAt(t) /\ s \in Nat
  BY <1>1, StartsAre, RecordsAreWhole, RecordOf
<1>3. t \in 0..(n - 1) /\ t + 2 <= n
  BY <1>2, <1>n DEF DurationAt, LineAt
<1>4. t = s + 3
  <2>1. LineEnd(s) = IF s + 3 <= Len(file) THEN s + 3 ELSE Len(file)
    BY <1>1, <1>2, LineEnds
  <2> QED
    BY <2>1, <1>3, <1>n
<1>5. LineEnd(t) = IF t + 3 <= n THEN t + 3 ELSE n
  BY <1>1, <1>2, <1>n, LineEnds
<1>6. LineReached(logCursor.offset)
  <2>1. logCursor.offset > 0
    BY <1>1, <1>3, <1>5, <1>n
  <2> QED
    BY <2>1, ResumesSame
<1>7. t + 3 <= logCursor.offset
  <2>1. t < logCursor.offset
    BY <1>1, <1>3, <1>5
  <2>2. AtLine(logCursor.offset) /\ logCursor.offset \in 0..Len(file)
    BY <1>6 DEF LineReached
  <2> QED
    BY <2>1, <2>2, <1>1, <1>2, LineEndsRecord
<1>8. s + 6 <= logCursor.offset
  BY <1>4, <1>7, <1>2, <1>1
<1> QED
  BY <1>2, <1>4, <1>6, <1>8 DEF LineReached, TimedUpTo, RecordAt

(***************************************************************************)
(* A duration record that lies before the cursor is on the hub with its    *)
(* usage record (claude.go, 135), also when one poll ended between the two *)
(* and a later one replayed the line before, unless a read overtook the    *)
(* writer or the file was truncated.                                       *)
(***************************************************************************)
THEOREM DurationsKept == LogSpec => []DurationKept
BY LogKept, DurationsAreKept, PTL

(***************************************************************************)
(* The lock of the database                                                *)
(***************************************************************************)


LEMMA TypeInit == LockInit => LockTypeOK
BY LockAssumption DEF LockInit, LockTypeOK

LEMMA TypeStep == LockTypeOK /\ [LockNext]_lockVars => LockTypeOK'
<1> SUFFICES ASSUME LockTypeOK, [LockNext]_lockVars PROVE LockTypeOK'
  OBVIOUS
<1> USE LockAssumption DEF LockTypeOK, Starting, Become, Give, RemoveMarker, LockFault
<1>1. CASE Tick
  BY <1>1 DEF Tick, Stale
<1>2. ASSUME NEW p \in Processes, Step(p) PROVE LockTypeOK'
  <2>1. CASE Open(p)
    BY <2>1 DEF Open
  <2>2. CASE Create(p)
    BY <2>2 DEF Create
  <2>3. CASE Exists(p)
    BY <2>3 DEF Exists
  <2>4. CASE Refuse(p)
    BY <2>4 DEF Refuse
  <2>5. CASE Reclaim(p)
    BY <2>5 DEF Reclaim
  <2>6. CASE RemoveStale(p)
    <3>1. again' \in [Processes -> BOOLEAN]
      BY <2>6 DEF RemoveStale
    <3>2. where' \in [Processes -> Starting \cup {"out", "in", "closing"}]
      BY <2>6 DEF RemoveStale
    <3>3. again'[p] => where'[p] = "create"
      BY <2>6 DEF RemoveStale
    <3>4. \A q \in Processes : again'[q] => where'[q] \in Starting
      BY <2>6, <3>3 DEF RemoveStale
    <3> QED
      BY <2>6, <3>1, <3>2, <3>4 DEF RemoveStale
  <2>7. CASE Write(p)
    BY <2>7 DEF Write
  <2>8. CASE Flock(p)
    BY <2>8 DEF Flock
  <2>9. CASE InspectFails(p)
    BY <2>9 DEF InspectFails
  <2>10. CASE AcquireFails(p)
    BY <2>10 DEF AcquireFails
  <2>11. CASE Beat(p)
    BY <2>11 DEF Beat
  <2>12. CASE Close(p)
    BY <2>12 DEF Close
  <2>13. CASE Unlink(p)
    BY <2>13 DEF Unlink
  <2>14. CASE Die(p)
    BY <2>14 DEF Die
  <2> QED
    BY <1>2, <2>1, <2>2, <2>3, <2>4, <2>5, <2>6, <2>7, <2>8, <2>9, <2>10, <2>11,
       <2>12, <2>13, <2>14 DEF Step, Advance
<1>3. CASE UNCHANGED lockVars
  BY <1>3 DEF lockVars
<1> QED
  BY <1>1, <1>2, <1>3 DEF LockNext

(***************************************************************************)
(* The variables of DatabaseLock keep their types, and no age is left of a *)
(* marker that is gone (acquireDatabaseLock, Close).                       *)
(***************************************************************************)
THEOREM LockTypeCorrect == LockSpec => []LockTypeOK
<1> QED
  BY TypeInit, TypeStep, PTL DEF LockSpec

-----------------------------------------------------------------------------

LEMMA OwnerInit == LockInit => OwnerKeepsMarker
BY LockAssumption DEF LockInit, OwnerKeepsMarker, Starting, Stale

LEMMA OwnerStep ==
  ASSUME OneAtATime, ~Suspends, LockTypeOK, OwnerKeepsMarker, [LockNext]_lockVars
  PROVE  OwnerKeepsMarker'
<1> USE LockAssumption DEF LockTypeOK, OwnerKeepsMarker, Starting, Stale, Become, Give,
                           RemoveMarker, LockFault
<1>1. CASE Tick
  BY <1>1 DEF Tick
<1>2. ASSUME NEW p \in Processes, Step(p) PROVE OwnerKeepsMarker'
  <2>1. CASE Open(p)
    BY <2>1 DEF Open
  <2>2. CASE Create(p)
    BY <2>2 DEF Create
  <2>3. CASE Exists(p)
    BY <2>3 DEF Exists
  <2>4. CASE Refuse(p)
    BY <2>4 DEF Refuse
  <2>5. CASE Reclaim(p)
    BY <2>5 DEF Reclaim
  <2>6. CASE RemoveStale(p)
    BY <2>6 DEF RemoveStale
  <2>7. CASE Write(p)
    BY <2>7 DEF Write
  <2>8. CASE Flock(p)
    BY <2>8 DEF Flock
  <2>9. CASE InspectFails(p)
    BY <2>9 DEF InspectFails
  <2>10. CASE AcquireFails(p)
    BY <2>10 DEF AcquireFails
  <2>11. CASE Beat(p)
    BY <2>11 DEF Beat
  <2>12. CASE Close(p)
    BY <2>12 DEF Close
  <2>13. CASE Unlink(p)
    BY <2>13 DEF Unlink
  <2>14. CASE Die(p)
    BY <2>14 DEF Die
  <2> QED
    BY <1>2, <2>1, <2>2, <2>3, <2>4, <2>5, <2>6, <2>7, <2>8, <2>9, <2>10, <2>11,
       <2>12, <2>13, <2>14 DEF Step, Advance
<1>3. CASE UNCHANGED lockVars
  BY <1>3 DEF lockVars
<1> QED
  BY <1>1, <1>2, <1>3 DEF LockNext

(***************************************************************************)
(* Whoever created the marker owns it until it unlinks it, and only an     *)
(* orphan is ever removed by another process.                              *)
(***************************************************************************)
THEOREM OwnerKept ==
  ASSUME OneAtATime, ~Suspends
  PROVE  LockSpec => []OwnerKeepsMarker
<1>1. LockTypeOK /\ OwnerKeepsMarker /\ [LockNext]_lockVars => OwnerKeepsMarker'
  BY OwnerStep
<1> QED
  BY LockTypeCorrect, OwnerInit, <1>1, PTL DEF LockSpec

(***************************************************************************)
(* At most one process uses the database file.                             *)
(***************************************************************************)
THEOREM LockExcludes ==
  ASSUME OneAtATime, ~Suspends
  PROVE  LockSpec => []Exclusive
<1>1. OwnerKeepsMarker => Exclusive
  BY DEF OwnerKeepsMarker, Exclusive
<1> QED
  BY OwnerKept, <1>1, PTL


-----------------------------------------------------------------------------
(***************************************************************************)
(* Whatever is proved of the passes, of the log or of the lock holds when  *)
(* they run beside each other: every step is a step of each of them, or    *)
(* leaves it alone.                                                        *)
(***************************************************************************)
THEOREM RecoveryHoldsParts == RecoverySpec => Spec /\ LogSpec /\ LockSpec
<1>1. RecoveryInit => Init /\ LogInit /\ LockInit
  BY DEF RecoveryInit
<1>2. [RecoveryNext]_<<part, vars, logVars, lockVars>> =>
        [Next]_vars /\ [LogNext]_logVars /\ [LockNext]_lockVars
  BY DEF RecoveryNext
<1> QED
  BY <1>1, <1>2, PTL DEF RecoverySpec, Spec, LogSpec, LockSpec

(***************************************************************************)
(* The state of the log and of the lock has the shape the code gives it.   *)
(***************************************************************************)
THEOREM RecoveryTypeCorrect == RecoverySpec => []RecoveryTypeOK
BY RecoveryHoldsParts, LogTypeCorrect, LockTypeCorrect, PTL DEF RecoveryTypeOK

=============================================================================
