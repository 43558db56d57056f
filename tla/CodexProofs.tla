---------------------------- MODULE CodexProofs ------------------------------
(***************************************************************************)
(* What is proved of the Codex adapter: however the log of a session is    *)
(* cut into polls, and whenever the log of its parent comes or goes, a     *)
(* committed poll that has read the parent it named leaves the hub with    *)
(* what a full parse sends, and with the tokens the session has used       *)
(* itself (CodexCountsAlways), for any turns, forks, lost cursors and lost *)
(* uploads.                                                                *)
(*                                                                         *)
(* The parse state of a full parse after a line is written down in closed  *)
(* form (StateAt), and so is what it sends for a line (Tok). Reading a     *)
(* line takes the one state to the next (ReadingSteps), so a pass from any *)
(* line on sends what a full parse sends of the lines after it (PassIs).   *)
(* The invariant CodexInv then says of the logs what the tool can have     *)
(* written (ParentGrows, SessionShape), that the parse state of the cursor *)
(* is the one of a full parse (ResumeTrue), and that the lines before the  *)
(* cursor were sent as a full parse sends them (SentTrue), one that knows  *)
(* the parent's total if the poll of the cursor has read it. Lines that    *)
(* are added change nothing of that, and the steps follow one by one; a    *)
(* poll that could not read the parent it named is left out at the end     *)
(* (CertainIs).                                                            *)
(***************************************************************************)
EXTENDS CodexLog, FoldLemmas, SequenceTheorems, TLAPS

-----------------------------------------------------------------------------
\* A pass, line by line.
States == [previous : Nat, had : BOOLEAN, baseline : Nat, resolved : BOOLEAN,
           pending : BOOLEAN, remaining : Nat]
Records == [kind : {"total", "last"}, tokens : Nat, turn : Nat, used : Nat]
Accs == [state : States, seen : SUBSET Nat, events : SUBSET [line : Nat, tokens : Nat]]

\* What a pass does with a line.
ReadLine(acc, i) ==
  LET read == Reading(acc.state, session[i], acc.seen)
  IN  [state  |-> read.state,
       seen   |-> acc.seen \cup {session[i].turn},
       events |-> IF read.emit
                  THEN acc.events \cup {[line |-> i, tokens |-> read.tokens]}
                  ELSE acc.events]

Begin(state) == [state |-> state, seen |-> {}, events |-> {}]
Lines(from) == [i \in 1..(Len(session) - from) |-> from + i]

\* The recursion by which the fold of a pass is defined.
PassRec(state, from, g) ==
  [S \in SUBSET DOMAIN Lines(from) |->
     IF S = {} THEN Begin(state) ELSE ReadLine(g[S \ {Max(S)}], Lines(from)[Max(S)])]
PassOn(state, from) == CHOOSE g : g = PassRec(state, from, g)

\* A pass, as the function by which the fold is defined.
LEMMA PassUnfold ==
  ASSUME NEW state, NEW from
  PROVE  Pass(state, from) = PassOn(state, from)[DOMAIN Lines(from)]
BY DEF Pass, FoldLeft, MapThenFoldSet, PassOn, PassRec, Lines, Begin, ReadLine

\* The greater of two numbers is a number.
LEMMA MaxIs == \A a \in Nat, b \in Nat : NatMax(a, b) \in Nat
BY DEF NatMax

\* A reading gives a parse state and a number of tokens.
LEMMA ReadingTyped ==
  ASSUME NEW s \in States, NEW r \in Records, NEW seen
  PROVE  Reading(s, r, seen).state \in States /\ Reading(s, r, seen).tokens \in Nat
<1>1. /\ s.previous \in Nat /\ s.had \in BOOLEAN /\ s.baseline \in Nat /\ s.resolved \in BOOLEAN
      /\ s.pending \in BOOLEAN /\ s.remaining \in Nat /\ r.tokens \in Nat
  BY DEF States, Records
<1> DEFINE t == r.tokens
<1>2. t \in Nat
  BY <1>1
<1> HIDE DEF t
<1>3. Cumulative(s, t).state \in States /\ Cumulative(s, t).tokens \in Nat
  <2>1. CASE s.pending /\ t <= s.baseline
    BY <2>1 DEF Cumulative
  <2>2. CASE ~(s.pending /\ t <= s.baseline)
    <3> DEFINE previous == IF s.pending THEN s.baseline ELSE s.previous
               had == s.pending \/ s.had
               used == IF had /\ t < previous THEN t ELSE NatMax(0, t - previous)
    <3>1. previous \in Nat
      BY <1>1
    <3> HIDE DEF previous, had
    <3>2. used \in Nat
      BY <1>2, <3>1 DEF NatMax
    <3> HIDE DEF used
    <3>3. Cumulative(s, t) = [state |-> [s EXCEPT !.previous = t, !.had = TRUE, !.pending = FALSE],
                              tokens |-> used, emit |-> used > 0 \/ had]
      BY <2>2 DEF Cumulative, used, had, previous
    <3>4. [s EXCEPT !.previous = t, !.had = TRUE, !.pending = FALSE] \in States
      BY <1>2 DEF States
    <3> QED
      BY <3>2, <3>3, <3>4
  <2> QED
    BY <2>1, <2>2
<1>4. LastTurn(s, t).state \in States /\ LastTurn(s, t).tokens \in Nat
  <2> DEFINE own == IF s.resolved THEN NatMax(0, t - s.remaining) ELSE t
             left == IF s.resolved THEN NatMax(0, s.remaining - t) ELSE s.remaining
  <2>1. own \in Nat /\ left \in Nat
    BY <1>1, <1>2 DEF NatMax
  <2>2. LastTurn(s, t) = [state |-> [s EXCEPT !.remaining = left], tokens |-> own,
                          emit |-> own > 0 \/ s.resolved]
    BY DEF LastTurn, States
  <2> HIDE DEF own, left
  <2>3. [s EXCEPT !.remaining = left] \in States
    BY <2>1 DEF States
  <2> QED
    BY <2>1, <2>2, <2>3
<1>5. CASE r.kind = "total"
  BY <1>3, <1>5 DEF Reading, t
<1>6. CASE r.kind # "total"
  <2> DEFINE read == LastTurn(s, t)
  <2>1. DOMAIN read = {"state", "tokens", "emit"}
    BY DEF LastTurn
  <2>2. Reading(s, r, seen) = [read EXCEPT !.emit = @ /\ r.turn \notin seen]
    BY <1>6 DEF Reading, t
  <2> HIDE DEF read
  <2>3. Reading(s, r, seen).state = read.state /\ Reading(s, r, seen).tokens = read.tokens
    BY <2>1, <2>2
  <2> QED
    BY <1>4, <2>3 DEF read
<1> QED
  BY <1>5, <1>6

\* Reading a line of the log keeps the shape of a pass.
LEMMA ReadLineTyped ==
  ASSUME session \in Seq(Records), NEW acc \in Accs, NEW i \in 1..Len(session)
  PROVE  ReadLine(acc, i) \in Accs
<1> DEFINE read == Reading(acc.state, session[i], acc.seen)
<1>1. session[i] \in Records /\ i \in Nat
  OBVIOUS
<1>2. acc.state \in States /\ acc.seen \in SUBSET Nat /\ acc.events \in SUBSET [line : Nat, tokens : Nat]
  BY DEF Accs
<1>3. read.state \in States /\ read.tokens \in Nat
  BY <1>1, <1>2, ReadingTyped
<1> HIDE DEF read
<1> DEFINE e == IF read.emit THEN acc.events \cup {[line |-> i, tokens |-> read.tokens]} ELSE acc.events
           n == acc.seen \cup {session[i].turn}
<1>4. e \in SUBSET [line : Nat, tokens : Nat]
  BY <1>1, <1>2, <1>3
<1>5. n \in SUBSET Nat
  BY <1>1, <1>2 DEF Records
<1>6. ReadLine(acc, i) = [state |-> read.state, seen |-> n, events |-> e]
  BY DEF ReadLine, read
<1> HIDE DEF e, n
<1> QED
  BY <1>3, <1>4, <1>5, <1>6 DEF Accs

\* The same recursion, line by line.
PassSteps(state, from, n) ==
  /\ PassOn(state, from)[1..0] = Begin(state)
  /\ \A k \in 0..n : PassOn(state, from)[1..k] \in Accs
  /\ \A k \in 1..n : PassOn(state, from)[1..k] = ReadLine(PassOn(state, from)[1..(k-1)], from + k)

\* A pass goes through the lines one by one.
LEMMA PassRecursion ==
  ASSUME session \in Seq(Records), NEW state \in States, NEW from \in 0..Len(session)
  PROVE  PassSteps(state, from, Len(session) - from) /\ DOMAIN Lines(from) = 1..(Len(session) - from)
<1> DEFINE n == Len(session) - from
           b == Lines(from)
           F == [p \in (1..n) \X Accs |-> ReadLine(p[2], b[p[1]])]
           W == PassOn(state, from)
           B == Begin(state)
<1>0. B \in Accs /\ Len(session) \in Nat /\ n \in Nat
  BY DEF Begin, Accs
<1>a. DOMAIN b = 1..n /\ \A k \in 1..n : b[k] = from + k /\ b[k] \in 1..Len(session)
  BY <1>0 DEF Lines
<1>b. W = CHOOSE g : g = PassRec(state, from, g)
  BY DEF PassOn
<1>c. \A g : PassRec(state, from, g) =
        [S \in SUBSET (1..n) |-> IF S = {} THEN B ELSE ReadLine(g[S \ {Max(S)}], b[Max(S)])]
  BY <1>a DEF PassRec
<1> HIDE DEF n, b, B
<1>1. Adds(1..n, Accs, F)
  BY <1>a, ReadLineTyped DEF Adds
<1>2. \A k \in 1..n, v \in Accs : F[<<k, v>>] = ReadLine(v, b[k])
  OBVIOUS
<1> HIDE DEF F
<1>3. PICK h : IsLeftFold(n, Accs, F, B, h)
  BY <1>0, <1>1, LeftFoldExists
<1>4. ASSUME NEW T \in SUBSET (1..n)
      PROVE  h[T] = IF T = {} THEN B ELSE ReadLine(h[T \ {Max(T)}], b[Max(T)])
  <2>1. T \ {Max(T)} \in SUBSET (1..n)
    OBVIOUS
  <2>2. h[T \ {Max(T)}] \in Accs
    BY <1>3, <2>1 DEF IsLeftFold
  <2> QED
    BY <1>2, <1>3, <2>2 DEF IsLeftFold
<1>5. h = PassRec(state, from, h)
  <2>1. PassRec(state, from, h) =
          [S \in SUBSET (1..n) |-> IF S = {} THEN B ELSE ReadLine(h[S \ {Max(S)}], b[Max(S)])]
    BY <1>c
  <2>2. h = [S \in SUBSET (1..n) |-> h[S]]
    BY <1>3 DEF IsLeftFold
  <2> QED
    BY <1>4, <2>1, <2>2
<1>6. W = PassRec(state, from, W)
  BY <1>b, <1>5
<1> HIDE DEF W
<1>7. /\ W = [T \in SUBSET (1..n) |-> W[T]]
      /\ \A T \in SUBSET (1..n) :
            W[T] = IF T = {} THEN B ELSE ReadLine(W[T \ {Max(T)}], b[Max(T)])
  BY ZenonT(60), <1>c, <1>6
<1>8. FoldsLeft(n, Accs, F, B, W)
  BY <1>2, <1>7 DEF FoldsLeft
<1>9. StepByStep(n, Accs, F, B, W)
  BY <1>0, <1>1, <1>8, LeftFold
<1>10. \A k \in 1..n : W[1..(k-1)] \in Accs
  <2>1. \A k \in 1..n : k - 1 \in 0..n
    BY <1>0
  <2> QED
    BY <1>9, <2>1 DEF StepByStep
<1>11. PassSteps(state, from, n)
  BY <1>a, <1>2, <1>9, <1>10 DEF W, StepByStep, PassSteps, B
<1> QED
  BY <1>a, <1>11 DEF n, b

-----------------------------------------------------------------------------
\* The parent's total after k records.
Base(k) == IF k = 0 THEN 0 ELSE parent[k]

\* CodexTypeOK, with the logs as sequences.
CodexTyped ==
  /\ parent \in Seq(Nat) /\ forkAt \in 0..Len(parent) /\ style \in {"total", "last"}
  /\ session \in Seq(Records)
  /\ there \in BOOLEAN /\ index \in BOOLEAN /\ settled \in BOOLEAN /\ resolved \in BOOLEAN
  /\ resume.line \in 0..Len(session)
  /\ DOMAIN sent \subseteq 1..Len(session) /\ \A i \in DOMAIN sent : sent[i] \in Nat
  /\ changes \in 0..MaxChanges /\ codexFaults \in 0..CodexFaults

\* The parent's totals grow.
ParentGrows ==
  /\ \A i \in 1..Len(parent) : parent[i] > 0
  /\ \A i, j \in 1..Len(parent) : i < j => parent[i] < parent[j]

\* The total before a line.
Before(i) == IF i = 1 THEN Base(forkAt) ELSE session[i - 1].tokens

\* A total is the one before and what was used, or begins again.
Chained(i) ==
  session[i].used = IF session[i].tokens < Before(i) THEN session[i].tokens
                    ELSE session[i].tokens - Before(i)

\* The lines after c are of the session itself.
Own(c) ==
  \A i \in (c + 1)..Len(session) :
    /\ session[i].used > 0
    /\ style = "last" => session[i].tokens = session[i].used
    /\ style = "total" => Chained(i) /\ (i = c + 1 => session[i].tokens > Base(forkAt))

\* A fork whose log begins with c copied records.
Copied(c) ==
  /\ c <= Len(session) /\ (style = "last" => c = forkAt)
  /\ \A i \in 1..Len(session) : session[i].turn = i
  /\ \A i \in 1..c :
       /\ session[i].used = 0
       /\ session[i].tokens = IF style = "total" THEN parent[i] ELSE parent[i] - Base(i - 1)
  /\ Own(c)

\* A session that is not forked.
Alone ==
  \A i \in 1..Len(session) :
    IF style = "total" THEN Chained(i)
    ELSE session[i].used = IF Repeats(i) THEN 0 ELSE session[i].tokens

\* What the tool can have written.
SessionShape ==
  /\ \A i \in 1..Len(session) :
       session[i].kind = style /\ session[i].turn <= i /\ session[i].tokens > 0
  /\ forkAt = 0 => Alone
  /\ forkAt > 0 => \E c \in {0, forkAt} : Copied(c)

\* What is sent for a line when the parent is not known.
Raw(i) ==
  IF style = "last" \/ i = 1 \/ session[i].tokens < session[i - 1].tokens THEN session[i].tokens
  ELSE session[i].tokens - session[i - 1].tokens

\* What is sent for a line, with the parent known or not.
Tok(res, i) == IF res THEN session[i].used ELSE Raw(i)

\* Are all of the first k lines copied ones?
Pend(k) == \A i \in 1..k : session[i].used = 0

St(previous, had, baseline, known, pending, remaining) ==
  [previous |-> previous, had |-> had, baseline |-> baseline, resolved |-> known,
   pending |-> pending, remaining |-> remaining]

\* The state of a full parse after a line, with the parent known or not.
StateAt(res, k) ==
  LET base == IF res THEN parent[forkAt] ELSE 0
  IN  IF style = "last"
      THEN St(0, FALSE, base, res, res, IF res /\ k < forkAt THEN base - Base(k) ELSE 0)
      ELSE IF IF res THEN Pend(k) ELSE k = 0
      THEN St(0, FALSE, base, res, res, base)
      ELSE St(session[k].tokens, TRUE, base, res, FALSE, base)

\* The parse state of the cursor is the one a full parse has there.
ResumeTrue ==
  /\ resolved => forkAt > 0
  /\ resume.state # None /\ resume.line > 0 => resume.state = StateAt(resolved, resume.line)

\* The lines before the cursor were sent as a full parse sends them.
SentTrue ==
  settled => \A i \in 1..resume.line :
               ~Repeats(i) => i \in DOMAIN sent /\ sent[i] = Tok(resolved, i)

\* A state that has counted a total, and one that has used some of the prefix.
Counted(s, t) == St(t, TRUE, s.baseline, s.resolved, FALSE, s.remaining)
Left(s, n) == St(s.previous, s.had, s.baseline, s.resolved, s.pending, n)

\* What a reading does to a state, field by field.
LEMMA StateMoves ==
  ASSUME NEW s \in States, NEW t \in Nat
  PROVE  /\ [s EXCEPT !.previous = t, !.had = TRUE, !.pending = FALSE] = Counted(s, t)
         /\ [s EXCEPT !.remaining = t] = Left(s, t)
<1> DEFINE D == {"previous", "had", "baseline", "resolved", "pending", "remaining"}
           x == [s EXCEPT !.previous = t, !.had = TRUE, !.pending = FALSE]
           z == Counted(s, t)
           y == [s EXCEPT !.remaining = t]
           w == Left(s, t)
<1>1. DOMAIN s = D
  BY DEF States
<1>2. x = [f \in D |-> x[f]] /\ y = [f \in D |-> y[f]]
  BY <1>1
<1>3. z = [f \in D |-> z[f]] /\ w = [f \in D |-> w[f]]
  BY DEF St, Counted, Left
<1>4. \A f \in D : x[f] = z[f]
  <2>1. x.previous = z.previous /\ x.baseline = z.baseline /\ x.remaining = z.remaining
        /\ x.resolved = z.resolved
    BY <1>1 DEF St, Counted
  <2>2. x.had = z.had
    BY <1>1 DEF St, Counted
  <2>3. x.pending = z.pending
    BY <1>1 DEF St, Counted
  <2> HIDE DEF x, z
  <2> QED
    BY <2>1, <2>2, <2>3
<1>5. \A f \in D : y[f] = w[f]
  <2>1. y.previous = w.previous /\ y.baseline = w.baseline /\ y.remaining = w.remaining
    BY <1>1 DEF St, Left
  <2>2. y.had = w.had /\ y.pending = w.pending /\ y.resolved = w.resolved
    BY <1>1 DEF St, Left
  <2> HIDE DEF y, w
  <2> QED
    BY <2>1, <2>2
<1> HIDE DEF x, z, y, w, D
<1>6. x = z
  BY <1>2, <1>3, <1>4
<1>7. y = w
  BY <1>2, <1>3, <1>5
<1> QED
  BY <1>6, <1>7, Zenon DEF x, z, y, w

\* The fields of a state, and what a reading makes of it.
StFacts(p, h, b, r, q, m) ==
  /\ St(p, h, b, r, q, m) \in States
  /\ St(p, h, b, r, q, m).previous = p /\ (St(p, h, b, r, q, m).had <=> h)
  /\ St(p, h, b, r, q, m).baseline = b /\ (St(p, h, b, r, q, m).resolved <=> r)
  /\ (St(p, h, b, r, q, m).pending <=> q) /\ St(p, h, b, r, q, m).remaining = m
  /\ \A t : Counted(St(p, h, b, r, q, m), t) = St(t, TRUE, b, r, FALSE, m)
  /\ \A n : Left(St(p, h, b, r, q, m), n) = St(p, h, b, r, q, n)

\* The fields of a state.
LEMMA StIs ==
  ASSUME NEW p \in Nat, NEW h \in BOOLEAN, NEW b \in Nat, NEW r \in BOOLEAN, NEW q \in BOOLEAN,
         NEW m \in Nat
  PROVE  StFacts(p, h, b, r, q, m)
<1> DEFINE s == St(p, h, b, r, q, m)
<1>1. s \in States
  BY Zenon DEF St, States
<1>2. /\ s.previous = p /\ s.had = h /\ s.baseline = b /\ s.resolved = r
      /\ s.pending = q /\ s.remaining = m
  BY DEF St
<1> HIDE DEF s
<1>3. \A t : Counted(s, t) = St(t, TRUE, b, r, FALSE, m)
  BY <1>2, Zenon DEF Counted
<1>4. \A n : Left(s, n) = St(p, h, b, r, q, n)
  BY <1>2, Zenon DEF Left
<1> QED
  BY <1>1, <1>2, <1>3, <1>4, Zenon DEF StFacts, s

\* The four kinds of states.
LEMMA StOf ==
  ASSUME NEW p \in Nat, NEW b \in Nat, NEW m \in Nat
  PROVE  /\ StFacts(p, FALSE, b, FALSE, FALSE, m)
         /\ StFacts(p, TRUE, b, FALSE, FALSE, m)
         /\ StFacts(p, FALSE, b, TRUE, TRUE, m)
         /\ StFacts(p, TRUE, b, TRUE, FALSE, m)
<1>1. FALSE \in BOOLEAN /\ TRUE \in BOOLEAN
  OBVIOUS
<1>2. \A h, r, q \in BOOLEAN : StFacts(p, h, b, r, q, m)
  BY StIs
<1> QED
  BY <1>1, <1>2, Zenon

\* The cases of a cumulative snapshot: an inherited one, the first own one, a later
\* one, and the first of a log that is read without its parent.
LEMMA CumulativeIs ==
  ASSUME NEW s \in States, NEW t \in Nat
  PROVE  /\ s.pending /\ t <= s.baseline =>
              Cumulative(s, t) = [state |-> s, tokens |-> 0, emit |-> TRUE]
         /\ s.pending /\ t > s.baseline =>
              /\ Cumulative(s, t).state = Counted(s, t)
              /\ Cumulative(s, t).tokens = t - s.baseline /\ Cumulative(s, t).emit
         /\ ~s.pending /\ s.had =>
              /\ Cumulative(s, t).state = Counted(s, t)
              /\ Cumulative(s, t).tokens = IF t < s.previous THEN t ELSE t - s.previous
              /\ Cumulative(s, t).emit
         /\ ~s.pending /\ ~s.had /\ s.previous = 0 /\ t > 0 =>
              /\ Cumulative(s, t).state = Counted(s, t)
              /\ Cumulative(s, t).tokens = t /\ Cumulative(s, t).emit
<1>1. s.previous \in Nat /\ s.baseline \in Nat
  BY DEF States
<1>2. s.pending /\ t <= s.baseline =>
        Cumulative(s, t) = [state |-> s, tokens |-> 0, emit |-> TRUE]
  BY DEF Cumulative
<1> DEFINE previous == IF s.pending THEN s.baseline ELSE s.previous
           had == s.pending \/ s.had
           used == IF had /\ t < previous THEN t ELSE NatMax(0, t - previous)
           next == [s EXCEPT !.previous = t, !.had = TRUE, !.pending = FALSE]
<1>3. ASSUME ~(s.pending /\ t <= s.baseline)
      PROVE  /\ Cumulative(s, t).state = next /\ Cumulative(s, t).tokens = used
             /\ Cumulative(s, t).emit <=> (used > 0 \/ had)
  <2> DEFINE emit == used > 0 \/ had
  <2>1. Cumulative(s, t) = [state |-> next, tokens |-> used, emit |-> emit]
    BY <1>3 DEF Cumulative
  <2> HIDE DEF next, used, emit
  <2>2. /\ Cumulative(s, t).state = next /\ Cumulative(s, t).tokens = used
        /\ Cumulative(s, t).emit = emit
    BY <2>1
  <2> QED
    BY <2>2 DEF emit
<1>4. s.pending /\ t > s.baseline => used = t - s.baseline /\ had
  BY <1>1 DEF NatMax
<1>5. ~s.pending /\ s.had => used = (IF t < s.previous THEN t ELSE t - s.previous) /\ had
  BY <1>1 DEF NatMax
<1>6. ~s.pending /\ ~s.had /\ s.previous = 0 /\ t > 0 => used = t /\ used > 0
  BY <1>1 DEF NatMax
<1>8. next = Counted(s, t)
  BY StateMoves
<1> HIDE DEF next, used, had
<1>7. s.pending /\ t > s.baseline => ~(s.pending /\ t <= s.baseline)
  BY <1>1
<1> QED
  BY <1>2, <1>3, <1>4, <1>5, <1>6, <1>7, <1>8

\* The cases of a turn: with an inherited prefix to use up, and without.
LEMMA LastTurnIs ==
  ASSUME NEW s \in States, NEW t \in Nat
  PROVE  /\ s.resolved =>
              /\ LastTurn(s, t).state = Left(s, NatMax(0, s.remaining - t))
              /\ LastTurn(s, t).tokens = NatMax(0, t - s.remaining) /\ LastTurn(s, t).emit
         /\ ~s.resolved /\ t > 0 =>
              LastTurn(s, t).state = s /\ LastTurn(s, t).tokens = t /\ LastTurn(s, t).emit
<1> DEFINE own == IF s.resolved THEN NatMax(0, t - s.remaining) ELSE t
           left == IF s.resolved THEN NatMax(0, s.remaining - t) ELSE s.remaining
           next == [s EXCEPT !.remaining = left]
<1> DEFINE emit == own > 0 \/ s.resolved
<1>1. LastTurn(s, t) = [state |-> next, tokens |-> own, emit |-> emit]
  BY DEF LastTurn, States
<1>2. ~s.resolved => next = s
  BY DEF States
<1>3. s.resolved => next = Left(s, NatMax(0, s.remaining - t))
  <2>1. s.remaining - t \in Int
    BY DEF States
  <2>2. NatMax(0, s.remaining - t) \in Nat
    BY <2>1 DEF NatMax
  <2>3. s.resolved => left = NatMax(0, s.remaining - t)
    OBVIOUS
  <2> HIDE DEF left
  <2> QED
    BY <2>2, <2>3, StateMoves
<1> HIDE DEF next, emit
<1>4. /\ LastTurn(s, t).state = next /\ LastTurn(s, t).tokens = own
      /\ LastTurn(s, t).emit = emit
  BY <1>1
<1>5. LastTurn(s, t).emit <=> (own > 0 \/ s.resolved)
  BY <1>4 DEF emit
<1> QED
  BY <1>2, <1>3, <1>4, <1>5

\* A reading is the one of the style of the record.
LEMMA ReadingIs ==
  ASSUME NEW s \in States, NEW r \in Records, NEW seen
  PROVE  /\ r.kind = "total" => Reading(s, r, seen) = Cumulative(s, r.tokens)
         /\ r.kind = "last" =>
              /\ Reading(s, r, seen).state = LastTurn(s, r.tokens).state
              /\ Reading(s, r, seen).tokens = LastTurn(s, r.tokens).tokens
              /\ Reading(s, r, seen).emit <=> (LastTurn(s, r.tokens).emit /\ r.turn \notin seen)
<1> DEFINE read == LastTurn(s, r.tokens)
<1>1. DOMAIN read = {"state", "tokens", "emit"}
  BY DEF LastTurn
<1>2. r.kind = "last" => Reading(s, r, seen) = [read EXCEPT !.emit = @ /\ r.turn \notin seen]
  BY DEF Reading
<1>3. r.kind = "total" => Reading(s, r, seen) = Cumulative(s, r.tokens)
  BY DEF Reading
<1> HIDE DEF read
<1> QED
  BY <1>1, <1>2, <1>3 DEF read

-----------------------------------------------------------------------------
\* The state of a full parse, case by case.
LEMMA StateCases ==
  ASSUME NEW k \in Nat
  PROVE  /\ style = "total" =>
              /\ k = 0 => StateAt(FALSE, k) = St(0, FALSE, 0, FALSE, FALSE, 0)
              /\ k > 0 => StateAt(FALSE, k) = St(session[k].tokens, TRUE, 0, FALSE, FALSE, 0)
              /\ Pend(k) => StateAt(TRUE, k) = St(0, FALSE, parent[forkAt], TRUE, TRUE, parent[forkAt])
              /\ ~Pend(k) => StateAt(TRUE, k) =
                   St(session[k].tokens, TRUE, parent[forkAt], TRUE, FALSE, parent[forkAt])
         /\ style = "last" =>
              /\ StateAt(FALSE, k) = St(0, FALSE, 0, FALSE, FALSE, 0)
              /\ StateAt(TRUE, k) =
                   St(0, FALSE, parent[forkAt], TRUE, TRUE,
                      IF k < forkAt THEN parent[forkAt] - Base(k) ELSE 0)
<1> DEFINE b == parent[forkAt]
           u == session[k].tokens
<1>1. style = "total" /\ k = 0 => StateAt(FALSE, k) = St(0, FALSE, 0, FALSE, FALSE, 0)
  BY DEF StateAt
<1>2. style = "total" /\ k > 0 => StateAt(FALSE, k) = St(u, TRUE, 0, FALSE, FALSE, 0)
  <2> SUFFICES ASSUME style = "total", k > 0 PROVE StateAt(FALSE, k) = St(u, TRUE, 0, FALSE, FALSE, 0)
    OBVIOUS
  <2>1. k # 0 /\ style # "last"
    OBVIOUS
  <2> HIDE DEF u
  <2> QED
    BY <2>1 DEF StateAt, u
<1>3. style = "total" /\ Pend(k) => StateAt(TRUE, k) = St(0, FALSE, b, TRUE, TRUE, b)
  BY DEF StateAt
<1>4. style = "total" /\ ~Pend(k) => StateAt(TRUE, k) = St(u, TRUE, b, TRUE, FALSE, b)
  BY DEF StateAt
<1>5. style = "last" => StateAt(FALSE, k) = St(0, FALSE, 0, FALSE, FALSE, 0)
  BY DEF StateAt
<1>6. style = "last" => StateAt(TRUE, k) = St(0, FALSE, b, TRUE, TRUE, IF k < forkAt THEN b - Base(k) ELSE 0)
  BY DEF StateAt
<1> QED
  BY <1>1, <1>2, <1>3, <1>4, <1>5, <1>6

\* What the shape of a session says of one line.
LEMMA LineIs ==
  ASSUME CodexTyped, ParentGrows, SessionShape, NEW i \in 1..Len(session)
  PROVE  /\ session[i] \in Records /\ session[i].kind = style /\ session[i].tokens \in Nat
         /\ session[i].tokens > 0 /\ session[i].used \in Nat /\ session[i].turn \in Nat
<1>1. session \in Seq(Records)
  BY DEF CodexTyped
<1>2. session[i] \in Records
  BY <1>1
<1> QED
  BY <1>2 DEF SessionShape, Records

\* The totals of the parent up to the fork are below the inherited one.
LEMMA ParentIs ==
  ASSUME CodexTyped, ParentGrows, forkAt > 0
  PROVE  /\ forkAt \in Nat /\ forkAt \in 1..Len(parent) /\ parent[forkAt] \in Nat /\ parent[forkAt] > 0
         /\ \A i \in 1..forkAt : parent[i] \in Nat /\ parent[i] > 0 /\ parent[i] <= parent[forkAt]
         /\ \A i \in 1..forkAt : Base(i - 1) \in Nat /\ Base(i - 1) < parent[i]
<1>1. parent \in Seq(Nat) /\ forkAt \in 0..Len(parent) /\ Len(parent) \in Nat
  BY DEF CodexTyped
<1>2. forkAt \in Nat /\ forkAt \in 1..Len(parent)
  BY <1>1
<1>3. \A i \in 1..Len(parent) : parent[i] \in Nat /\ parent[i] > 0
  BY <1>1 DEF ParentGrows
<1>4. ASSUME NEW i \in 1..forkAt
      PROVE  /\ parent[i] \in Nat /\ parent[i] > 0 /\ parent[i] <= parent[forkAt]
             /\ Base(i - 1) \in Nat /\ Base(i - 1) < parent[i]
  <2>1. i \in 1..Len(parent)
    BY <1>1, <1>2
  <2>2. parent[i] <= parent[forkAt]
    <3>1. CASE i = forkAt
      BY <1>2, <1>3, <3>1
    <3>2. CASE i # forkAt
      <4>1. i < forkAt
        BY <1>2, <3>2
      <4> QED
        BY <1>2, <1>3, <2>1, <4>1 DEF ParentGrows
    <3> QED
      BY <3>1, <3>2
  <2>3. Base(i - 1) \in Nat /\ Base(i - 1) < parent[i]
    <3>1. CASE i = 1
      BY <1>3, <2>1, <3>1 DEF Base
    <3>2. CASE i # 1
      <4>1. i - 1 \in 1..Len(parent) /\ i - 1 < i /\ i - 1 # 0
        BY <1>1, <2>1, <3>2
      <4>2. parent[i - 1] < parent[i] /\ parent[i - 1] \in Nat
        BY <1>3, <2>1, <4>1 DEF ParentGrows
      <4> QED
        BY <4>1, <4>2 DEF Base
    <3> QED
      BY <3>1, <3>2
  <2> QED
    BY <1>3, <2>1, <2>2, <2>3
<1> QED
  BY <1>2, <1>3, <1>4

\* Line k + 1 is read as a full parse reads it.
LineReads(res, k, seen) ==
  /\ Reading(StateAt(res, k), session[k + 1], seen).state = StateAt(res, k + 1)
  /\ Reading(StateAt(res, k), session[k + 1], seen).tokens = Tok(res, k + 1)
  /\ Reading(StateAt(res, k), session[k + 1], seen).emit
       <=> ~(style = "last" /\ session[k + 1].turn \in seen)

\* A log of totals, read without its parent.
LEMMA TotalReads ==
  ASSUME CodexTyped, ParentGrows, SessionShape, style = "total",
         NEW k \in Nat, k + 1 <= Len(session), NEW seen
  PROVE  LineReads(FALSE, k, seen)
<1> DEFINE r == session[k + 1]
           t == session[k + 1].tokens
           s == StateAt(FALSE, k)
<1>1. k + 1 \in 1..Len(session) /\ k + 1 \in Nat /\ k + 1 > 0 /\ (k + 1) - 1 = k
  BY DEF CodexTyped
<1>2. r \in Records /\ r.kind = "total" /\ t \in Nat /\ t > 0
  BY <1>1, LineIs
<1>3. StateAt(FALSE, k + 1) = St(t, TRUE, 0, FALSE, FALSE, 0)
  BY <1>1, StateCases
<1>4. k = 0 => s = St(0, FALSE, 0, FALSE, FALSE, 0) /\ Tok(FALSE, k + 1) = t
  <2>1. k = 0 => s = St(0, FALSE, 0, FALSE, FALSE, 0)
    BY StateCases
  <2>2. k = 0 => Tok(FALSE, k + 1) = t
    BY DEF Tok, Raw
  <2> QED
    BY <2>1, <2>2
<1>5. k > 0 => s = St(session[k].tokens, TRUE, 0, FALSE, FALSE, 0)
  BY StateCases
<1>6. k > 0 => Tok(FALSE, k + 1) = IF t < session[k].tokens THEN t ELSE t - session[k].tokens
  BY <1>1 DEF Tok, Raw
<1>7. k > 0 => session[k].tokens \in Nat
  <2> SUFFICES ASSUME k > 0 PROVE session[k].tokens \in Nat
    OBVIOUS
  <2>1. k \in 1..Len(session)
    BY <1>1
  <2> QED
    BY <2>1, LineIs
<1>8. s \in States => Reading(s, r, seen) = Cumulative(s, t)
  <2> HIDE DEF s
  <2> QED
    BY <1>2, ReadingIs
<1> HIDE DEF s, r, t
<1>9. CASE k = 0
  <2>1. StFacts(0, FALSE, 0, FALSE, FALSE, 0)
    BY StOf
  <2>2. /\ s \in States /\ ~s.pending /\ ~s.had /\ s.previous = 0
        /\ Counted(s, t) = St(t, TRUE, 0, FALSE, FALSE, 0)
    BY <1>4, <1>9, <2>1 DEF StFacts
  <2>3. /\ Cumulative(s, t).state = St(t, TRUE, 0, FALSE, FALSE, 0)
        /\ Cumulative(s, t).tokens = t /\ Cumulative(s, t).emit
    BY <1>2, <2>2, CumulativeIs
  <2> QED
    BY <1>3, <1>4, <1>8, <1>9, <2>2, <2>3 DEF LineReads, s, r, t
<1>10. CASE k > 0
  <2> DEFINE u == session[k].tokens
  <2>1. u \in Nat
    BY <1>7, <1>10
  <2>2. s = St(u, TRUE, 0, FALSE, FALSE, 0)
    BY <1>5, <1>10
  <2>3. Tok(FALSE, k + 1) = IF t < u THEN t ELSE t - u
    BY <1>6, <1>10
  <2> HIDE DEF u
  <2>4. StFacts(u, TRUE, 0, FALSE, FALSE, 0)
    BY <2>1, StOf
  <2>5. /\ s \in States /\ ~s.pending /\ s.had /\ s.previous = u
        /\ Counted(s, t) = St(t, TRUE, 0, FALSE, FALSE, 0)
    BY <2>2, <2>4 DEF StFacts
  <2>6. /\ Cumulative(s, t).state = St(t, TRUE, 0, FALSE, FALSE, 0)
        /\ Cumulative(s, t).tokens = (IF t < u THEN t ELSE t - u) /\ Cumulative(s, t).emit
    BY <1>2, <2>5, CumulativeIs
  <2> QED
    BY <1>3, <1>8, <2>3, <2>5, <2>6 DEF LineReads, s, r, t
<1>11. k = 0 \/ k > 0
  OBVIOUS
<1> QED
  BY <1>9, <1>10, <1>11

\* The lines of a fork that its session wrote, and those it copied.
LEMMA ForkShape ==
  ASSUME CodexTyped, ParentGrows, SessionShape, forkAt > 0
  PROVE  \E c \in {0, forkAt} :
           /\ Copied(c) /\ c \in Nat /\ c <= Len(session)
           /\ \A i \in 1..c : i \in 1..Len(session) /\ session[i].used = 0
           /\ \A i \in 1..Len(session) : i > c => session[i].used > 0
           /\ \A n \in 0..Len(session) : Pend(n) <=> n <= c
<1>1. forkAt \in Nat /\ Len(session) \in Nat
  BY ParentIs DEF CodexTyped
<1>2. PICK c \in {0, forkAt} : Copied(c)
  BY DEF SessionShape
<1>3. c \in Nat /\ c <= Len(session)
  BY <1>1, <1>2 DEF Copied
<1>4. \A i \in 1..c : i \in 1..Len(session) /\ session[i].used = 0
  BY <1>1, <1>2, <1>3 DEF Copied
<1>5. \A i \in 1..Len(session) : i > c => session[i].used > 0
  <2>1. \A i \in (c + 1)..Len(session) : session[i].used > 0
    BY <1>2 DEF Copied, Own
  <2> QED
    BY <1>1, <1>3, <2>1
<1>6. ASSUME NEW n \in 0..Len(session) PROVE Pend(n) <=> n <= c
  <2>1. CASE n <= c
    BY <1>1, <1>3, <1>4, <2>1 DEF Pend
  <2>2. CASE ~(n <= c)
    <3>1. c + 1 \in 1..n /\ c + 1 \in 1..Len(session) /\ c + 1 > c
      BY <1>1, <1>3, <2>2
    <3>2. session[c + 1].used > 0 /\ session[c + 1].used \in Nat
      BY <1>5, <3>1, LineIs
    <3> QED
      BY <2>2, <3>1, <3>2 DEF Pend
  <2> QED
    BY <2>1, <2>2
<1> QED
  BY <1>2, <1>3, <1>4, <1>5, <1>6

\* A log of totals, read with its parent: nothing counts before the baseline.
LEMMA TotalReadsFork ==
  ASSUME CodexTyped, ParentGrows, SessionShape, style = "total", forkAt > 0,
         NEW k \in Nat, k + 1 <= Len(session), NEW seen
  PROVE  LineReads(TRUE, k, seen)
<1> DEFINE r == session[k + 1]
           t == session[k + 1].tokens
           s == StateAt(TRUE, k)
           b == parent[forkAt]
           u == session[k].tokens
<1>1. k + 1 \in 1..Len(session) /\ k + 1 \in Nat /\ k + 1 > 0 /\ (k + 1) - 1 = k
      /\ k \in 0..Len(session) /\ k + 1 \in 0..Len(session)
  BY DEF CodexTyped
<1>2. r \in Records /\ r.kind = "total" /\ t \in Nat /\ t > 0 /\ r.used \in Nat
  BY <1>1, LineIs
<1>3. b \in Nat /\ forkAt \in Nat /\ Base(forkAt) = b
  BY ParentIs DEF Base
<1>4. PICK c \in {0, forkAt} :
           /\ Copied(c) /\ c \in Nat /\ c <= Len(session)
           /\ \A i \in 1..c : i \in 1..Len(session) /\ session[i].used = 0
           /\ \A i \in 1..Len(session) : i > c => session[i].used > 0
           /\ \A n \in 0..Len(session) : Pend(n) <=> n <= c
  BY ForkShape
<1>5. /\ k + 1 <= c => Pend(k) /\ Pend(k + 1)
      /\ k = c => Pend(k) /\ ~Pend(k + 1)
      /\ k > c => ~Pend(k) /\ ~Pend(k + 1)
  <2>1. (Pend(k) <=> k <= c) /\ (Pend(k + 1) <=> k + 1 <= c)
    BY <1>1, <1>4
  <2> QED
    BY <1>4, <2>1
<1>6. Tok(TRUE, k + 1) = r.used
  BY DEF Tok
<1>7. /\ Pend(k) => s = St(0, FALSE, b, TRUE, TRUE, b)
      /\ ~Pend(k) => s = St(u, TRUE, b, TRUE, FALSE, b)
  BY StateCases
<1>8. /\ Pend(k + 1) => StateAt(TRUE, k + 1) = St(0, FALSE, b, TRUE, TRUE, b)
      /\ ~Pend(k + 1) => StateAt(TRUE, k + 1) = St(t, TRUE, b, TRUE, FALSE, b)
  BY <1>1, StateCases
<1>9. s \in States => Reading(s, r, seen) = Cumulative(s, t)
  <2> HIDE DEF s
  <2> QED
    BY <1>2, ReadingIs
<1>10. k + 1 <= c => t = parent[k + 1] /\ r.used = 0 /\ t <= b
  <2> SUFFICES ASSUME k + 1 <= c PROVE t = parent[k + 1] /\ r.used = 0 /\ t <= b
    OBVIOUS
  <2>1. k + 1 \in 1..c /\ c = forkAt
    BY <1>1, <1>3, <1>4
  <2>2. t = parent[k + 1] /\ r.used = 0
    BY <1>4, <2>1 DEF Copied
  <2> QED
    BY <2>1, <2>2, ParentIs
<1>11. ~(k + 1 <= c) => r.used = (IF t < Before(k + 1) THEN t ELSE t - Before(k + 1))
                        /\ (k = c => t > b)
  <2> SUFFICES ASSUME ~(k + 1 <= c)
               PROVE  r.used = (IF t < Before(k + 1) THEN t ELSE t - Before(k + 1))
                      /\ (k = c => t > b)
    OBVIOUS
  <2>1. k + 1 \in (c + 1)..Len(session) /\ (k = c => k + 1 = c + 1)
    BY <1>1, <1>4
  <2>2. Chained(k + 1) /\ (k + 1 = c + 1 => t > Base(forkAt))
    BY <1>4, <2>1 DEF Copied, Own
  <2> QED
    BY <1>3, <2>1, <2>2 DEF Chained
<1>12. k = c => Before(k + 1) = b
  <2> SUFFICES ASSUME k = c PROVE Before(k + 1) = b
    OBVIOUS
  <2>1. CASE k = 0
    BY <1>3, <2>1 DEF Before
  <2>2. CASE k # 0
    <3>1. k = forkAt /\ k \in 1..c /\ k + 1 # 1
      BY <1>4, <2>2
    <3>2. session[k].tokens = parent[k]
      BY <1>4, <3>1 DEF Copied
    <3> QED
      BY <1>1, <3>1, <3>2 DEF Before
  <2> QED
    BY <2>1, <2>2
<1>13. k > c => u \in Nat /\ Before(k + 1) = u
  <2> SUFFICES ASSUME k > c PROVE u \in Nat /\ Before(k + 1) = u
    OBVIOUS
  <2>1. k \in 1..Len(session) /\ k + 1 # 1
    BY <1>1, <1>4
  <2> QED
    BY <1>1, <2>1, LineIs DEF Before
<1> HIDE DEF s, r, t, b, u
<1>14. CASE k + 1 <= c
  <2>1. s = St(0, FALSE, b, TRUE, TRUE, b) /\ StateAt(TRUE, k + 1) = s
    BY <1>5, <1>7, <1>8, <1>14
  <2>2. StFacts(0, FALSE, b, TRUE, TRUE, b)
    BY <1>3, StOf
  <2>3. s \in States /\ s.pending /\ s.baseline = b
    BY <2>1, <2>2 DEF StFacts
  <2>4. Cumulative(s, t) = [state |-> s, tokens |-> 0, emit |-> TRUE]
    BY <1>2, <1>10, <1>14, <2>3, CumulativeIs
  <2>5. Cumulative(s, t).state = s /\ Cumulative(s, t).tokens = 0 /\ Cumulative(s, t).emit
    BY <2>4
  <2> QED
    BY <1>6, <1>9, <1>10, <1>14, <2>1, <2>3, <2>5 DEF LineReads, s, r, t
<1>15. CASE k = c
  <2>1. s = St(0, FALSE, b, TRUE, TRUE, b) /\ StateAt(TRUE, k + 1) = St(t, TRUE, b, TRUE, FALSE, b)
    BY <1>5, <1>7, <1>8, <1>15
  <2>2. StFacts(0, FALSE, b, TRUE, TRUE, b)
    BY <1>3, StOf
  <2>3. s \in States /\ s.pending /\ s.baseline = b /\ Counted(s, t) = St(t, TRUE, b, TRUE, FALSE, b)
    BY <2>1, <2>2 DEF StFacts
  <2>4. t > b /\ r.used = t - b
    BY <1>2, <1>3, <1>4, <1>11, <1>12, <1>15
  <2>5. /\ Cumulative(s, t).state = Counted(s, t)
        /\ Cumulative(s, t).tokens = t - b /\ Cumulative(s, t).emit
    BY <1>2, <2>3, <2>4, CumulativeIs
  <2> QED
    BY <1>6, <1>9, <2>1, <2>3, <2>4, <2>5 DEF LineReads, s, r, t
<1>16. CASE k > c
  <2>1. s = St(u, TRUE, b, TRUE, FALSE, b) /\ StateAt(TRUE, k + 1) = St(t, TRUE, b, TRUE, FALSE, b)
    BY <1>5, <1>7, <1>8, <1>16
  <2>2. StFacts(u, TRUE, b, TRUE, FALSE, b)
    BY <1>3, <1>13, <1>16, StOf
  <2>3. s \in States /\ ~s.pending /\ s.had /\ s.previous = u /\ Counted(s, t) = St(t, TRUE, b, TRUE, FALSE, b)
    BY <2>1, <2>2 DEF StFacts
  <2>4. r.used = IF t < u THEN t ELSE t - u
    BY <1>4, <1>11, <1>13, <1>16
  <2>5. /\ Cumulative(s, t).state = Counted(s, t)
        /\ Cumulative(s, t).tokens = (IF t < u THEN t ELSE t - u) /\ Cumulative(s, t).emit
    BY <1>2, <2>3, CumulativeIs
  <2> QED
    BY <1>6, <1>9, <2>1, <2>3, <2>4, <2>5 DEF LineReads, s, r, t
<1>17. k + 1 <= c \/ k = c \/ k > c
  BY <1>4
<1> QED
  BY <1>14, <1>15, <1>16, <1>17

\* A log of turns, read without its parent.
LEMMA LastReads ==
  ASSUME CodexTyped, ParentGrows, SessionShape, style = "last",
         NEW k \in Nat, k + 1 <= Len(session), NEW seen
  PROVE  LineReads(FALSE, k, seen)
<1> DEFINE r == session[k + 1]
           t == session[k + 1].tokens
           s == StateAt(FALSE, k)
<1>1. k + 1 \in 1..Len(session) /\ k + 1 \in Nat
  BY DEF CodexTyped
<1>2. r \in Records /\ r.kind = "last" /\ t \in Nat /\ t > 0
  BY <1>1, LineIs
<1>3. s = St(0, FALSE, 0, FALSE, FALSE, 0)
  BY StateCases
<1>4. StateAt(FALSE, k + 1) = St(0, FALSE, 0, FALSE, FALSE, 0)
  BY <1>1, StateCases
<1>5. Tok(FALSE, k + 1) = t
  BY DEF Tok, Raw
<1>6. StFacts(0, FALSE, 0, FALSE, FALSE, 0)
  BY StOf
<1> HIDE DEF s
<1>7. s \in States /\ ~s.resolved
  BY <1>3, <1>6 DEF StFacts
<1>8. /\ Reading(s, r, seen).state = LastTurn(s, t).state
      /\ Reading(s, r, seen).tokens = LastTurn(s, t).tokens
      /\ Reading(s, r, seen).emit <=> (LastTurn(s, t).emit /\ r.turn \notin seen)
  BY <1>2, <1>7, ReadingIs
<1> HIDE DEF r, t
<1>9. LastTurn(s, t).state = s /\ LastTurn(s, t).tokens = t /\ LastTurn(s, t).emit
  BY <1>2, <1>7, LastTurnIs
<1> QED
  BY <1>3, <1>4, <1>5, <1>8, <1>9 DEF LineReads, s, r

\* A log of turns, read with its parent: the inherited prefix is used up first.
LEMMA LastReadsFork ==
  ASSUME CodexTyped, ParentGrows, SessionShape, style = "last", forkAt > 0,
         NEW k \in Nat, k + 1 <= Len(session), NEW seen
  PROVE  LineReads(TRUE, k, seen)
<1> DEFINE r == session[k + 1]
           t == session[k + 1].tokens
           s == StateAt(TRUE, k)
           b == parent[forkAt]
           m(i) == IF i < forkAt THEN b - Base(i) ELSE 0
<1>1. k + 1 \in 1..Len(session) /\ k + 1 \in Nat /\ (k + 1) - 1 = k
  BY DEF CodexTyped
<1>2. r \in Records /\ r.kind = "last" /\ t \in Nat /\ t > 0 /\ r.used \in Nat
  BY <1>1, LineIs
<1>3. b \in Nat /\ forkAt \in Nat
  BY ParentIs
<1>4. s = St(0, FALSE, b, TRUE, TRUE, m(k))
  BY StateCases
<1>5. StateAt(TRUE, k + 1) = St(0, FALSE, b, TRUE, TRUE, m(k + 1))
  BY <1>1, StateCases
<1>6. Tok(TRUE, k + 1) = r.used
  BY DEF Tok
<1>7. Copied(forkAt)
  BY DEF SessionShape, Copied
<1>8. /\ m(k) \in Nat /\ m(k + 1) = NatMax(0, m(k) - t) /\ m(k + 1) \in Nat
      /\ r.used = NatMax(0, t - m(k))
  <2>1. CASE k + 1 <= forkAt
    <3>1. k + 1 \in 1..forkAt /\ k < forkAt
      BY <1>1, <1>3, <2>1
    <3>2. /\ parent[k + 1] \in Nat /\ parent[k + 1] <= b /\ Base(k) \in Nat /\ Base(k) < parent[k + 1]
      BY <1>1, <3>1, ParentIs
    <3>3. r.used = 0 /\ t = parent[k + 1] - Base(k)
      BY <1>1, <1>7, <3>1 DEF Copied
    <3>4. m(k) = b - Base(k)
      BY <3>1
    <3>5. m(k + 1) = b - parent[k + 1]
      <4>1. CASE k + 1 < forkAt
        BY <1>1, <4>1 DEF Base
      <4>2. CASE k + 1 = forkAt
        BY <1>3, <4>2
      <4> QED
        BY <1>3, <2>1, <4>1, <4>2
    <3> HIDE DEF m, b, t, r
    <3> QED
      BY SMTT(40), <1>2, <1>3, <3>2, <3>3, <3>4, <3>5 DEF NatMax
  <2>2. CASE ~(k + 1 <= forkAt)
    <3>1. ~(k < forkAt) /\ ~(k + 1 < forkAt) /\ k + 1 \in (forkAt + 1)..Len(session)
      BY <1>1, <1>3, <2>2
    <3>2. m(k) = 0 /\ m(k + 1) = 0
      BY <3>1
    <3>3. r.used = t
      BY <1>7, <3>1 DEF Copied, Own
    <3> HIDE DEF m, b, t, r
    <3> QED
      BY <1>2, <3>2, <3>3 DEF NatMax
  <2> QED
    BY <2>1, <2>2
<1> HIDE DEF s, m, b
<1>9. StFacts(0, FALSE, b, TRUE, TRUE, m(k))
  BY <1>3, <1>8, StOf
<1>10. s \in States /\ s.resolved /\ s.remaining = m(k)
       /\ Left(s, m(k + 1)) = St(0, FALSE, b, TRUE, TRUE, m(k + 1))
  BY <1>4, <1>9 DEF StFacts
<1>11. /\ Reading(s, r, seen).state = LastTurn(s, t).state
       /\ Reading(s, r, seen).tokens = LastTurn(s, t).tokens
       /\ Reading(s, r, seen).emit <=> (LastTurn(s, t).emit /\ r.turn \notin seen)
  BY <1>2, <1>10, ReadingIs
<1> HIDE DEF r, t
<1>12. /\ LastTurn(s, t).state = Left(s, m(k + 1))
       /\ LastTurn(s, t).tokens = r.used /\ LastTurn(s, t).emit
  BY <1>2, <1>8, <1>10, LastTurnIs
<1> QED
  BY <1>5, <1>6, <1>10, <1>11, <1>12 DEF LineReads, s, r

\* Only a fork has a parent to know.
Known(res) == res \in BOOLEAN /\ (res => forkAt > 0)

\* So a reading takes the state a full parse has before a line to the one it
\* has after it, whichever way the log is read.
LEMMA ReadingSteps ==
  ASSUME CodexTyped, ParentGrows, SessionShape, NEW res, Known(res),
         NEW k \in Nat, k + 1 <= Len(session), NEW seen
  PROVE  LineReads(res, k, seen)
<1>1. style \in {"total", "last"}
  BY DEF CodexTyped
<1>2. res = TRUE \/ res = FALSE
  BY DEF Known
<1>3. ASSUME res = TRUE PROVE LineReads(TRUE, k, seen)
  <2>1. forkAt > 0
    BY <1>3 DEF Known
  <2> QED
    BY <1>1, <2>1, TotalReadsFork, LastReadsFork
<1>4. LineReads(FALSE, k, seen)
  BY <1>1, TotalReads, LastReads
<1> QED
  BY <1>2, <1>3, <1>4

\* The state a full parse has after a line is one a pass may begin from.
LEMMA StateTyped ==
  ASSUME CodexTyped, ParentGrows, SessionShape, NEW res, Known(res), NEW k \in 0..Len(session)
  PROVE  StateAt(res, k) \in States
<1>1. k \in Nat /\ style \in {"total", "last"} /\ (res = TRUE \/ res = FALSE)
  BY DEF CodexTyped, Known
<1>2. k > 0 => session[k].tokens \in Nat
  <2> SUFFICES ASSUME k > 0 PROVE session[k].tokens \in Nat
    OBVIOUS
  <2>1. k \in 1..Len(session)
    OBVIOUS
  <2> QED
    BY <2>1, LineIs
<1>3. StateAt(FALSE, k) \in States
  <2>1. StFacts(0, FALSE, 0, FALSE, FALSE, 0)
    BY StOf
  <2>2. k > 0 => StFacts(session[k].tokens, TRUE, 0, FALSE, FALSE, 0)
    BY <1>2, StOf
  <2>3. \/ StateAt(FALSE, k) = St(0, FALSE, 0, FALSE, FALSE, 0)
        \/ k > 0 /\ StateAt(FALSE, k) = St(session[k].tokens, TRUE, 0, FALSE, FALSE, 0)
    <3>1. k = 0 \/ k > 0
      BY <1>1
    <3> QED
      BY <1>1, <3>1, StateCases
  <2> QED
    BY <2>1, <2>2, <2>3 DEF StFacts
<1>4. ASSUME forkAt > 0 PROVE StateAt(TRUE, k) \in States
  <2> DEFINE b == parent[forkAt]
             m == IF k < forkAt THEN b - Base(k) ELSE 0
  <2>1. b \in Nat /\ forkAt \in Nat
    BY <1>4, ParentIs
  <2>2. m \in Nat
    <3>1. CASE k < forkAt
      <4>1. k + 1 \in 1..forkAt /\ (k + 1) - 1 = k
        BY <1>1, <2>1, <3>1
      <4>2. parent[k + 1] \in Nat /\ parent[k + 1] <= b /\ Base(k) \in Nat /\ Base(k) < parent[k + 1]
        BY <1>4, <4>1, ParentIs
      <4>3. m = b - Base(k)
        BY <3>1
      <4> HIDE DEF b, m
      <4> QED
        BY <2>1, <4>2, <4>3
    <3>2. CASE ~(k < forkAt)
      BY <3>2
    <3> QED
      BY <3>1, <3>2
  <2>3. Pend(k) \/ k > 0
    BY <1>1 DEF Pend
  <2>4. style = "total" => \/ StateAt(TRUE, k) = St(0, FALSE, b, TRUE, TRUE, b)
                           \/ k > 0 /\ StateAt(TRUE, k) = St(session[k].tokens, TRUE, b, TRUE, FALSE, b)
    BY <1>1, <2>3, StateCases
  <2>5. style = "last" => StateAt(TRUE, k) = St(0, FALSE, b, TRUE, TRUE, m)
    BY <1>1, StateCases
  <2> HIDE DEF b, m
  <2>6. StFacts(0, FALSE, b, TRUE, TRUE, b) /\ StFacts(0, FALSE, b, TRUE, TRUE, m)
    BY <2>1, <2>2, StOf
  <2>7. k > 0 => StFacts(session[k].tokens, TRUE, b, TRUE, FALSE, b)
    BY <1>2, <2>1, StOf
  <2> QED
    BY <1>1, <2>4, <2>5, <2>6, <2>7 DEF StFacts
<1>5. ASSUME res = TRUE PROVE StateAt(TRUE, k) \in States
  <2>1. forkAt > 0
    BY <1>5 DEF Known
  <2> QED
    BY <1>4, <2>1
<1> QED
  BY <1>1, <1>3, <1>5

\* A line whose turn an earlier line of the same pass has reported.
Skipped(m, i) ==
  style = "last" /\ \E j \in (m + 1)..(i - 1) : session[j].turn = session[i].turn

\* What a pass sends of the lines from m + 1 to n.
Events(res, m, n) ==
  {[line |-> i, tokens |-> Tok(res, i)] : i \in {j \in (m + 1)..n : ~Skipped(m, j)}}

\* The turns of the lines from m + 1 to n.
Turns(m, n) == {session[j].turn : j \in (m + 1)..n}

\* A pass from line m + 1 on, once it has read line n.
ReadUpTo(acc, res, m, n) ==
  acc.state = StateAt(res, n) /\ acc.seen = Turns(m, n) /\ acc.events = Events(res, m, n)

\* One more line read: the state, the turns and the events of one more line.
LEMMA LineAdds ==
  ASSUME CodexTyped, ParentGrows, SessionShape, NEW res, Known(res),
         NEW m \in Nat, NEW n \in Nat, m <= n, n + 1 <= Len(session),
         NEW acc, ReadUpTo(acc, res, m, n)
  PROVE  ReadUpTo(ReadLine(acc, n + 1), res, m, n + 1)
<1> DEFINE r == session[n + 1]
           read == Reading(StateAt(res, n), r, Turns(m, n))
           e == [line |-> n + 1, tokens |-> Tok(res, n + 1)]
<1>1. LineReads(res, n, Turns(m, n))
  BY ReadingSteps
<1>2. /\ read.state = StateAt(res, n + 1) /\ read.tokens = Tok(res, n + 1)
      /\ read.emit <=> ~(style = "last" /\ r.turn \in Turns(m, n))
  BY <1>1 DEF LineReads
<1>3. acc.state = StateAt(res, n) /\ acc.seen = Turns(m, n) /\ acc.events = Events(res, m, n)
  BY DEF ReadUpTo
<1>4. ReadLine(acc, n + 1) =
        [state |-> read.state, seen |-> Turns(m, n) \cup {r.turn},
         events |-> IF read.emit THEN Events(res, m, n) \cup {[line |-> n + 1, tokens |-> read.tokens]}
                    ELSE Events(res, m, n)]
  BY <1>3 DEF ReadLine
<1>5. (m + 1)..(n + 1) = ((m + 1)..n) \cup {n + 1} /\ (n + 1) - 1 = n /\ n + 1 \notin (m + 1)..n
  OBVIOUS
<1>6. Turns(m, n) \cup {r.turn} = Turns(m, n + 1)
  BY <1>5 DEF Turns
<1>7. read.emit <=> ~Skipped(m, n + 1)
  BY <1>2, <1>5 DEF Skipped, Turns
<1>8. ~Skipped(m, n + 1) => Events(res, m, n + 1) = Events(res, m, n) \cup {e}
  BY <1>5 DEF Events
<1>9. Skipped(m, n + 1) => Events(res, m, n + 1) = Events(res, m, n)
  BY <1>5 DEF Events
<1> DEFINE given == IF read.emit
                    THEN Events(res, m, n) \cup {[line |-> n + 1, tokens |-> read.tokens]}
                    ELSE Events(res, m, n)
           turns == Turns(m, n) \cup {r.turn}
           next == read.state
<1>11. ReadLine(acc, n + 1) = [state |-> next, seen |-> turns, events |-> given]
  BY <1>4
<1> HIDE DEF given, turns, next
<1>12. /\ ReadLine(acc, n + 1).state = next /\ ReadLine(acc, n + 1).seen = turns
       /\ ReadLine(acc, n + 1).events = given
  BY <1>11
<1> HIDE DEF read
<1>10. /\ ReadLine(acc, n + 1).state = read.state
       /\ ReadLine(acc, n + 1).seen = Turns(m, n) \cup {r.turn}
       /\ ReadLine(acc, n + 1).events =
            IF read.emit THEN Events(res, m, n) \cup {[line |-> n + 1, tokens |-> read.tokens]}
            ELSE Events(res, m, n)
  BY <1>12, Zenon DEF given, turns, next
<1> QED
  BY <1>2, <1>6, <1>7, <1>8, <1>9, <1>10 DEF ReadUpTo

\* A pass from any line of a state a full parse has there ends as it does, and
\* sends what it sends of the lines it read.
LEMMA PassIs ==
  ASSUME CodexTyped, ParentGrows, SessionShape, NEW res, Known(res), NEW m \in 0..Len(session)
  PROVE  /\ Pass(StateAt(res, m), m).state = StateAt(res, Len(session))
         /\ Pass(StateAt(res, m), m).events = Events(res, m, Len(session))
<1> DEFINE s == StateAt(res, m)
           W == PassOn(s, m)
           n == Len(session) - m
           G == {k \in Nat : k <= n => ReadUpTo(W[1..k], res, m, m + k)}
<1>1. session \in Seq(Records) /\ Len(session) \in Nat /\ m \in Nat /\ n \in Nat /\ m + n = Len(session)
  BY DEF CodexTyped
<1>2. s \in States
  BY StateTyped
<1> HIDE DEF s
<1>3. PassSteps(s, m, n) /\ DOMAIN Lines(m) = 1..n
  BY <1>1, <1>2, PassRecursion
<1>4. Pass(s, m) = W[1..n]
  BY <1>3, PassUnfold
<1> HIDE DEF n
<1>5. W[1..0] = Begin(s) /\ \A k \in 1..n : W[1..k] = ReadLine(W[1..(k-1)], m + k)
  BY <1>3 DEF PassSteps
<1> HIDE DEF W
<1>6. 0 \in G
  <2>1. (m + 1)..(m + 0) = {} /\ m + 0 = m
    BY <1>1
  <2>2. Turns(m, m + 0) = {} /\ Events(res, m, m + 0) = {}
    BY <2>1 DEF Turns, Events
  <2>3. Begin(s).state = s /\ Begin(s).seen = {} /\ Begin(s).events = {}
    BY DEF Begin
  <2> QED
    BY <1>5, <2>1, <2>2, <2>3 DEF ReadUpTo, s
<1>7. ASSUME NEW k \in Nat, k \in G PROVE k + 1 \in G
  <2> SUFFICES ASSUME k + 1 <= n PROVE ReadUpTo(W[1..(k + 1)], res, m, m + (k + 1))
    OBVIOUS
  <2>1. /\ k <= n /\ k + 1 \in 1..n /\ (k + 1) - 1 = k /\ m + (k + 1) = (m + k) + 1
        /\ m + k \in Nat /\ m <= m + k /\ (m + k) + 1 <= Len(session)
    BY <1>1
  <2>2. ReadUpTo(W[1..k], res, m, m + k)
    BY <1>7, <2>1
  <2>3. W[1..(k + 1)] = ReadLine(W[1..k], (m + k) + 1)
    BY <1>5, <2>1
  <2> QED
    BY <1>1, <2>1, <2>2, <2>3, LineAdds
<1>8. n \in G
  <2> HIDE DEF G
  <2> QED
    BY <1>1, <1>6, <1>7, NatSetInduction
<1>9. ReadUpTo(W[1..n], res, m, Len(session))
  BY <1>1, <1>8
<1> QED
  BY <1>4, <1>9 DEF ReadUpTo, s

-----------------------------------------------------------------------------
\* The inductive invariant.
CodexInv == CodexTyped /\ ParentGrows /\ SessionShape /\ ResumeTrue /\ SentTrue

\* The environment names the parent's log just when its total can be read.
LEMMA EnvironmentIs ==
  ASSUME CodexTyped
  PROVE  Len(Environment) = 2 <=> Resolved
<1>1. forkAt \in Nat
  BY DEF CodexTyped
<1>2. Len(<<"alone">>) = 1 /\ Len(<<"unresolved">>) = 1 /\ Len(<<"unavailable">>) = 1
  OBVIOUS
<1>3. Len(<<"parent", Len(parent)>>) = 2
  OBVIOUS
<1>4. \/ forkAt = 0 /\ Environment = <<"alone">>
      \/ forkAt > 0 /\ ~index /\ Environment = <<"unresolved">>
      \/ forkAt > 0 /\ index /\ ~there /\ Environment = <<"unavailable">>
      \/ forkAt > 0 /\ index /\ there /\ Environment = <<"parent", Len(parent)>>
  BY <1>1 DEF Environment
<1> QED
  BY <1>2, <1>3, <1>4 DEF Resolved

\* A full parse begins where the lines begin, with the parent's total or without.
LEMMA FreshIs ==
  ASSUME CodexTyped, ParentGrows, NEW res, Known(res)
  PROVE  Fresh(res) = StateAt(res, 0)
<1> DEFINE b == parent[forkAt]
<1>1. style \in {"total", "last"} /\ Pend(0) /\ Base(0) = 0 /\ 0 \in Nat
  BY DEF CodexTyped, Pend, Base
<1>2. CASE res = TRUE
  <2>1. forkAt > 0
    BY <1>2 DEF Known
  <2>2. b \in Nat /\ forkAt \in Nat /\ b - Base(0) = b
    BY <1>1, <2>1, ParentIs
  <2>3. Fresh(TRUE) = St(0, FALSE, b, TRUE, TRUE, b)
    BY Zenon DEF Fresh, St
  <2>4. StateAt(TRUE, 0) = St(0, FALSE, b, TRUE, TRUE, b)
    BY <1>1, <2>1, <2>2, StateCases
  <2> QED
    BY <1>2, <2>3, <2>4, Zenon
<1>3. CASE res = FALSE
  <2>1. Fresh(FALSE) = St(0, FALSE, 0, FALSE, FALSE, 0)
    BY Zenon DEF Fresh, St
  <2>2. StateAt(FALSE, 0) = St(0, FALSE, 0, FALSE, FALSE, 0)
    BY <1>1, StateCases
  <2> QED
    BY <1>3, <2>1, <2>2, Zenon
<1> QED
  BY <1>2, <1>3 DEF Known

\* The parent's total, if it is there to be read, is one a parse can know.
LEMMA ResolvedIs == Known(Resolved) /\ Known(FALSE)
<1>1. Resolved \in BOOLEAN
  BY Zenon DEF Resolved
<1>2. Resolved => forkAt > 0
  BY DEF Resolved
<1> QED
  BY <1>1, <1>2 DEF Known

\* Where a poll begins to read, and whether what it parses knows the parent's
\* total: what is resumed is of the state it is resumed from.
StartLine == IF Resumable THEN resume.line ELSE 0
Knows(known) == IF Resumable THEN resolved ELSE known

\* What a poll parses, from the cursor or from the first line, is what a full
\* parse has there.
LEMMA ParsedIs ==
  ASSUME CodexInv, NEW known, Known(known)
  PROVE  /\ StartLine \in 0..Len(session) /\ Known(Knows(known))
         /\ Parsed(known).state = StateAt(Knows(known), Len(session))
         /\ Parsed(known).events = Events(Knows(known), StartLine, Len(session))
<1>1. CodexTyped /\ ParentGrows /\ SessionShape /\ ResumeTrue
  BY DEF CodexInv
<1>2. Fresh(known) = StateAt(known, 0)
  BY <1>1, FreshIs
<1>3. resume.line \in 0..Len(session) /\ 0 \in 0..Len(session)
  BY <1>1 DEF CodexTyped
<1>4. PICK res : res = Knows(known)
  OBVIOUS
<1>5. CASE Resumable
  <2>1. resume.state # None /\ resume.line > 0 /\ StartLine = resume.line /\ res = resolved
    BY <1>4, <1>5 DEF Resumable, StartLine, Knows
  <2>2. Known(res)
    BY <1>1, <2>1 DEF CodexTyped, ResumeTrue, Known
  <2>3. resume.state = StateAt(res, resume.line)
    BY <1>1, <2>1 DEF ResumeTrue
  <2>4. Parsed(known) = Pass(StateAt(res, resume.line), resume.line)
    BY <1>5, <2>3, Zenon DEF Parsed
  <2> QED
    BY <1>1, <1>3, <1>4, <2>1, <2>2, <2>4, PassIs
<1>6. CASE ~Resumable
  <2>1. StartLine = 0 /\ res = known
    BY <1>4, <1>6 DEF StartLine, Knows
  <2>2. Known(res) /\ Parsed(known) = Pass(StateAt(res, 0), 0)
    BY <1>2, <1>6, <2>1, Zenon DEF Parsed
  <2> QED
    BY <1>1, <1>3, <1>4, <2>1, <2>2, PassIs
<1> QED
  BY <1>5, <1>6

\* What is stored after a part of the events has arrived.
Arrival(res, m, n, events) ==
  /\ DOMAIN Stored(events) = DOMAIN sent \cup {e.line : e \in events}
  /\ \A e \in events : e.line \in (m + 1)..n /\ e.tokens = Tok(res, e.line)
  /\ \A i \in DOMAIN Stored(events) :
       Stored(events)[i] = IF \E e \in events : e.line = i THEN Tok(res, i) ELSE sent[i]

\* The lines that have arrived hold what was sent for them, the others what they
\* held.
LEMMA StoredIs ==
  ASSUME NEW res, NEW m \in Nat, NEW n \in Nat, NEW arrived \in SUBSET Events(res, m, n)
  PROVE  Arrival(res, m, n, arrived)
<1>1. \A e \in arrived : e.line \in (m + 1)..n /\ e.tokens = Tok(res, e.line)
  <2> TAKE e \in arrived
  <2>1. PICK i \in {j \in (m + 1)..n : ~Skipped(m, j)} : e = [line |-> i, tokens |-> Tok(res, i)]
    BY DEF Events
  <2> QED
    BY <2>1
<1> DEFINE D == DOMAIN sent \cup {e.line : e \in arrived}
           v(i) == IF \E e \in arrived : e.line = i
                   THEN (CHOOSE e \in arrived : e.line = i).tokens ELSE sent[i]
<1>2. Stored(arrived) = [i \in D |-> v(i)]
  BY DEF Stored
<1>3. \A i : (\E e \in arrived : e.line = i) => v(i) = Tok(res, i)
  BY <1>1
<1>4. \A i : ~(\E e \in arrived : e.line = i) => v(i) = sent[i]
  OBVIOUS
<1> HIDE DEF v
<1> QED
  BY <1>1, <1>2, <1>3, <1>4 DEF Arrival

\* What is sent for a line is a number of tokens.
LEMMA TokTyped ==
  ASSUME CodexTyped, ParentGrows, SessionShape, NEW res, Known(res), NEW i \in 1..Len(session)
  PROVE  Tok(res, i) \in Nat
<1>1. session[i].used \in Nat /\ session[i].tokens \in Nat
  BY LineIs
<1>2. i # 1 => session[i - 1].tokens \in Nat
  <2> SUFFICES ASSUME i # 1 PROVE session[i - 1].tokens \in Nat
    OBVIOUS
  <2>1. i - 1 \in 1..Len(session)
    BY DEF CodexTyped
  <2> QED
    BY <2>1, LineIs
<1>3. Raw(i) \in Nat
  BY <1>1, <1>2 DEF Raw
<1> QED
  BY <1>1, <1>3 DEF Tok

-----------------------------------------------------------------------------
\* The logs only grow.
Grows ==
  /\ forkAt' = forkAt /\ style' = style
  /\ Len(session) <= Len(session') /\ \A i \in 1..Len(session) : session'[i] = session[i]
  /\ Len(parent) <= Len(parent') /\ \A i \in 1..Len(parent) : parent'[i] = parent[i]

\* What is said of a line does not change when lines are added after it.
LEMMA LinesKept ==
  ASSUME CodexTyped, CodexTyped', Grows, NEW i \in 1..Len(session)
  PROVE  /\ i \in 1..Len(session') /\ session'[i] = session[i]
         /\ i # 1 => i - 1 \in 1..Len(session) /\ session'[i - 1] = session[i - 1]
         /\ Repeats(i)' <=> Repeats(i)
         /\ Raw(i)' = Raw(i)
         /\ \A res : Tok(res, i)' = Tok(res, i)
<1>1. Len(session) \in Nat /\ Len(session') \in Nat /\ Len(session) <= Len(session')
  BY DEF CodexTyped, Grows
<1>2. i \in 1..Len(session') /\ session'[i] = session[i]
  BY <1>1 DEF Grows
<1>3. i # 1 => i - 1 \in 1..Len(session) /\ session'[i - 1] = session[i - 1]
  <2>1. i # 1 => i - 1 \in 1..Len(session)
    BY <1>1
  <2> QED
    BY <2>1 DEF Grows
<1>4. \A j \in 1..(i - 1) : session'[j] = session[j]
  <2>1. \A j \in 1..(i - 1) : j \in 1..Len(session)
    BY <1>1
  <2> QED
    BY <2>1 DEF Grows
<1>5. Repeats(i)' <=> Repeats(i)
  BY <1>2, <1>4 DEF Repeats
<1>6. Raw(i)' = Raw(i)
  <2>1. style' = style
    BY DEF Grows
  <2> QED
    BY <1>2, <1>3, <2>1 DEF Raw
<1>7. \A res : Tok(res, i)' = Tok(res, i)
  BY <1>2, <1>6 DEF Tok
<1> QED
  BY <1>2, <1>3, <1>5, <1>6, <1>7

\* Nor does the state a full parse has after a line.
LEMMA StatesKept ==
  ASSUME CodexTyped, CodexTyped', Grows, NEW res, Known(res), NEW k \in 0..Len(session)
  PROVE  StateAt(res, k)' = StateAt(res, k)
<1>1. /\ Len(session) \in Nat /\ Len(parent) \in Nat /\ forkAt \in 0..Len(parent)
      /\ forkAt' = forkAt /\ style' = style
  BY DEF CodexTyped, Grows
<1>2. Pend(k)' <=> Pend(k)
  <2>1. \A i \in 1..k : i \in 1..Len(session)
    BY <1>1
  <2>2. \A i \in 1..k : session'[i] = session[i]
    BY <2>1 DEF Grows
  <2> QED
    BY <2>2 DEF Pend
<1>3. k > 0 => session'[k] = session[k]
  <2>1. k > 0 => k \in 1..Len(session)
    BY <1>1
  <2> QED
    BY <2>1 DEF Grows
<1>4. forkAt > 0 => parent'[forkAt] = parent[forkAt]
  <2>1. forkAt > 0 => forkAt \in 1..Len(parent)
    BY <1>1
  <2> QED
    BY <2>1 DEF Grows
<1>5. k < forkAt => Base(k)' = Base(k)
  <2> SUFFICES ASSUME k < forkAt, k # 0 PROVE parent'[k] = parent[k]
    BY DEF Base
  <2>1. k \in 1..Len(parent)
    BY <1>1
  <2> QED
    BY <2>1 DEF Grows
<1>6. CASE res = TRUE
  <2>1. forkAt > 0 /\ parent'[forkAt] = parent[forkAt]
    BY <1>4, <1>6 DEF Known
  <2>2. k > 0 => session'[k].tokens = session[k].tokens
    BY <1>3
  <2>3. (k > 0 \/ Pend(k)) /\ k \in Nat
    BY <1>1 DEF Pend
  <2> QED
    BY <1>1, <1>2, <1>5, <1>6, <2>1, <2>2, <2>3 DEF StateAt
<1>7. CASE res = FALSE
  <2>1. k # 0 => session'[k].tokens = session[k].tokens
    BY <1>1, <1>3
  <2> QED
    BY <1>1, <1>7, <2>1 DEF StateAt
<1> QED
  BY <1>6, <1>7 DEF Known

\* So the cursor and what was sent stay true while the logs grow.
LEMMA CodexCursorKept ==
  ASSUME CodexInv, CodexTyped', Grows, resume'.env = resume.env, resume'.line = resume.line,
         resume'.state \in {resume.state, None}, UNCHANGED <<resolved, sent, settled>>
  PROVE  ResumeTrue' /\ SentTrue'
<1>1. CodexTyped /\ ResumeTrue /\ SentTrue
  BY DEF CodexInv
<1>2. resume.line \in 0..Len(session) /\ Len(session) \in Nat
  BY <1>1 DEF CodexTyped
<1>3. forkAt' = forkAt /\ resolved' = resolved
  BY DEF Grows
<1>4. Known(resolved) /\ (resolved => forkAt > 0)
  BY <1>1 DEF Known, ResumeTrue, CodexTyped
<1>5. ResumeTrue'
  <2>1. StateAt(resolved, resume.line)' = StateAt(resolved, resume.line)
    <3>1. PICK res \in BOOLEAN : res = resolved
      BY <1>4 DEF Known
    <3>2. StateAt(res, resume.line)' = StateAt(res, resume.line)
      <4>1. PICK k \in 0..Len(session) : k = resume.line
        BY <1>2
      <4>2. StateAt(res, k)' = StateAt(res, k)
        BY <1>1, <1>4, <3>1, <4>1, StatesKept
      <4> QED
        BY <4>1, <4>2 DEF StateAt, Pend, Base
    <3>3. PICK k : k = resume.line /\ k = resume'.line
      OBVIOUS
    <3>4. resolved' = res
      BY <1>3, <3>1
    <3>5. StateAt(resolved, resume.line)' = StateAt(res, k)'
      BY <3>3, <3>4 DEF StateAt, Pend, Base
    <3>6. StateAt(resolved, resume.line) = StateAt(res, k)
      BY <3>1, <3>3
    <3>7. StateAt(res, resume.line)' = StateAt(res, k)'
      BY <3>3 DEF StateAt, Pend, Base
    <3> QED
      BY <3>2, <3>3, <3>5, <3>6, <3>7
  <2> QED
    BY <1>1, <1>3, <1>4, <2>1 DEF ResumeTrue
<1>6. SentTrue'
  <2> SUFFICES ASSUME settled', NEW i \in 1..resume'.line, ~Repeats(i)'
               PROVE  i \in DOMAIN sent' /\ sent'[i] = Tok(resolved, i)'
    BY DEF SentTrue
  <2>1. i \in 1..Len(session) /\ i \in 1..resume.line
    BY <1>2
  <2>2. ~Repeats(i) /\ \A res : Tok(res, i)' = Tok(res, i)
    BY <1>1, <2>1, LinesKept
  <2>3. PICK res \in BOOLEAN : res = resolved /\ res = resolved'
    BY <1>3, <1>4 DEF Known
  <2>4. Tok(resolved, i)' = Tok(res, i)'
    BY <2>3 DEF Tok, Raw
  <2>5. Tok(resolved, i) = Tok(res, i)
    BY <2>3
  <2>6. i \in DOMAIN sent /\ sent[i] = Tok(resolved, i)
    BY <1>1, <2>1, <2>2 DEF SentTrue
  <2> QED
    BY <2>2, <2>4, <2>5, <2>6
<1> QED
  BY <1>5, <1>6

\* What a record that is added has to be.
Prior == IF Len(session) = 0 THEN Base(forkAt) ELSE session[Len(session)].tokens

\* A record follows the total of before it.
Follows(r) ==
  r.used = IF r.tokens < Prior THEN r.tokens ELSE r.tokens - Prior

\* A record the tool can add.
Fits(r) ==
  /\ r \in Records /\ r.kind = style /\ r.turn <= Len(session) + 1 /\ r.tokens > 0
  /\ forkAt = 0 /\ style = "total" => Follows(r)
  /\ forkAt = 0 /\ style = "last" =>
       r.used = IF \E j \in 1..Len(session) : session[j].turn = r.turn THEN 0 ELSE r.tokens
  /\ forkAt > 0 =>
       /\ r.turn = Len(session) + 1 /\ r.used > 0
       /\ style = "last" => r.tokens = r.used
       /\ style = "total" =>
            Follows(r) /\ (Len(session) \in {0, forkAt} /\ Copied(Len(session)) => r.tokens > Base(forkAt))

\* A record that fits leaves the session in its shape.
LEMMA ShapeAppends ==
  ASSUME CodexTyped, ParentGrows, SessionShape, CodexTyped', NEW r, Fits(r), session' = Append(session, r),
         UNCHANGED <<parent, forkAt, style>>
  PROVE  SessionShape' /\ Grows
<1>0. PICK n \in Nat : n = Len(session)
  BY DEF CodexTyped
<1>1. /\ session \in Seq(Records) /\ n \in Nat /\ parent \in Seq(Nat) /\ forkAt \in Nat
      /\ style \in {"total", "last"} /\ forkAt \in 0..Len(parent) /\ Len(parent) \in Nat
  BY <1>0 DEF CodexTyped
<1>2. /\ Len(session') = n + 1 /\ session'[n + 1] = r /\ \A i \in 1..n : session'[i] = session[i]
      /\ \A i \in 1..(n + 1) : i \in 1..n \/ i = n + 1
      /\ (n + 1) - 1 = n
  BY <1>0, <1>1 DEF Fits
<1>3. Grows
  BY <1>0, <1>1, <1>2 DEF Grows
<1>4. \A i \in 1..n : /\ session'[i] = session[i] /\ (Repeats(i)' <=> Repeats(i))
                      /\ Before(i)' = Before(i) /\ (Chained(i)' <=> Chained(i))
  <2> TAKE i \in 1..n
  <2>1. /\ session'[i] = session[i] /\ (Repeats(i)' <=> Repeats(i))
        /\ i # 1 => session'[i - 1] = session[i - 1]
    BY <1>0, <1>3, LinesKept
  <2>2. Before(i)' = Before(i)
    BY <2>1 DEF Before, Base
  <2> QED
    BY <2>1, <2>2 DEF Chained
<1>5. Before(n + 1)' = Prior
  <2>1. CASE n = 0
    BY <1>0, <2>1 DEF Before, Prior, Base
  <2>2. CASE n # 0
    <3>1. n \in 1..n /\ n + 1 # 1
      BY <1>1, <2>2
    <3> QED
      BY <1>0, <1>2, <2>2, <3>1 DEF Before, Prior
  <2> QED
    BY <2>1, <2>2
<1>6. Follows(r) => Chained(n + 1)'
  BY <1>2, <1>5 DEF Follows, Chained
<1>7. \A i \in 1..(n + 1) : session'[i].kind = style /\ session'[i].turn <= i /\ session'[i].tokens > 0
  BY <1>0, <1>2 DEF Fits, SessionShape
<1>8. ASSUME forkAt = 0 PROVE Alone'
  <2>1. Alone
    BY <1>8 DEF SessionShape
  <2>2. \A i \in 1..n :
          IF style = "total" THEN Chained(i)'
          ELSE session'[i].used = IF Repeats(i)' THEN 0 ELSE session'[i].tokens
    BY <1>0, <1>4, <2>1 DEF Alone
  <2>3. style = "total" => Chained(n + 1)'
    BY <1>6, <1>8 DEF Fits
  <2>4. style = "last" =>
          (Repeats(n + 1)' <=> \E j \in 1..n : session[j].turn = r.turn)
    <3> SUFFICES ASSUME style = "last"
                 PROVE  Repeats(n + 1)' <=> \E j \in 1..n : session[j].turn = r.turn
      OBVIOUS
    <3>1. \A j \in 1..n : session'[j] = session[j] /\ session[j].kind = "last"
      BY <1>0, <1>2 DEF SessionShape
    <3> QED
      BY <1>2, <3>1 DEF Repeats
  <2>5. style = "last" => session'[n + 1].used = IF Repeats(n + 1)' THEN 0 ELSE session'[n + 1].tokens
    BY <1>0, <1>2, <1>8, <2>4 DEF Fits
  <2> QED
    BY <1>1, <1>2, <2>2, <2>3, <2>5 DEF Alone
<1>9. ASSUME forkAt > 0 PROVE \E c \in {0, forkAt} : Copied(c)'
  <2>1. PICK c \in {0, forkAt} : Copied(c)
    BY <1>9 DEF SessionShape
  <2>2. c \in Nat /\ c <= n /\ (style = "last" => c = forkAt)
    BY <1>0, <1>1, <2>1 DEF Copied
  <2>3. \A i \in 1..(n + 1) : session'[i].turn = i
    BY <1>0, <1>2, <1>9, <2>1 DEF Copied, Fits
  <2>4. \A i \in 1..c :
          /\ session'[i].used = 0
          /\ session'[i].tokens = IF style = "total" THEN parent[i] ELSE parent[i] - Base(i - 1)
    <3>1. \A i \in 1..c : i \in 1..n
      BY <1>1, <2>2
    <3> QED
      BY <1>2, <2>1, <3>1 DEF Copied
  <2>5. \A i \in (c + 1)..n :
          /\ session'[i].used > 0 /\ (style = "last" => session'[i].tokens = session'[i].used)
          /\ style = "total" => Chained(i)' /\ (i = c + 1 => session'[i].tokens > Base(forkAt))
    <3>1. \A i \in (c + 1)..n : i \in 1..n
      BY <1>1, <2>2
    <3>2. Own(c)
      BY <2>1 DEF Copied
    <3> QED
      BY <1>0, <1>4, <3>1, <3>2 DEF Own
  <2>6. /\ r.used > 0 /\ (style = "last" => r.tokens = r.used)
        /\ style = "total" => Chained(n + 1)' /\ (n + 1 = c + 1 => r.tokens > Base(forkAt))
    <3>1. n + 1 = c + 1 => n = c
      BY <1>1, <2>2
    <3> QED
      BY <1>0, <1>6, <1>9, <2>1, <3>1 DEF Fits
  <2>7. \A i \in (c + 1)..(n + 1) : i \in (c + 1)..n \/ i = n + 1
    BY <1>1, <2>2
  <2>8. Own(c)'
    BY <1>2, <2>5, <2>6, <2>7 DEF Own, Base
  <2>9. Copied(c)'
    <3>1. parent' = parent /\ forkAt' = forkAt /\ style' = style /\ c <= Len(session')
      BY <1>1, <1>2, <2>2
    <3>2. \A i : Base(i)' = Base(i)
      BY <3>1 DEF Base
    <3> QED
      BY <1>2, <2>2, <2>3, <2>4, <2>8, <3>1, <3>2 DEF Copied
  <2> QED
    BY <2>1, <2>9
<1> QED
  BY <1>2, <1>3, <1>7, <1>8, <1>9 DEF SessionShape

\* A step that appends a record that fits keeps the invariant.
LEMMA RecordAdded ==
  ASSUME CodexInv, NEW r, Fits(r), session' = Append(session, r),
         UNCHANGED <<parent, forkAt, style, there, changes>>, AgentSide
  PROVE  CodexInv'
<1>1. CodexTyped /\ ParentGrows /\ SessionShape /\ session \in Seq(Records)
  BY DEF CodexInv, CodexTyped
<1>2. /\ parent' = parent /\ forkAt' = forkAt /\ style' = style /\ there' = there /\ changes' = changes
      /\ index' = index /\ resume' = resume /\ resolved' = resolved /\ sent' = sent /\ settled' = settled
      /\ codexFaults' = codexFaults
  BY DEF AgentSide
<1>3. session' \in Seq(Records) /\ Len(session') = Len(session) + 1 /\ Len(session) \in Nat
  BY <1>1 DEF Fits
<1>4. CodexTyped'
  <2>1. 0..Len(session) \subseteq 0..Len(session') /\ 1..Len(session) \subseteq 1..Len(session')
    BY <1>3
  <2> QED
    BY <1>1, <1>2, <1>3, <2>1 DEF CodexTyped
<1>5. SessionShape' /\ Grows
  BY <1>1, <1>2, <1>4, ShapeAppends
<1>6. ParentGrows'
  BY <1>1, <1>2 DEF ParentGrows
<1>7. ResumeTrue' /\ SentTrue'
  BY <1>2, <1>4, <1>5, CodexCursorKept
<1> QED
  BY <1>4, <1>5, <1>6, <1>7 DEF CodexInv

\* Every turn uses something.
LEMMA UsesPositive == \A n \in Uses : n \in Nat /\ n > 0
BY CodexAssumption

\* The last record of a log that has one.
LEMMA LastIs ==
  ASSUME CodexTyped, ParentGrows, SessionShape
  PROVE  /\ session = <<>> <=> Len(session) = 0
         /\ Len(session) \in Nat /\ Last(session) = session[Len(session)]
         /\ session # <<>> => Len(session) \in 1..Len(session)
         /\ Prior \in Nat
         /\ Len(session) = 0 => Prior = Base(forkAt)
         /\ Len(session) # 0 => Prior = session[Len(session)].tokens
<1>1. session \in Seq(Records) /\ Len(session) \in Nat /\ forkAt \in Nat
  BY DEF CodexTyped
<1>2. session = <<>> <=> Len(session) = 0
  BY <1>1
<1>3. session # <<>> => Len(session) \in 1..Len(session)
  BY <1>1, <1>2
<1>4. Prior \in Nat
  <2>1. CASE Len(session) = 0
    <3>1. Base(forkAt) \in Nat
      BY <1>1, ParentIs DEF Base
    <3> QED
      BY <2>1, <3>1 DEF Prior
  <2>2. CASE Len(session) # 0
    <3>1. session[Len(session)].tokens \in Nat
      BY <1>2, <1>3, <2>2, LineIs
    <3> QED
      BY <2>2, <3>1 DEF Prior
  <2> QED
    BY <2>1, <2>2
<1> QED
  BY <1>1, <1>2, <1>3, <1>4 DEF Last, Prior

\* A turn adds what it uses to the total of before it.
LEMMA TurnKeeps == ASSUME CodexInv, NEW n \in Uses, Turn(n) PROVE CodexInv'
<1> DEFINE t == IF style = "total" THEN Carried + n ELSE n
           r == [kind |-> style, tokens |-> t, turn |-> Len(session) + 1, used |-> n]
<1>1. CodexTyped /\ ParentGrows /\ SessionShape /\ style \in {"total", "last"} /\ forkAt \in Nat
  BY DEF CodexInv, CodexTyped
<1>2. n \in Nat /\ n > 0
  BY UsesPositive
<1>3. Len(session) \in Nat /\ Prior \in Nat /\ Carried = Prior
  <2>1. CASE Len(session) = 0
    BY <1>1, <2>1, LastIs DEF Carried, Base
  <2>2. CASE Len(session) # 0
    BY <1>1, <2>2, LastIs DEF Carried
  <2> QED
    BY <1>1, <2>1, <2>2, LastIs
<1>4. t \in Nat /\ t > 0 /\ (style = "total" => t = Prior + n) /\ (style = "last" => t = n)
  BY <1>1, <1>2, <1>3
<1> HIDE DEF t
<1>5. /\ r.kind = style /\ r.tokens = t /\ r.turn = Len(session) + 1 /\ r.used = n
      /\ r \in Records
  BY <1>1, <1>2, <1>3, <1>4 DEF Records
<1> HIDE DEF r
<1>6. \A j \in 1..Len(session) : session[j].turn # r.turn
  <2> TAKE j \in 1..Len(session)
  <2>1. session[j].turn <= j /\ session[j].turn \in Nat
    BY <1>1, LineIs DEF SessionShape
  <2> QED
    BY <1>3, <1>5, <2>1
<1>7. style = "total" => Follows(r)
  BY <1>2, <1>3, <1>4, <1>5 DEF Follows
<1>8. style = "total" /\ Len(session) \in {0, forkAt} /\ Copied(Len(session)) /\ forkAt > 0
        => r.tokens > Base(forkAt)
  <2> SUFFICES ASSUME style = "total", Len(session) \in {0, forkAt}, Copied(Len(session)), forkAt > 0
               PROVE  r.tokens > Base(forkAt)
    OBVIOUS
  <2>1. Prior = Base(forkAt)
    <3>1. CASE Len(session) = 0
      BY <1>1, <3>1, LastIs
    <3>2. CASE Len(session) # 0
      <4>1. Len(session) = forkAt /\ Len(session) \in 1..Len(session) /\ Prior = session[forkAt].tokens
        BY <1>1, <1>3, <3>2, LastIs
      <4>2. session[forkAt].tokens = parent[forkAt]
        BY <4>1 DEF Copied
      <4> QED
        BY <1>1, <4>1, <4>2 DEF Base
    <3> QED
      BY <3>1, <3>2
  <2> QED
    BY <1>2, <1>3, <1>4, <1>5, <2>1
<1>9. Fits(r)
  BY <1>1, <1>2, <1>3, <1>4, <1>5, <1>6, <1>7, <1>8 DEF Fits
<1>10. session' = Append(session, r) /\ AgentSide /\ UNCHANGED <<parent, forkAt, style, there, changes>>
  BY DEF Turn, r, t
<1> QED
  BY <1>9, <1>10, RecordAdded

\* A total that begins again is smaller than the one before it.
LEMMA RestartedKeeps == ASSUME CodexInv, NEW n \in Uses, Restarted(n) PROVE CodexInv'
<1> DEFINE r == [kind |-> "total", tokens |-> n, turn |-> Len(session) + 1, used |-> n]
<1>1. CodexTyped /\ ParentGrows /\ SessionShape /\ style = "total" /\ forkAt \in Nat
  BY DEF CodexInv, CodexTyped, Restarted
<1>2. n \in Nat /\ n > 0
  BY UsesPositive
<1>3. /\ Len(session) \in Nat /\ Prior \in Nat /\ Len(session) # 0 /\ Len(session) \in 1..Len(session)
      /\ session[Len(session)].used > 0 /\ n < Prior
  BY <1>1, LastIs DEF Restarted
<1>4. /\ r.kind = style /\ r.tokens = n /\ r.turn = Len(session) + 1 /\ r.used = n
      /\ r \in Records
  BY <1>1, <1>2, <1>3 DEF Records
<1> HIDE DEF r
<1>5. Follows(r)
  BY <1>3, <1>4 DEF Follows
<1>6. ~Copied(Len(session))
  <2>1. session[Len(session)].used # 0
    BY <1>1, <1>3, LineIs
  <2> QED
    BY <1>3, <2>1 DEF Copied
<1>7. Fits(r)
  BY <1>1, <1>2, <1>3, <1>4, <1>5, <1>6 DEF Fits
<1>8. session' = Append(session, r) /\ AgentSide /\ UNCHANGED <<parent, forkAt, style, there, changes>>
  BY DEF Restarted, r
<1> QED
  BY <1>7, <1>8, RecordAdded

\* A repeated turn adds nothing to the total of before it.
LEMMA RepeatedKeeps == ASSUME CodexInv, Repeated PROVE CodexInv'
<1> DEFINE last == Last(session)
           r == [last EXCEPT !.used = 0]
<1>1. CodexTyped /\ ParentGrows /\ SessionShape /\ forkAt = 0 /\ style \in {"total", "last"}
  BY DEF CodexInv, CodexTyped, Repeated
<1>2. /\ Len(session) \in Nat /\ Prior \in Nat /\ Len(session) # 0 /\ Len(session) \in 1..Len(session)
      /\ last = session[Len(session)] /\ Prior = last.tokens
  BY <1>1, LastIs DEF Repeated
<1>3. /\ last \in Records /\ last.kind = style /\ last.tokens \in Nat /\ last.tokens > 0
      /\ last.turn \in Nat /\ last.turn <= Len(session)
  BY <1>1, <1>2, LineIs DEF SessionShape
<1> HIDE DEF last
<1>4. /\ r \in Records /\ r.kind = style /\ r.tokens = last.tokens /\ r.turn = last.turn /\ r.used = 0
  BY <1>3 DEF Records
<1> HIDE DEF r
<1>5. Follows(r)
  BY <1>2, <1>3, <1>4 DEF Follows
<1>6. \E j \in 1..Len(session) : session[j].turn = r.turn
  BY <1>2, <1>4
<1>7. Fits(r)
  BY <1>1, <1>2, <1>3, <1>4, <1>5, <1>6 DEF Fits
<1>8. session' = Append(session, r) /\ AgentSide /\ UNCHANGED <<parent, forkAt, style, there, changes>>
  BY DEF Repeated, r, last
<1> QED
  BY <1>7, <1>8, RecordAdded

\* A session that does not change keeps its shape, whatever its parent adds.
LEMMA ShapeKept ==
  ASSUME CodexTyped, SessionShape, Grows, session' = session
  PROVE  SessionShape'
<1>1. /\ forkAt \in Nat /\ forkAt \in 0..Len(parent) /\ Len(parent) \in Nat
      /\ forkAt' = forkAt /\ style' = style
  BY DEF CodexTyped, Grows
<1>2. \A i \in 1..forkAt : parent'[i] = parent[i]
  <2>1. \A i \in 1..forkAt : i \in 1..Len(parent)
    BY <1>1
  <2> QED
    BY <2>1 DEF Grows
<1>3. \A i \in 0..forkAt : Base(i)' = Base(i)
  <2> TAKE i \in 0..forkAt
  <2>1. i # 0 => i \in 1..forkAt
    BY <1>1
  <2> QED
    BY <1>2, <2>1 DEF Base
<1>4. Base(forkAt)' = Base(forkAt)
  <2>1. PICK f \in 0..forkAt : f = forkAt
    BY <1>1
  <2> QED
    BY <1>1, <1>3, <2>1 DEF Base
<1>5. \A i : Before(i)' = Before(i)
  BY <1>4 DEF Before
<1>6. \A i : Chained(i)' <=> Chained(i)
  BY <1>5 DEF Chained
<1>7. \A i : Repeats(i)' <=> Repeats(i)
  BY DEF Repeats
<1>8. Alone => Alone'
  BY <1>1, <1>6, <1>7 DEF Alone
<1>9. \A c : Own(c) => Own(c)'
  BY <1>1, <1>4, <1>6 DEF Own
<1>10. ASSUME NEW c \in {0, forkAt}, Copied(c) PROVE Copied(c)'
  <2>1. \A i \in 1..c : i \in 1..forkAt /\ i - 1 \in 0..forkAt
    BY <1>1
  <2>2. \A i \in 1..c : parent'[i] = parent[i] /\ Base(i - 1)' = Base(i - 1)
    BY <1>2, <1>3, <2>1
  <2> QED
    BY <1>1, <1>9, <1>10, <2>2 DEF Copied
<1>11. forkAt = 0 => Alone'
  BY <1>8 DEF SessionShape
<1>12. forkAt > 0 => \E c \in {0, forkAt} : Copied(c)'
  BY <1>10 DEF SessionShape
<1>13. \A i \in 1..Len(session) :
         session[i].kind = style /\ session[i].turn <= i /\ session[i].tokens > 0
  BY DEF SessionShape
<1> QED
  BY <1>1, <1>11, <1>12, <1>13 DEF SessionShape

\* The parent goes on: the part that was inherited stays as it was.
LEMMA ParentTurnKeeps == ASSUME CodexInv, NEW n \in Uses, ParentTurn(n) PROVE CodexInv'
<1> DEFINE t == Total + n
           k == Len(parent)
<1>1. CodexTyped /\ ParentGrows /\ SessionShape /\ parent \in Seq(Nat) /\ k \in Nat
      /\ forkAt \in 0..k
  BY DEF CodexInv, CodexTyped
<1>2. n \in Nat /\ n > 0
  BY UsesPositive
<1>3. parent' = Append(parent, t) /\ AgentSide /\ UNCHANGED <<forkAt, style, session, there, changes>>
  BY DEF ParentTurn
<1>4. /\ index' = index /\ resume' = resume /\ resolved' = resolved /\ sent' = sent /\ settled' = settled
      /\ codexFaults' = codexFaults
  BY <1>3 DEF AgentSide
<1>5. \A i \in 1..k : parent[i] \in Nat /\ parent[i] > 0 /\ parent[i] <= Total /\ Total \in Nat
  <2> TAKE i \in 1..k
  <2>1. k \in 1..k /\ parent # <<>> /\ Total = parent[k]
    BY <1>1 DEF Total, Last
  <2>2. parent[i] \in Nat /\ parent[k] \in Nat /\ parent[i] > 0
    BY <1>1, <2>1 DEF ParentGrows
  <2>3. i = k \/ parent[i] < parent[k]
    BY <1>1, <2>1 DEF ParentGrows
  <2> QED
    BY <2>1, <2>2, <2>3
<1>6. Total \in Nat
  <2>1. CASE k = 0
    BY <1>1, <2>1 DEF Total
  <2>2. CASE k # 0
    <3>1. k \in 1..k
      BY <1>1, <2>2
    <3> QED
      BY <1>5, <3>1
  <2> QED
    BY <2>1, <2>2
<1>7. t \in Nat /\ t > 0 /\ t > Total
  BY <1>2, <1>6
<1> HIDE DEF t
<1>8. /\ parent' \in Seq(Nat) /\ Len(parent') = k + 1 /\ parent'[k + 1] = t
      /\ \A i \in 1..k : parent'[i] = parent[i]
  BY <1>1, <1>3, <1>7
<1>9. CodexTyped'
  BY <1>1, <1>3, <1>4, <1>8 DEF CodexTyped
<1>10. Grows
  BY <1>1, <1>3, <1>8 DEF Grows, CodexTyped
<1>11. ParentGrows'
  <2>1. \A i \in 1..(k + 1) : i \in 1..k \/ i = k + 1
    BY <1>1
  <2>2. \A i \in 1..(k + 1) : parent'[i] > 0
    BY <1>5, <1>7, <1>8, <2>1
  <2>3. ASSUME NEW i \in 1..(k + 1), NEW j \in 1..(k + 1), i < j PROVE parent'[i] < parent'[j]
    <3>1. i \in 1..k
      BY <1>1, <2>3
    <3>2. CASE j \in 1..k
      BY <1>1, <1>8, <2>3, <3>1, <3>2 DEF ParentGrows
    <3>3. CASE j = k + 1
      <4>1. parent'[i] = parent[i] /\ parent[i] <= Total /\ parent[i] \in Nat
        BY <1>5, <1>8, <3>1
      <4> QED
        BY <1>6, <1>7, <1>8, <3>3, <4>1
    <3> QED
      BY <2>1, <3>2, <3>3
  <2> QED
    BY <1>8, <2>2, <2>3 DEF ParentGrows
<1>12. SessionShape'
  BY <1>1, <1>3, <1>10, ShapeKept
<1>13. ResumeTrue' /\ SentTrue'
  BY <1>4, <1>9, <1>10, CodexCursorKept
<1> QED
  BY <1>9, <1>11, <1>12, <1>13 DEF CodexInv

\* A log that appears or goes, a discovery and a lost state change no log.
LEMMA RestKeeps ==
  ASSUME CodexInv, UNCHANGED <<parent, forkAt, style, session, resolved, sent, settled>>,
         there' \in BOOLEAN, index' \in BOOLEAN, changes' \in 0..MaxChanges, codexFaults' = codexFaults,
         resume'.env = resume.env, resume'.line = resume.line,
         resume'.state \in {resume.state, None}
  PROVE  CodexInv'
<1>1. CodexTyped /\ ParentGrows /\ SessionShape
  BY DEF CodexInv
<1>2. CodexTyped'
  BY <1>1 DEF CodexTyped
<1>3. Grows
  BY <1>1 DEF Grows, CodexTyped
<1>4. ParentGrows'
  BY <1>1 DEF ParentGrows
<1>5. SessionShape'
  BY <1>1, <1>3, ShapeKept
<1>6. ResumeTrue' /\ SentTrue'
  BY <1>2, <1>3, CodexCursorKept
<1> QED
  BY <1>2, <1>4, <1>5, <1>6 DEF CodexInv

\* The parent's log appears or is removed.
LEMMA ParentMovesKeeps == ASSUME CodexInv, ParentMoves PROVE CodexInv'
<1>1. CodexTyped
  BY DEF CodexInv
<1>2. /\ there' \in BOOLEAN /\ index' \in BOOLEAN /\ changes' \in 0..MaxChanges
      /\ codexFaults' = codexFaults /\ resume' = resume
      /\ UNCHANGED <<parent, forkAt, style, session, resolved, sent, settled>>
  BY <1>1, CodexAssumption DEF CodexTyped, ParentMoves, Change, AgentSide
<1> QED
  BY <1>2, RestKeeps

\* A discovery finds the parent, or finds it gone.
LEMMA DiscoverKeeps == ASSUME CodexInv, Discover PROVE CodexInv'
<1>1. CodexTyped
  BY DEF CodexInv
<1>2. /\ there' \in BOOLEAN /\ index' \in BOOLEAN /\ changes' \in 0..MaxChanges
      /\ codexFaults' = codexFaults /\ resume' = resume
      /\ UNCHANGED <<parent, forkAt, style, session, resolved, sent, settled>>
  BY <1>1 DEF CodexTyped, Discover
<1> QED
  BY <1>2, RestKeeps

\* The look at the environment changes neither the logs nor the cursor.
LEMMA LookKeeps == ASSUME CodexInv, Look PROVE CodexInv'
<1>1. CodexTyped
  BY DEF CodexInv
<1>2. /\ there' \in BOOLEAN /\ index' \in BOOLEAN /\ changes' \in 0..MaxChanges
      /\ codexFaults' = codexFaults /\ resume' = resume
      /\ UNCHANGED <<parent, forkAt, style, session, resolved, sent, settled>>
  BY <1>1 DEF CodexTyped, Look
<1> QED
  BY <1>2, RestKeeps

\* A parse state of another version is dropped.
LEMMA StateLostKeeps == ASSUME CodexInv, StateLost PROVE CodexInv'
<1>1. CodexTyped
  BY DEF CodexInv
<1>2. /\ there' \in BOOLEAN /\ index' \in BOOLEAN /\ changes' \in 0..MaxChanges
      /\ codexFaults' = codexFaults
      /\ UNCHANGED <<parent, forkAt, style, session, resolved, sent, settled>>
  BY <1>1, CodexAssumption DEF CodexTyped, StateLost, Change
<1>3. /\ resume'.env = resume.env /\ resume'.line = resume.line
      /\ resume'.state \in {resume.state, None}
  BY DEF StateLost
<1> QED
  BY <1>2, <1>3, RestKeeps

\* The copied records are the parent's turns, and no total is above the one
\* that is inherited.
LEMMA ForkNowKeeps == ASSUME CodexInv, ForkNow PROVE CodexInv'
<1> DEFINE tok(i) == IF style = "total" THEN parent[i] ELSE Use(i)
           copy == [i \in 1..Len(parent) |-> [kind |-> style, tokens |-> tok(i), turn |-> i, used |-> 0]]
<1>1. /\ CodexTyped /\ ParentGrows /\ ResumeTrue /\ parent \in Seq(Nat) /\ style \in {"total", "last"}
      /\ forkAt = 0 /\ session = <<>> /\ Len(session) = 0 /\ parent # <<>>
  BY DEF CodexInv, CodexTyped, ForkNow
<1>2. PICK n \in Nat : n = Len(parent) /\ n > 0
  BY <1>1
<1>3. /\ parent' = parent /\ style' = style /\ there' = there /\ changes' = changes
      /\ index' = index /\ resume' = resume /\ resolved' = resolved /\ sent' = sent /\ settled' = settled
      /\ codexFaults' = codexFaults /\ forkAt' = n
  BY <1>2 DEF ForkNow, AgentSide
<1>4. session' = copy \/ (style = "total" /\ session' = <<>>)
  BY DEF ForkNow
<1>5. \A i \in 1..n :
        /\ parent[i] \in Nat /\ parent[i] > 0 /\ tok(i) \in Nat /\ tok(i) > 0
        /\ tok(i) = IF style = "total" THEN parent[i] ELSE parent[i] - Base(i - 1)
  <2> TAKE i \in 1..n
  <2>1. parent[i] \in Nat /\ parent[i] > 0
    BY <1>1, <1>2 DEF ParentGrows
  <2>2. i # 1 => parent[i - 1] \in Nat /\ parent[i - 1] < parent[i]
    <3> SUFFICES ASSUME i # 1 PROVE parent[i - 1] \in Nat /\ parent[i - 1] < parent[i]
      OBVIOUS
    <3>1. i - 1 \in 1..n /\ i - 1 < i
      BY <1>2
    <3> QED
      BY <1>1, <1>2, <3>1 DEF ParentGrows
  <2>3. Base(i - 1) = IF i = 1 THEN 0 ELSE parent[i - 1]
    BY <1>2 DEF Base
  <2>4. Use(i) = parent[i] - Base(i - 1)
    <3>1. CASE n = 1
      <4>1. i = 1
        BY <3>1
      <4> QED
        BY <1>2, <2>1, <2>3, <3>1, <4>1 DEF Use
    <3>2. CASE n # 1
      BY <1>2, <2>1, <2>3, <3>2 DEF Use
    <3> QED
      BY <3>1, <3>2
  <2> HIDE DEF tok
  <2>5. tok(i) = IF style = "total" THEN parent[i] ELSE parent[i] - Base(i - 1)
    BY <2>4 DEF tok
  <2> QED
    BY <2>1, <2>2, <2>3, <2>5
<1> HIDE DEF tok
<1>6. /\ copy \in Seq(Records) /\ Len(copy) = n
      /\ \A i \in 1..n : copy[i].kind = style /\ copy[i].tokens = tok(i) /\ copy[i].turn = i
                         /\ copy[i].used = 0
  <2>1. \A i \in 1..n : [kind |-> style, tokens |-> tok(i), turn |-> i, used |-> 0] \in Records
    BY <1>1, <1>5 DEF Records
  <2>2. copy \in [1..n -> Records]
    BY <1>2, <2>1
  <2>3. copy \in Seq(Records) /\ Len(copy) = n
    BY <1>2, <2>2
  <2> QED
    BY <1>2, <2>3
<1> HIDE DEF copy
<1>7. /\ session' \in Seq(Records) /\ Len(session') \in {0, n}
      /\ style = "last" => Len(session') = n
      /\ Len(session') = n => session' = copy
  <2>1. CASE session' = copy
    BY <1>6, <2>1
  <2>2. CASE style = "total" /\ session' = <<>>
    <3>1. session' \in Seq(Records) /\ Len(session') = 0 /\ style # "last"
      BY <2>2
    <3> QED
      BY <1>2, <3>1
  <2> QED
    BY <1>4, <2>1, <2>2
<1>8. CodexTyped'
  <2>1. 1..Len(session) = {} /\ 0..Len(session) = {0} /\ 0 \in 0..Len(session')
    BY <1>1, <1>2, <1>7
  <2>2. DOMAIN sent = {} /\ resume.line = 0
    BY <1>1, <2>1 DEF CodexTyped
  <2> QED
    BY <1>1, <1>2, <1>3, <1>7, <2>1, <2>2 DEF CodexTyped
<1>9. ParentGrows'
  BY <1>1, <1>3 DEF ParentGrows
<1>10. SessionShape'
  <2>1. PICK c \in {0, n} : c = Len(session')
    BY <1>7
  <2>2. \A i \in 1..c : session'[i] = copy[i] /\ i \in 1..n
    BY <1>2, <1>7, <2>1
  <2>3. \A i \in 1..c :
          /\ session'[i].kind = style /\ session'[i].turn = i /\ session'[i].used = 0
          /\ session'[i].tokens = tok(i) /\ tok(i) > 0 /\ i <= i
          /\ tok(i) = IF style = "total" THEN parent[i] ELSE parent[i] - Base(i - 1)
    BY <1>5, <1>6, <2>2
  <2>4. (c + 1)..Len(session') = {}
    BY <1>2, <2>1
  <2>5. Own(c)'
    BY <2>4 DEF Own
  <2>6. \A i : Base(i)' = Base(i)
    BY <1>3 DEF Base
  <2>7. Copied(c)'
    BY <1>2, <1>3, <1>7, <2>1, <2>3, <2>5, <2>6 DEF Copied
  <2>8. forkAt' # 0 /\ c \in {0, forkAt'}
    BY <1>2, <1>3
  <2> QED
    BY <1>3, <2>1, <2>3, <2>7, <2>8 DEF SessionShape
<1>11. ResumeTrue' /\ SentTrue'
  <2>1. resume.line = 0 /\ ~resolved /\ ~(resume.line > 0) /\ 1..resume.line = {}
    BY <1>1 DEF CodexTyped, ResumeTrue
  <2> QED
    BY <1>3, <2>1 DEF ResumeTrue, SentTrue
<1> QED
  BY <1>8, <1>9, <1>10, <1>11 DEF CodexInv

\* What arrives of a poll keeps what was sent in the shape of the log.
LEMMA ArrivalsTyped ==
  ASSUME CodexInv, NEW known, Known(known), NEW arrived \in SUBSET Parsed(known).events,
         sent' = Stored(arrived)
  PROVE  /\ DOMAIN sent' \subseteq 1..Len(session) /\ \A i \in DOMAIN sent' : sent'[i] \in Nat
         /\ \A i \in DOMAIN sent : i <= StartLine => i \in DOMAIN sent' /\ sent'[i] = sent[i]
         /\ arrived = Parsed(known).events =>
              \A i \in 1..Len(session) :
                i > StartLine /\ ~Repeats(i) => i \in DOMAIN sent' /\ sent'[i] = Tok(Knows(known), i)
<1> DEFINE m == StartLine
           n == Len(session)
<1>1. CodexTyped /\ ParentGrows /\ SessionShape
  BY DEF CodexInv
<1>2. m \in 0..n /\ n \in Nat /\ m \in Nat /\ Known(Knows(known)) /\ Parsed(known).events = Events(Knows(known), m, n)
  BY <1>1, ParsedIs DEF CodexTyped
<1> HIDE DEF m, n
<1>3. PICK res : res = Knows(known)
  OBVIOUS
<1>4. Known(res) /\ arrived \in SUBSET Events(res, m, n)
  BY <1>2, <1>3
<1>5. /\ DOMAIN sent' = DOMAIN sent \cup {e.line : e \in arrived}
      /\ \A e \in arrived : e.line \in (m + 1)..n /\ e.tokens = Tok(res, e.line)
      /\ \A i \in DOMAIN sent' :
           sent'[i] = IF \E e \in arrived : e.line = i THEN Tok(res, i) ELSE sent[i]
  <2> DEFINE S == Stored(arrived)
  <2>1. /\ DOMAIN S = DOMAIN sent \cup {e.line : e \in arrived}
        /\ \A e \in arrived : e.line \in (m + 1)..n /\ e.tokens = Tok(res, e.line)
        /\ \A i \in DOMAIN S :
             S[i] = IF \E e \in arrived : e.line = i THEN Tok(res, i) ELSE sent[i]
    <3>1. Arrival(res, m, n, arrived)
      BY <1>2, <1>4, StoredIs
    <3> QED
      BY <3>1 DEF Arrival
  <2>2. sent' = S
    OBVIOUS
  <2> HIDE DEF S
  <2> QED
    BY <2>1, <2>2
<1>6. /\ DOMAIN sent \subseteq 1..n /\ \A i \in DOMAIN sent : sent[i] \in Nat
  BY <1>1 DEF CodexTyped, n
<1>7. \A i \in 1..n : Tok(res, i) \in Nat
  BY <1>1, <1>4, TokTyped DEF n
<1>8. (m + 1)..n \subseteq 1..n /\ \A i \in (m + 1)..n : ~(i <= m)
  BY <1>2
<1>9. DOMAIN sent' \subseteq 1..n
  BY <1>5, <1>6, <1>8
<1>10. \A i \in DOMAIN sent' : sent'[i] \in Nat
  BY <1>5, <1>6, <1>7, <1>9
<1>11. \A i \in DOMAIN sent : i <= m => i \in DOMAIN sent' /\ sent'[i] = sent[i]
  BY <1>5, <1>8
<1>12. ASSUME arrived = Parsed(known).events, NEW i \in 1..n, i > m, ~Repeats(i)
       PROVE  i \in DOMAIN sent' /\ sent'[i] = Tok(Knows(known), i)
  <2>1. i \in (m + 1)..n
    BY <1>2, <1>12
  <2>2. ~Skipped(m, i)
    <3>1. \A j \in (m + 1)..(i - 1) : j \in 1..(i - 1) /\ j \in 1..n
      BY <1>2
    <3>2. \A j \in 1..n : session[j].kind = style
      BY <1>1 DEF SessionShape, n
    <3> QED
      BY <1>12, <3>1, <3>2 DEF Skipped, Repeats
  <2>3. [line |-> i, tokens |-> Tok(res, i)] \in Events(res, m, n)
    BY <2>1, <2>2 DEF Events
  <2>4. PICK e \in arrived : e.line = i
    BY <1>2, <1>3, <1>12, <2>3
  <2> QED
    BY <1>3, <1>5, <2>4
<1> QED
  BY <1>9, <1>10, <1>11, <1>12 DEF m, n

\* The logs and what is known of them stay as they are while a poll commits.
PollsOnly == UNCHANGED <<parent, forkAt, style, session, there, index, changes>>

\* A poll leaves the logs, and what is said of their lines.
LEMMA PollKeeps ==
  ASSUME CodexInv, PollsOnly
  PROVE  /\ ParentGrows' /\ SessionShape'
         /\ \A i : (Repeats(i)' <=> Repeats(i)) /\ \A res : Tok(res, i)' = Tok(res, i)
         /\ \A res, k : StateAt(res, k)' = StateAt(res, k)
<1>1. CodexTyped /\ ParentGrows /\ SessionShape
  BY DEF CodexInv
<1>2. parent' = parent /\ forkAt' = forkAt /\ style' = style /\ session' = session
  BY DEF PollsOnly
<1>3. ParentGrows'
  BY <1>1, <1>2 DEF ParentGrows
<1>4. SessionShape'
  <2>1. Grows
    BY <1>1, <1>2 DEF Grows, CodexTyped
  <2> QED
    BY <1>1, <1>2, <2>1, ShapeKept
<1>5. \A i : Repeats(i)' <=> Repeats(i)
  BY <1>2 DEF Repeats
<1>6. \A i, res : Tok(res, i)' = Tok(res, i)
  BY <1>2 DEF Tok, Raw
<1>7. \A k : (Pend(k)' <=> Pend(k)) /\ Base(k)' = Base(k)
  BY <1>2 DEF Pend, Base
<1>8. \A res, k : StateAt(res, k)' = StateAt(res, k)
  BY <1>2, <1>7 DEF StateAt
<1> QED
  BY <1>3, <1>4, <1>5, <1>6, <1>8

\* A poll that is committed, with the parent's total or without: the cursor and
\* everything before it are those of a full parse that knows as much.
LEMMA PollCommits ==
  ASSUME CodexInv, NEW known, Known(known), Poll(known), codexFaults' \in 0..CodexFaults
  PROVE  CodexInv'
<1>1. CodexTyped /\ ResumeTrue /\ SentTrue
  BY DEF CodexInv
<1>2. /\ PollsOnly /\ sent' = Stored(Parsed(known).events)
      /\ resume'.line = Len(session) /\ resume'.state = Parsed(known).state
      /\ resolved' = Parsed(known).state.resolved
      /\ settled' = (settled \/ ~Resumable)
  BY DEF Poll, PollsOnly
<1>3. ParentGrows' /\ SessionShape'
  BY <1>2, PollKeeps
<1>4. /\ DOMAIN sent' \subseteq 1..Len(session) /\ \A i \in DOMAIN sent' : sent'[i] \in Nat
      /\ \A i \in DOMAIN sent : i <= StartLine => i \in DOMAIN sent' /\ sent'[i] = sent[i]
      /\ \A i \in 1..Len(session) :
           i > StartLine /\ ~Repeats(i) => i \in DOMAIN sent' /\ sent'[i] = Tok(Knows(known), i)
  BY <1>2, ArrivalsTyped
<1>5. /\ Len(session) \in Nat /\ StartLine \in 0..Len(session) /\ Known(Knows(known))
      /\ Parsed(known).state = StateAt(Knows(known), Len(session))
  BY <1>1, ParsedIs DEF CodexTyped
<1>6. PICK res : res = Knows(known)
  OBVIOUS
<1>7. resolved' = res /\ Known(res)
  <2>1. StateAt(res, Len(session)).resolved = res
    BY DEF StateAt, St
  <2> QED
    BY <1>2, <1>5, <1>6, <2>1
<1>8. CodexTyped'
  <2>1. /\ resume'.line \in 0..Len(session') /\ settled' \in BOOLEAN /\ resolved' \in BOOLEAN
    BY <1>1, <1>2, <1>5, <1>7 DEF PollsOnly, Known
  <2>2. /\ parent' = parent /\ forkAt' = forkAt /\ style' = style /\ session' = session
        /\ there' = there /\ index' = index /\ changes' = changes
    BY <1>2 DEF PollsOnly
  <2> QED
    BY <1>1, <1>4, <2>1, <2>2 DEF CodexTyped
<1>9. ResumeTrue'
  <2>1. resolved' => forkAt' > 0
    BY <1>2, <1>7 DEF Known, PollsOnly
  <2>2. StateAt(resolved, resume.line)' = StateAt(res, Len(session))
    <3>1. PICK n : n = Len(session)
      OBVIOUS
    <3>2. StateAt(res, n)' = StateAt(res, n)
      BY <1>2, PollKeeps
    <3>3. resolved' = res /\ resume'.line = n
      BY <1>2, <1>7, <3>1
    <3> QED
      BY <3>1, <3>2, <3>3 DEF StateAt, Pend, Base
  <2> QED
    BY <1>2, <1>5, <1>6, <2>1, <2>2 DEF ResumeTrue
<1>10. SentTrue'
  <2> SUFFICES ASSUME settled', NEW i \in 1..Len(session), ~Repeats(i)'
               PROVE  i \in DOMAIN sent' /\ sent'[i] = Tok(resolved, i)'
    BY <1>2 DEF SentTrue
  <2>1. ~Repeats(i) /\ Tok(res, i)' = Tok(res, i)
    BY <1>2, PollKeeps
  <2>2. Tok(resolved, i)' = Tok(res, i)'
    BY <1>7 DEF Tok, Raw
  <2>3. i \in DOMAIN sent' /\ sent'[i] = Tok(res, i)
    <3>1. CASE i > StartLine
      BY <1>4, <1>6, <2>1, <3>1
    <3>2. CASE ~(i > StartLine)
      <4>1. StartLine # 0 /\ i <= StartLine
        BY <1>5, <3>2
      <4>2. Resumable /\ StartLine = resume.line
        BY <4>1 DEF StartLine
      <4>3. settled /\ resolved = res
        BY <1>2, <1>6, <4>2 DEF Knows
      <4>4. i \in DOMAIN sent /\ sent[i] = Tok(resolved, i)
        <5>1. i \in 1..resume.line
          BY <1>5, <4>1, <4>2
        <5> QED
          BY <1>1, <2>1, <4>3, <5>1 DEF SentTrue
      <4> QED
        BY <1>4, <4>1, <4>3, <4>4
    <3> QED
      BY <3>1, <3>2
  <2> QED
    BY <2>1, <2>2, <2>3
<1> QED
  BY <1>3, <1>8, <1>9, <1>10 DEF CodexInv

\* The parent is read if it is there to be read, or its read fails.
LEMMA PollsKeep == ASSUME CodexInv, ParseAndCommit \/ ParentUnread PROVE CodexInv'
<1>1. codexFaults \in 0..CodexFaults
  BY DEF CodexInv, CodexTyped
<1>2. CASE ParseAndCommit
  BY <1>1, <1>2, ResolvedIs, PollCommits DEF ParseAndCommit
<1>3. CASE ParentUnread
  <2>1. codexFaults' \in 0..CodexFaults
    BY <1>1, <1>3, CodexAssumption DEF ParentUnread, CodexFault
  <2> QED
    BY <1>3, <2>1, ResolvedIs, PollCommits DEF ParentUnread
<1> QED
  BY <1>2, <1>3

\* A poll that is not committed: a resumed one sends again only what it would send,
\* a full one leaves the session unsettled.
LEMMA ParseAndLoseKeeps == ASSUME CodexInv, ParseAndLose PROVE CodexInv'
<1>1. CodexTyped /\ ResumeTrue /\ SentTrue
  BY DEF CodexInv
<1>2. PICK known \in {Resolved, FALSE} :
        \E arrived \in SUBSET Parsed(known).events : sent' = Stored(arrived)
  BY DEF ParseAndLose
<1>3. /\ PollsOnly /\ codexFaults' \in 0..CodexFaults /\ resume' = resume /\ resolved' = resolved
      /\ settled' = (settled /\ Resumable)
  BY <1>1, CodexAssumption DEF ParseAndLose, CodexFault, PollsOnly, CodexTyped
<1>4. ParentGrows' /\ SessionShape'
  BY <1>3, PollKeeps
<1>5. /\ DOMAIN sent' \subseteq 1..Len(session) /\ \A i \in DOMAIN sent' : sent'[i] \in Nat
      /\ \A i \in DOMAIN sent : i <= StartLine => i \in DOMAIN sent' /\ sent'[i] = sent[i]
  BY <1>2, ResolvedIs, ArrivalsTyped
<1>6. CodexTyped'
  <2>1. /\ parent' = parent /\ forkAt' = forkAt /\ style' = style /\ session' = session
        /\ there' = there /\ index' = index /\ changes' = changes
    BY <1>3 DEF PollsOnly
  <2>2. settled' \in BOOLEAN
    BY <1>3, Zenon
  <2> QED
    BY <1>1, <1>3, <1>5, <2>1, <2>2 DEF CodexTyped
<1>7. PICK res, n : res = resolved /\ n = resume.line
  OBVIOUS
<1>8. resolved' = res /\ resume'.line = n
  BY <1>3, <1>7
<1>9. ResumeTrue'
  <2>1. StateAt(resolved, resume.line)' = StateAt(res, n)
    <3>1. StateAt(res, n)' = StateAt(res, n)
      BY <1>3, PollKeeps
    <3> QED
      BY <1>8, <3>1 DEF StateAt, Pend, Base
  <2>2. forkAt' = forkAt
    BY <1>3 DEF PollsOnly
  <2> QED
    BY <1>1, <1>3, <1>7, <1>8, <2>1, <2>2 DEF ResumeTrue
<1>10. SentTrue'
  <2> SUFFICES ASSUME settled', NEW i \in 1..n, ~Repeats(i)'
               PROVE  i \in DOMAIN sent' /\ sent'[i] = Tok(resolved, i)'
    BY <1>8 DEF SentTrue
  <2>1. ~Repeats(i) /\ Tok(res, i)' = Tok(res, i)
    BY <1>3, PollKeeps
  <2>2. Tok(resolved, i)' = Tok(res, i)'
    BY <1>8 DEF Tok, Raw
  <2>3. settled /\ Resumable /\ StartLine = n /\ i <= n
    <3>1. settled /\ Resumable
      BY <1>3, Zenon
    <3>2. StartLine = n
      BY <1>7, <3>1 DEF StartLine
    <3>3. n \in Nat
      BY <1>1, <1>7 DEF CodexTyped
    <3> QED
      BY <3>1, <3>2, <3>3
  <2>4. i \in DOMAIN sent /\ sent[i] = Tok(res, i)
    BY <1>1, <1>7, <2>1, <2>3 DEF SentTrue
  <2> QED
    BY <1>5, <2>1, <2>2, <2>3, <2>4
<1> QED
  BY <1>4, <1>6, <1>9, <1>10 DEF CodexInv

\* The invariant holds before the first turn.
LEMMA CodexBegins == CodexInit => CodexInv
<1> SUFFICES ASSUME CodexInit PROVE CodexInv
  OBVIOUS
<1>1. /\ parent = <<>> /\ forkAt = 0 /\ session = <<>> /\ style \in {"total", "last"}
      /\ there \in BOOLEAN /\ index = FALSE /\ resume = [env |-> <<>>, line |-> 0, state |-> None]
      /\ sent = <<>> /\ settled = TRUE /\ resolved = FALSE /\ changes = 0 /\ codexFaults = 0
  BY DEF CodexInit
<1>2. /\ Len(parent) = 0 /\ Len(session) = 0 /\ parent \in Seq(Nat) /\ session \in Seq(Records)
      /\ DOMAIN sent = {} /\ resume.line = 0 /\ resume.state = None /\ resume.env = <<>>
      /\ Len(resume.env) = 0
  BY <1>1
<1>3. CodexTyped
  <2>1. there \in BOOLEAN /\ index \in BOOLEAN /\ settled \in BOOLEAN /\ resolved \in BOOLEAN
    BY <1>1, Zenon
  <2>2. forkAt \in 0..Len(parent) /\ resume.line \in 0..Len(session)
        /\ changes \in 0..MaxChanges /\ codexFaults \in 0..CodexFaults
    BY <1>1, <1>2, CodexAssumption
  <2>3. DOMAIN sent \subseteq 1..Len(session) /\ \A i \in DOMAIN sent : sent[i] \in Nat
    BY <1>2
  <2> QED
    BY <1>1, <1>2, <2>1, <2>2, <2>3 DEF CodexTyped
<1>4. ParentGrows
  BY <1>2 DEF ParentGrows
<1>5. SessionShape
  BY <1>1, <1>2 DEF SessionShape, Alone
<1>6. ResumeTrue /\ SentTrue
  BY <1>1, <1>2 DEF ResumeTrue, SentTrue
<1> QED
  BY <1>3, <1>4, <1>5, <1>6 DEF CodexInv

\* Every step keeps the invariant.
LEMMA CodexSteps == ASSUME CodexInv, [CodexNext]_codexVars PROVE CodexInv'
<1>1. CASE UNCHANGED codexVars
  <2>1. /\ there' \in BOOLEAN /\ index' \in BOOLEAN /\ changes' \in 0..MaxChanges
        /\ codexFaults' = codexFaults /\ resume' = resume
        /\ UNCHANGED <<parent, forkAt, style, session, resolved, sent, settled>>
    BY <1>1 DEF CodexInv, CodexTyped, codexVars
  <2> QED
    BY <2>1, RestKeeps
<1>2. CASE CodexNext
  <2>1. CASE \E n \in Uses : ParentTurn(n) \/ Turn(n) \/ Restarted(n)
    BY <2>1, ParentTurnKeeps, TurnKeeps, RestartedKeeps
  <2>2. CASE ForkNow \/ Repeated \/ ParentMoves \/ StateLost
    BY <2>2, ForkNowKeeps, RepeatedKeeps, ParentMovesKeeps, StateLostKeeps
  <2>3. CASE Discover \/ Look \/ ParseAndCommit \/ ParentUnread \/ ParseAndLose
    BY <2>3, DiscoverKeeps, LookKeeps, PollsKeep, ParseAndLoseKeeps
  <2> QED
    BY <1>2, <2>1, <2>2, <2>3 DEF CodexNext
<1> QED
  BY <1>1, <1>2

-----------------------------------------------------------------------------
\* The type invariant follows from the shape of the logs.
LEMMA TypesHold == ASSUME CodexInv PROVE CodexTypeOK
<1>1. CodexTyped /\ ParentGrows /\ SessionShape
  BY DEF CodexInv
<1>2. \A i \in 1..Len(parent) : parent[i] \in Nat
  BY <1>1 DEF CodexTyped
<1>3. ASSUME NEW i \in 1..Len(session)
      PROVE  session[i] \in [kind : {style}, tokens : Nat, turn : Nat, used : Nat]
  BY <1>1, LineIs DEF Records
<1> QED
  BY <1>1, <1>2, <1>3 DEF CodexTyped, CodexTypeOK

\* A full parse leaves out the lines that repeat a turn, and no others.
LEMMA SkippedIs ==
  ASSUME CodexTyped, ParentGrows, SessionShape, NEW i \in 1..Len(session)
  PROVE  Skipped(0, i) <=> Repeats(i)
<1>1. \A j \in 1..(i - 1) : j \in 1..Len(session)
  BY DEF CodexTyped
<1>2. \A j \in 1..(i - 1) : session[j].kind = style
  BY <1>1, LineIs
<1> QED
  BY <1>2 DEF Skipped, Repeats

\* A cursor of the environment of now knows the parent's total if it can be read,
\* unless its poll was not certain of the parent.
LEMMA CertainIs ==
  ASSUME CodexTyped, resume.env = Environment, Certain
  PROVE  resolved = Resolved
<1>1. resolved <=> Resolved
  BY EnvironmentIs DEF Certain, CodexTyped
<1>2. resolved \in BOOLEAN /\ Resolved \in BOOLEAN
  BY Zenon DEF CodexTyped, Resolved
<1> QED
  BY <1>1, <1>2

\* After a committed poll the hub holds what a full parse sends.
LEMMA FullIsSent == ASSUME CodexInv PROVE ResumeIsFull
<1> SUFFICES ASSUME Caught, Certain PROVE HoldsFull
  BY DEF ResumeIsFull
<1>1. CodexTyped /\ ParentGrows /\ SessionShape /\ SentTrue
  BY DEF CodexInv
<1>2. settled /\ resume.line = Len(session) /\ resolved = Resolved
  BY <1>1, CertainIs DEF Caught
<1>3. PICK res, n : res = Resolved /\ n = Len(session)
  OBVIOUS
<1>4. n \in Nat /\ 0 \in 0..Len(session)
  BY <1>1, <1>3 DEF CodexTyped
<1>5. Full = Events(res, 0, n)
  <2>1. Fresh(res) = StateAt(res, 0) /\ Known(res)
    BY <1>1, <1>3, ResolvedIs, FreshIs
  <2>2. Pass(StateAt(res, 0), 0).events = Events(res, 0, Len(session))
    BY <1>1, <1>4, <2>1, PassIs
  <2> QED
    BY <1>3, <2>1, <2>2 DEF Full
<1>6. \A i \in 1..n : ~Repeats(i) => i \in DOMAIN sent /\ sent[i] = Tok(res, i)
  BY <1>1, <1>2, <1>3 DEF SentTrue
<1>7. \A i \in 1..n : Skipped(0, i) <=> Repeats(i)
  BY <1>1, <1>3, SkippedIs
<1>8. ASSUME NEW e \in Full PROVE e.line \in DOMAIN sent /\ sent[e.line] = e.tokens
  <2>1. PICK i \in {j \in (0 + 1)..n : ~Skipped(0, j)} : e = [line |-> i, tokens |-> Tok(res, i)]
    BY <1>5, <1>8 DEF Events
  <2>2. i \in 1..n /\ ~Repeats(i)
    BY <1>7, <2>1
  <2> QED
    BY <1>6, <2>1, <2>2
<1>9. ASSUME NEW i \in DOMAIN sent, ~Repeats(i) PROVE \E e \in Full : e.line = i
  <2>1. i \in 1..n
    BY <1>1, <1>3 DEF CodexTyped
  <2>2. i \in {j \in (0 + 1)..n : ~Skipped(0, j)}
    BY <1>7, <1>9, <2>1
  <2>3. [line |-> i, tokens |-> Tok(res, i)] \in Full
    BY <1>5, <2>2 DEF Events
  <2> QED
    BY <2>3
<1> QED
  BY <1>8, <1>9 DEF HoldsFull

\* A line that repeats a turn has used nothing; of any other, the hub holds what
\* it has used itself.
LEMMA OwnUse ==
  ASSUME CodexTyped, ParentGrows, SessionShape, NEW res, Known(res), forkAt = 0 \/ res,
         NEW i \in 1..Len(session)
  PROVE  IF Repeats(i) THEN session[i].used = 0 ELSE Tok(res, i) = session[i].used
<1>1. session[i].kind = style /\ session[i].tokens \in Nat /\ style \in {"total", "last"}
  BY LineIs DEF CodexTyped
<1>2. \A j \in 1..(i - 1) : session[j].kind = style /\ j < i /\ j \in 1..Len(session)
  <2>1. \A j \in 1..(i - 1) : j \in 1..Len(session) /\ j < i
    BY DEF CodexTyped
  <2> QED
    BY <2>1, LineIs
<1>3. CASE forkAt > 0
  <2>1. \A j \in 1..Len(session) : session[j].turn = j
    BY <1>3 DEF SessionShape, Copied
  <2>2. ~Repeats(i)
    BY <1>2, <2>1 DEF Repeats
  <2>3. res
    BY <1>3
  <2> QED
    BY <2>2, <2>3 DEF Tok
<1>4. CASE forkAt = 0
  <2>1. Alone
    BY <1>4 DEF SessionShape
  <2>2. CASE style = "last"
    BY <2>1, <2>2 DEF Alone, Tok, Raw
  <2>3. CASE style = "total"
    <3>1. ~Repeats(i)
      BY <1>2, <2>3 DEF Repeats
    <3>2. session[i].used = IF session[i].tokens < Before(i) THEN session[i].tokens
                            ELSE session[i].tokens - Before(i)
      BY <2>1, <2>3 DEF Alone, Chained
    <3>3. i = 1 => Before(i) = 0
      BY <1>4 DEF Before, Base
    <3>4. i # 1 => Before(i) = session[i - 1].tokens
      BY DEF Before
    <3>5. ~(style = "last")
      BY <2>3
    <3>6. Raw(i) = session[i].used
      BY <1>1, <3>2, <3>3, <3>4, <3>5 DEF Raw
    <3> QED
      BY <3>1, <3>6 DEF Tok
  <2> QED
    BY <1>1, <2>2, <2>3
<1> QED
  BY <1>3, <1>4 DEF CodexTyped

\* The sum of the specification, as the function by which it is defined.
LEMMA SumOverIs ==
  ASSUME NEW f, NEW S
  PROVE  SumOver(f, S) = Sum(f, S)
<1>1. SumOver(f, S) = SumOn(f, S)[S]
  BY DEF SumOver, FoldSet, MapThenFoldSet, SumOn, SumRec, OneOf
<1> QED
  BY <1>1, SumUnfold

\* After a committed poll that knows the parent, the session counts its own use.
LEMMA OwnUseIsCounted == ASSUME CodexInv PROVE InheritedCountsOnce
<1> DEFINE kept == {i \in DOMAIN sent : ~Repeats(i)}
           own == [i \in 1..Len(session) |-> session[i].used]
<1> SUFFICES ASSUME Caught, Certain, forkAt = 0 \/ Resolved
             PROVE  SumOver(sent, kept) = SumOver(own, 1..Len(session))
  BY DEF InheritedCountsOnce
<1>1. CodexTyped /\ ParentGrows /\ SessionShape /\ SentTrue
  BY DEF CodexInv
<1>2. settled /\ resume.line = Len(session) /\ resolved = Resolved
  BY <1>1, CertainIs DEF Caught
<1>3. PICK res, n : res = Resolved /\ n = Len(session)
  OBVIOUS
<1>4. n \in Nat /\ Known(res)
  BY <1>1, <1>3, ResolvedIs DEF CodexTyped
<1>5. \A i \in 1..n : ~Repeats(i) => i \in DOMAIN sent /\ sent[i] = Tok(res, i)
  BY <1>1, <1>2, <1>3 DEF SentTrue
<1>6. \A i \in 1..n : IF Repeats(i) THEN session[i].used = 0 ELSE Tok(res, i) = session[i].used
  BY <1>1, <1>3, <1>4, OwnUse
<1>7. \A i \in 1..n : own[i] = session[i].used /\ own[i] \in Nat
  BY <1>1, <1>3, LineIs
<1>8. DOMAIN sent \subseteq 1..n
  BY <1>1, <1>3 DEF CodexTyped
<1>9. /\ kept \subseteq 1..n
      /\ \A i \in (1..n) \ kept : own[i] = 0
      /\ \A i \in kept : sent[i] = own[i] /\ sent[i] \in Nat
  BY <1>5, <1>6, <1>7, <1>8
<1>10. own = [i \in 1..n |-> session[i].used]
  BY <1>3
<1> HIDE DEF kept, own
<1>11. IsFiniteSet(1..n) /\ IsFiniteSet(kept)
  <2>1. IsFiniteSet(1..n)
    BY <1>4, FS_Interval
  <2> QED
    BY <1>9, <2>1, FS_Subset, Zenon
<1>12. Sum(own, kept) = Sum(own, 1..n)
  BY <1>7, <1>9, <1>11, SumOfSome DEF Weighs
<1>13. Sum(sent, kept) = Sum(own, kept)
  BY <1>9, <1>11, SumSame DEF Weighs
<1> QED
  BY <1>3, <1>12, <1>13, SumOverIs

-----------------------------------------------------------------------------
\* The type invariant of the Codex adapter holds in every reachable state.
THEOREM CodexTypeCorrect == CodexSpec => []CodexTypeOK
<1>1. CodexInit => CodexInv
  BY CodexBegins
<1>2. CodexInv /\ [CodexNext]_codexVars => CodexInv'
  BY CodexSteps
<1>3. CodexInv => CodexTypeOK
  BY TypesHold
<1> QED
  BY <1>1, <1>2, <1>3, PTL DEF CodexSpec

\* However the log of a session is cut into polls, whenever its parent becomes
\* known, and whatever is written between the look at the parent and its read:
\* once a poll is committed that has read the parent it named, or named none and
\* read none, the hub holds what a full parse sends, and a fork counts what it has
\* used itself. The states of other polls are resumed all the same
\* (ResumeAlwaysFull fails).
THEOREM CodexCountsAlways == CodexSpec => []CodexCounts
<1>1. CodexInit => CodexInv
  BY CodexBegins
<1>2. CodexInv /\ [CodexNext]_codexVars => CodexInv'
  BY CodexSteps
<1>3. CodexInv => CodexCounts
  BY FullIsSent, OwnUseIsCounted DEF CodexCounts
<1> QED
  BY <1>1, <1>2, <1>3, PTL DEF CodexSpec
=============================================================================
