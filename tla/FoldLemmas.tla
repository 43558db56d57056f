------------------------------ MODULE FoldLemmas ------------------------------
(* Induction over the naturals and over the subsets of a finite set, stated   *)
(* for sets, and the folds of the community modules, which are functions      *)
(* defined by recursion over such subsets.                                    *)
EXTENDS Integers, FiniteSetsExt, FiniteSetTheorems, WellFoundedInduction, TLAPS

\* A set that contains zero and the successor of each of its naturals contains
\* every natural.
LEMMA NatSetInduction ==
  ASSUME NEW P, 0 \in P, \A n \in Nat : n \in P => n + 1 \in P
  PROVE  Nat \subseteq P
<1> DEFINE R == OpToRel(<, Nat)
           T == Nat \ P
<1>1. IsWellFoundedOn(R, Nat)
  BY NatLessThanWellFounded
<1>2. \A x, y \in Nat : y < x => <<y, x>> \in R
  BY DEF OpToRel
<1>3. T \subseteq Nat
  OBVIOUS
<1> SUFFICES ASSUME T # {} PROVE FALSE
  OBVIOUS
<1>4. PICK x \in T : \A y \in T : <<y, x>> \notin R
  <2> HIDE DEF R, T
  <2> QED
    BY <1>1, <1>3, WFMin
<1>5. x \in Nat /\ x # 0 /\ x - 1 \in Nat /\ x - 1 < x /\ (x - 1) + 1 = x
  OBVIOUS
<1>6. x - 1 \in T
  BY <1>5
<1> QED
  BY <1>2, <1>4, <1>5, <1>6

\* A set that contains a subset of D as soon as it contains the smaller ones
\* contains every subset of D.
LEMMA SubsetInduction ==
  ASSUME NEW D, IsFiniteSet(D), NEW G,
         \A S \in SUBSET D : (\A T \in SUBSET S : T # S => T \in G) => S \in G
  PROVE  SUBSET D \subseteq G
<1> DEFINE R == StrictSubsetOrdering(D)
           Bad == (SUBSET D) \ G
<1>1. IsWellFoundedOn(R, SUBSET D)
  BY FS_StrictSubsetOrderingWellFounded, FS_FiniteSubsetsOfFinite
<1>2. \A S \in SUBSET D : \A T \in SUBSET S : T # S => <<T, S>> \in R
  BY DEF StrictSubsetOrdering
<1>3. Bad \subseteq SUBSET D
  OBVIOUS
<1> SUFFICES ASSUME Bad # {} PROVE FALSE
  OBVIOUS
<1>4. PICK S \in Bad : \A T \in Bad : <<T, S>> \notin R
  <2> HIDE DEF R, Bad
  <2> QED
    BY <1>1, <1>3, WFMin
<1>5. S \in SUBSET D /\ S \notin G
  BY <1>4
<1>6. ASSUME NEW T \in SUBSET S, T # S PROVE T \in G
  <2>1. T \in SUBSET D /\ <<T, S>> \in R
    BY <1>2, <1>5, <1>6
  <2> HIDE DEF R
  <2> QED
    BY <1>4, <2>1
<1> QED
  BY <1>5, <1>6

-----------------------------------------------------------------------------
(* The function a fold defines over the subsets of D: pick[S] is the element  *)
(* taken from S, F[<<x, v>>] adds x to what the rest gives.                   *)
FoldStep(F, base, pick, h, T) ==
  IF T = {} THEN base ELSE F[<<pick[T], h[T \ {pick[T]}]>>]

IsFold(D, V, F, base, pick, h) ==
  h \in [SUBSET D -> V] /\ \A T \in SUBSET D : h[T] = FoldStep(F, base, pick, h, T)

Adds(D, V, F) == F \in [D \X V -> V]

Picks(D, pick) == \A T \in SUBSET D : T # {} => pick[T] \in T

\* Two such functions agree where both are defined.
LEMMA FoldsAgree ==
  ASSUME NEW D, IsFiniteSet(D), NEW V, NEW F, NEW base, NEW pick, Picks(D, pick),
         NEW A \in SUBSET D, NEW B \in SUBSET D, NEW g, NEW h,
         IsFold(A, V, F, base, pick, g), IsFold(B, V, F, base, pick, h)
  PROVE  \A T \in SUBSET A : T \in SUBSET B => g[T] = h[T]
<1> DEFINE G == {S \in SUBSET D : S \subseteq A /\ S \subseteq B => g[S] = h[S]}
<1>1. ASSUME NEW S \in SUBSET D, \A U \in SUBSET S : U # S => U \in G
      PROVE  S \in G
  <2> SUFFICES ASSUME S \subseteq A, S \subseteq B PROVE g[S] = h[S]
    OBVIOUS
  <2>1. CASE S = {}
    BY <2>1 DEF IsFold, FoldStep
  <2>2. CASE S # {}
    <3>1. pick[S] \in S /\ S \ {pick[S]} \in SUBSET S /\ S \ {pick[S]} # S
      BY <2>2 DEF Picks
    <3>2. g[S \ {pick[S]}] = h[S \ {pick[S]}]
      BY <1>1, <3>1
    <3> QED
      BY <2>2, <3>2 DEF IsFold, FoldStep
  <2> QED
    BY <2>1, <2>2
<1>2. SUBSET D \subseteq G
  <2> HIDE DEF G
  <2> QED
    BY <1>1, SubsetInduction
<1> QED
  BY <1>2

\* There is one for every subset of D.
LEMMA FoldExists ==
  ASSUME NEW D, IsFiniteSet(D), NEW V, NEW base \in V, NEW F, Adds(D, V, F),
         NEW pick, Picks(D, pick)
  PROVE  \E h : IsFold(D, V, F, base, pick, h)
<1> DEFINE For(S) == CHOOSE h : IsFold(S, V, F, base, pick, h)
           G == {S \in SUBSET D : \E h : IsFold(S, V, F, base, pick, h)}
<1>a. \A A, B \in SUBSET D : \A g, h :
         IsFold(A, V, F, base, pick, g) /\ IsFold(B, V, F, base, pick, h)
           => \A T \in SUBSET A : T \in SUBSET B => g[T] = h[T]
  <2> SUFFICES ASSUME NEW A \in SUBSET D, NEW B \in SUBSET D, NEW g, NEW h,
                      IsFold(A, V, F, base, pick, g), IsFold(B, V, F, base, pick, h)
               PROVE  \A T \in SUBSET A : T \in SUBSET B => g[T] = h[T]
    OBVIOUS
  <2> QED
    BY FoldsAgree
<1>0. \A S \in G : IsFold(S, V, F, base, pick, For(S))
  OBVIOUS
<1>1. ASSUME NEW S \in SUBSET D, \A U \in SUBSET S : U # S => U \in G
      PROVE  S \in G
  <2> DEFINE P == pick[S]
             g == [T \in SUBSET S |-> IF T # S THEN For(T)[T]
                                      ELSE IF S = {} THEN base
                                      ELSE F[<<P, For(S \ {P})[S \ {P}]>>]]
  <2>1. \A T \in SUBSET S : T # S => IsFold(T, V, F, base, pick, For(T))
    BY <1>0, <1>1
  <2>2. ASSUME NEW T \in SUBSET S PROVE g[T] \in V /\ g[T] = FoldStep(F, base, pick, g, T)
    <3>1. CASE T = {}
      <4>1. CASE S = {}
        BY <3>1, <4>1 DEF FoldStep
      <4>2. CASE S # {}
        <5>1. IsFold(T, V, F, base, pick, For(T)) /\ g[T] = For(T)[T]
          BY <2>1, <3>1, <4>2
        <5>2. For(T)[T] = base
          BY <3>1, <5>1 DEF IsFold, FoldStep
        <5> QED
          BY <3>1, <5>1, <5>2 DEF FoldStep
      <4> QED
        BY <4>1, <4>2
    <3>2. CASE T # {}
      <4> DEFINE Q == T \ {pick[T]}
      <4>1. pick[T] \in T /\ pick[T] \in D /\ Q \in SUBSET S /\ Q \in SUBSET T /\ Q # T /\ Q # S
        BY <3>2 DEF Picks
      <4>2. IsFold(Q, V, F, base, pick, For(Q)) /\ g[Q] = For(Q)[Q]
        <5> HIDE DEF For
        <5> QED BY <2>1, <4>1
      <4>3. g[Q] \in V
        BY <4>2 DEF IsFold
      <4>4. F[<<pick[T], g[Q]>>] \in V
        BY <4>1, <4>3 DEF Adds
      <4>5. g[T] = F[<<pick[T], g[Q]>>]
        <5>1. CASE T = S
          BY <3>2, <4>2, <5>1
        <5>2. CASE T # S
          <6>1. IsFold(T, V, F, base, pick, For(T)) /\ g[T] = For(T)[T]
            <7> HIDE DEF For
            <7> QED BY <2>1, <5>2
          <6>2. For(T)[T] = F[<<pick[T], For(T)[Q]>>]
            BY <3>2, <6>1 DEF IsFold, FoldStep
          <6>3. For(T)[Q] = For(Q)[Q]
            <7>1. Q \in SUBSET D /\ T \in SUBSET D /\ Q \in SUBSET T /\ Q \in SUBSET Q
              BY <4>1
            <7>2. IsFold(Q, V, F, base, pick, For(Q)) /\ IsFold(T, V, F, base, pick, For(T))
              BY <4>2, <6>1
            <7> HIDE DEF For, g, Q
            <7> QED
              BY <1>a, <7>1, <7>2
          <6> QED
            BY <4>2, <6>1, <6>2, <6>3
        <5> QED
          BY <5>1, <5>2
      <4> HIDE DEF g
      <4> QED
        BY <3>2, <4>4, <4>5 DEF FoldStep
    <3> QED
      BY <3>1, <3>2
  <2>3. g \in [SUBSET S -> V]
    BY <2>2
  <2>4. IsFold(S, V, F, base, pick, g)
    <3> HIDE DEF g
    <3> QED BY <2>2, <2>3 DEF IsFold
  <2> QED
    BY <2>4
<1>2. SUBSET D \subseteq G
  <2> HIDE DEF G
  <2> QED
    BY <1>1, SubsetInduction
<1> QED
  BY <1>2

\* A function that adds element by element, as long as what the rest gives is
\* in V, is the fold.
LEMMA FoldTyped ==
  ASSUME NEW D, IsFiniteSet(D), NEW V, NEW base \in V, NEW F, Adds(D, V, F),
         NEW pick, Picks(D, pick), NEW g, g = [S \in SUBSET D |-> g[S]], g[{}] = base,
         \A T \in SUBSET D : T # {} /\ g[T \ {pick[T]}] \in V
            => g[T] = F[<<pick[T], g[T \ {pick[T]}]>>]
  PROVE  IsFold(D, V, F, base, pick, g)
<1> DEFINE G == {S \in SUBSET D : g[S] \in V}
<1>1. ASSUME NEW S \in SUBSET D, \A U \in SUBSET S : U # S => U \in G
      PROVE  S \in G
  <2>1. CASE S = {}
    BY <2>1
  <2>2. CASE S # {}
    <3>1. pick[S] \in S /\ S \ {pick[S]} \in SUBSET S /\ S \ {pick[S]} # S
      BY <2>2 DEF Picks
    <3>2. g[S \ {pick[S]}] \in V
      BY <1>1, <3>1
    <3>3. g[S] = F[<<pick[S], g[S \ {pick[S]}]>>]
      BY <2>2, <3>2
    <3>4. pick[S] \in D
      BY <3>1
    <3>5. F[<<pick[S], g[S \ {pick[S]}]>>] \in V
      BY <3>2, <3>4 DEF Adds
    <3> QED
      BY <3>3, <3>5
  <2> QED
    BY <2>1, <2>2
<1>2. SUBSET D \subseteq G
  <2> HIDE DEF G
  <2> QED
    BY <1>1, SubsetInduction
<1>3. ASSUME NEW T \in SUBSET D PROVE g[T] = FoldStep(F, base, pick, g, T)
  <2>1. T # {} => T \ {pick[T]} \in SUBSET D
    OBVIOUS
  <2> QED
    BY <1>2, <2>1 DEF FoldStep
<1>4. g \in [SUBSET D -> V]
  BY <1>2
<1> QED
  BY <1>3, <1>4 DEF IsFold


-----------------------------------------------------------------------------
(* A left fold takes the greatest index first, so that what it gives for the  *)
(* first k elements is what it gives for k - 1 of them and the next one.      *)
MaxPick(n) == [S \in SUBSET (1..n) |-> Max(S)]

\* A set of the first naturals that is not empty has a greatest element.
LEMMA MaxExists ==
  ASSUME NEW n \in Nat, NEW S \in SUBSET (1..n), S # {}
  PROVE  Max(S) \in S /\ \A y \in S : Max(S) >= y
<1> DEFINE G == {k \in Nat : \A T \in SUBSET (1..k) :
                    T # {} => \E x \in T : \A y \in T : x >= y}
<1>1. 0 \in G
  <2>1. 1..0 = {}
    OBVIOUS
  <2> QED
    BY <2>1
<1>2. ASSUME NEW k \in Nat, k \in G PROVE k + 1 \in G
  <2> SUFFICES ASSUME NEW T \in SUBSET (1..(k+1)), T # {}
               PROVE  \E x \in T : \A y \in T : x >= y
    BY <1>2
  <2>1. CASE k + 1 \in T
    BY <2>1
  <2>2. CASE k + 1 \notin T
    <3>1. T \in SUBSET (1..k)
      BY <2>2
    <3> QED
      BY <1>2, <3>1
  <2> QED
    BY <2>1, <2>2
<1>3. n \in G
  <2> HIDE DEF G
  <2> QED
    BY <1>1, <1>2, NatSetInduction
<1>4. \E x \in S : \A y \in S : x >= y
  BY <1>3
<1> QED
  BY <1>4 DEF Max

\* Taking the greatest index is a way to pick an element of every set of indices.
LEMMA MaxPicks ==
  ASSUME NEW n \in Nat
  PROVE  Picks(1..n, MaxPick(n)) /\ IsFiniteSet(1..n) /\ \A k \in 1..n : MaxPick(n)[1..k] = k
<1>1. Picks(1..n, MaxPick(n))
  BY MaxExists DEF Picks, MaxPick
<1>2. ASSUME NEW k \in 1..n PROVE Max(1..k) = k
  <2>1. 1..k \in SUBSET (1..n) /\ k \in 1..k
    OBVIOUS
  <2>2. Max(1..k) \in 1..k /\ \A y \in 1..k : Max(1..k) >= y
    <3> HIDE DEF Max
    <3> QED BY <2>1, MaxExists
  <2> QED
    BY <2>1, <2>2
<1> QED
  BY <1>1, <1>2, FS_Interval DEF MaxPick

\* Folded greatest index first, the first k elements give what k gives on top of
\* the first k - 1.
LEMMA MaxFold ==
  ASSUME NEW n \in Nat, NEW V, NEW base, NEW F, NEW g,
         IsFold(1..n, V, F, base, MaxPick(n), g)
  PROVE  /\ g[1..0] = base
         /\ \A k \in 0..n : g[1..k] \in V
         /\ \A k \in 1..n : g[1..k] = F[<<k, g[1..(k-1)]>>]
<1>1. 1..0 = {} /\ \A k \in 0..n : 1..k \in SUBSET (1..n)
  OBVIOUS
<1>2. \A k \in 1..n : 1..k # {} /\ (1..k) \ {k} = 1..(k-1)
  OBVIOUS
<1>3. \A k \in 1..n : MaxPick(n)[1..k] = k
  BY MaxPicks
<1>4. \A T \in SUBSET (1..n) : g[T] \in V /\ g[T] = FoldStep(F, base, MaxPick(n), g, T)
  BY DEF IsFold
<1>5. ASSUME NEW k \in 1..n PROVE g[1..k] = F[<<k, g[1..(k-1)]>>]
  <2>1. g[1..k] = FoldStep(F, base, MaxPick(n), g, 1..k)
    BY <1>1, <1>4
  <2>2. g[1..k] = F[<<MaxPick(n)[1..k], g[(1..k) \ {MaxPick(n)[1..k]}]>>]
    BY <1>2, <2>1 DEF FoldStep
  <2> QED
    BY <1>2, <1>3, <2>2
<1>6. g[1..0] = base
  BY <1>1, <1>4 DEF FoldStep
<1> QED
  BY <1>1, <1>4, <1>5, <1>6

IsLeftFold(n, V, F, base, h) ==
  /\ h \in [SUBSET (1..n) -> V]
  /\ \A T \in SUBSET (1..n) :
        /\ T # {} => Max(T) \in 1..n
        /\ h[T] = IF T = {} THEN base ELSE F[<<Max(T), h[T \ {Max(T)}]>>]

\* A function that is the left fold as long as what the rest gives is in V.
FoldsLeft(n, V, F, base, g) ==
  /\ g = [S \in SUBSET (1..n) |-> g[S]]
  /\ g[{}] = base
  /\ \A T \in SUBSET (1..n) : T # {} /\ Max(T) \in 1..n /\ g[T \ {Max(T)}] \in V
        => g[T] = F[<<Max(T), g[T \ {Max(T)}]>>]

StepByStep(n, V, F, base, g) ==
  /\ g[1..0] = base
  /\ \A k \in 0..n : g[1..k] \in V
  /\ \A k \in 1..n : g[1..k] = F[<<k, g[1..(k-1)]>>]

\* The equations of a left fold have a solution.
LEMMA LeftFoldExists ==
  ASSUME NEW n \in Nat, NEW V, NEW base \in V, NEW F, Adds(1..n, V, F)
  PROVE  \E h : IsLeftFold(n, V, F, base, h)
<1>1. PICK h : IsFold(1..n, V, F, base, MaxPick(n), h)
  BY MaxPicks, FoldExists
<1>2. ASSUME NEW T \in SUBSET (1..n)
      PROVE  /\ T # {} => Max(T) \in 1..n
             /\ h[T] = IF T = {} THEN base ELSE F[<<Max(T), h[T \ {Max(T)}]>>]
  <2>1. MaxPick(n)[T] = Max(T)
    BY DEF MaxPick
  <2>2. h[T] = FoldStep(F, base, MaxPick(n), h, T)
    BY <1>1 DEF IsFold
  <2>3. T # {} => Max(T) \in 1..n
    BY MaxExists
  <2> QED
    BY <2>1, <2>2, <2>3 DEF FoldStep
<1>3. h \in [SUBSET (1..n) -> V]
  BY <1>1 DEF IsFold
<1> QED
  BY <1>2, <1>3 DEF IsLeftFold

\* Whatever solves the equations of a left fold goes through its elements one by
\* one.
LEMMA LeftFold ==
  ASSUME NEW n \in Nat, NEW V, NEW base \in V, NEW F, Adds(1..n, V, F),
         NEW g, FoldsLeft(n, V, F, base, g)
  PROVE  StepByStep(n, V, F, base, g)
<1>1. \A T \in SUBSET (1..n) : MaxPick(n)[T] = Max(T)
  BY DEF MaxPick
<1>2. \A T \in SUBSET (1..n) : T # {} => Max(T) \in 1..n
  BY MaxExists
<1>3. \A T \in SUBSET (1..n) : T # {} /\ g[T \ {MaxPick(n)[T]}] \in V
         => g[T] = F[<<MaxPick(n)[T], g[T \ {MaxPick(n)[T]}]>>]
  BY <1>1, <1>2 DEF FoldsLeft
<1>4. Picks(1..n, MaxPick(n)) /\ IsFiniteSet(1..n)
  BY MaxPicks
<1>5. g = [S \in SUBSET (1..n) |-> g[S]] /\ g[{}] = base
  BY DEF FoldsLeft
<1>6. IsFold(1..n, V, F, base, MaxPick(n), g)
  BY <1>3, <1>4, <1>5, FoldTyped
<1> QED
  BY <1>6, MaxFold DEF StepByStep

-----------------------------------------------------------------------------
(* Sums over a finite set.  The fold takes the elements in an order of its    *)
(* own; the sum does not depend on it.                                        *)
Sum(w, S) == MapThenSumSet(LAMBDA x : w[x], S)

OneOf(T) == CHOOSE x \in T : TRUE

SumRec(w, S, g) ==
  [T \in SUBSET S |-> IF T = {} THEN 0 ELSE w[OneOf(T)] + g[T \ {OneOf(T)}]]
SumOn(w, S) == CHOOSE g : g = SumRec(w, S, g)

Weighs(w, D) == \A x \in D : w[x] \in Nat

IsSum(w, D, h) ==
  /\ h \in [SUBSET D -> Nat]
  /\ \A T \in SUBSET D : h[T] = IF T = {} THEN 0 ELSE w[OneOf(T)] + h[T \ {OneOf(T)}]

\* The sum of MapThenSumSet, as the function by which it is defined.
LEMMA SumUnfold ==
  ASSUME NEW w, NEW S
  PROVE  Sum(w, S) = SumOn(w, S)[S]
BY DEF Sum, MapThenSumSet, MapThenFoldSet, SumOn, SumRec, OneOf

\* That function satisfies its equations.
LEMMA SumIsSum ==
  ASSUME NEW S, IsFiniteSet(S), NEW w, Weighs(w, S)
  PROVE  IsSum(w, S, SumOn(w, S))
<1> DEFINE F == [p \in S \X Nat |-> w[p[1]] + p[2]]
           pick == [T \in SUBSET S |-> OneOf(T)]
           W == SumOn(w, S)
<1>1. Picks(S, pick) /\ \A T \in SUBSET S : pick[T] = OneOf(T)
  BY DEF Picks, OneOf
<1>2. \A x \in S, n \in Nat : F[<<x, n>>] = w[x] + n
  OBVIOUS
<1>3. Adds(S, Nat, F)
  BY DEF Adds, Weighs
<1>4. \A T \in SUBSET S : T # {} => OneOf(T) \in S
  BY DEF OneOf
<1> HIDE DEF F, pick
<1>5. PICK h : IsFold(S, Nat, F, 0, pick, h)
  BY <1>1, <1>3, FoldExists
<1>6. ASSUME NEW T \in SUBSET S
      PROVE  h[T] = IF T = {} THEN 0 ELSE w[OneOf(T)] + h[T \ {OneOf(T)}]
  <2>1. T \ {OneOf(T)} \in SUBSET S
    OBVIOUS
  <2>2. h[T \ {OneOf(T)}] \in Nat
    BY <1>5, <2>1 DEF IsFold
  <2>3. h[T] = IF T = {} THEN 0 ELSE F[<<OneOf(T), h[T \ {OneOf(T)}]>>]
    BY <1>1, <1>5 DEF IsFold, FoldStep
  <2> QED
    BY <1>2, <1>4, <2>2, <2>3
<1>7. h = SumRec(w, S, h)
  BY <1>5, <1>6 DEF SumRec, IsFold
<1>8. W = SumRec(w, S, W)
  BY <1>7 DEF SumOn
<1> HIDE DEF W
<1>9. /\ W = [T \in SUBSET S |-> W[T]]
      /\ \A T \in SUBSET S : W[T] = IF T = {} THEN 0 ELSE w[OneOf(T)] + W[T \ {OneOf(T)}]
  BY <1>8 DEF SumRec
<1>w. \A T \in SUBSET S : W[T] = IF T = {} THEN 0 ELSE w[OneOf(T)] + W[T \ {OneOf(T)}]
  BY <1>9
<1> DEFINE G == {T \in SUBSET S : W[T] \in Nat}
<1>10. ASSUME NEW T \in SUBSET S, \A U \in SUBSET T : U # T => U \in G
       PROVE  T \in G
  <2> SUFFICES W[T] \in Nat
    OBVIOUS
  <2>1. CASE T = {}
    <3>1. W[T] = 0
      BY <1>w, <2>1
    <3> QED
      BY <3>1
  <2>2. CASE T # {}
    <3>1. OneOf(T) \in T /\ T \ {OneOf(T)} \in SUBSET T /\ T \ {OneOf(T)} # T
      BY <2>2 DEF OneOf
    <3>2. W[T \ {OneOf(T)}] \in Nat /\ w[OneOf(T)] \in Nat
      BY <1>10, <3>1 DEF Weighs
    <3>3. W[T] = w[OneOf(T)] + W[T \ {OneOf(T)}]
      BY <1>w, <2>2
    <3> QED
      BY <3>2, <3>3
  <2> QED
    BY <2>1, <2>2
<1>11. SUBSET S \subseteq G
  <2> HIDE DEF G
  <2> QED
    BY <1>10, SubsetInduction
<1>12. W \in [SUBSET S -> Nat]
  BY <1>9, <1>11
<1> QED
  BY <1>9, <1>12 DEF IsSum, W

\* What the fold gives for a set does not depend on the set it is defined over.
LEMMA SumsAgree ==
  ASSUME NEW D, IsFiniteSet(D), NEW w, Weighs(w, D), NEW T \in SUBSET D
  PROVE  Sum(w, T) = SumOn(w, D)[T]
<1> DEFINE g == SumOn(w, T)
           h == SumOn(w, D)
           G == {U \in SUBSET T : g[U] = h[U]}
<1>1. IsFiniteSet(T) /\ Weighs(w, T)
  BY FS_Subset DEF Weighs
<1>2. IsSum(w, T, g) /\ IsSum(w, D, h)
  BY <1>1, SumIsSum
<1> HIDE DEF g, h
<1>3. ASSUME NEW U \in SUBSET T, \A V \in SUBSET U : V # U => V \in G
      PROVE  U \in G
  <2>1. CASE U = {}
    BY <1>2, <2>1 DEF IsSum
  <2>2. CASE U # {}
    <3>1. OneOf(U) \in U /\ U \ {OneOf(U)} \in SUBSET U /\ U \ {OneOf(U)} # U
      BY <2>2 DEF OneOf
    <3>2. g[U \ {OneOf(U)}] = h[U \ {OneOf(U)}]
      BY <1>3, <3>1
    <3>3. U \in SUBSET D
      OBVIOUS
    <3> QED
      BY <1>2, <2>2, <3>2, <3>3 DEF IsSum
  <2> QED
    BY <2>1, <2>2
<1>4. SUBSET T \subseteq G
  <2> HIDE DEF G
  <2> QED
    BY <1>1, <1>3, SubsetInduction
<1>5. g[T] = h[T]
  BY <1>4
<1> QED
  BY <1>5, SumUnfold DEF g, h

SumFacts(w, D) ==
  /\ Sum(w, {}) = 0
  /\ \A T \in SUBSET D : Sum(w, T) \in Nat
  /\ \A T \in SUBSET D : T # {} => Sum(w, T) = w[OneOf(T)] + Sum(w, T \ {OneOf(T)})

\* A sum is a natural number, and what one summand adds to the sum of the rest.
LEMMA SumSteps ==
  ASSUME NEW D, IsFiniteSet(D), NEW w, Weighs(w, D)
  PROVE  SumFacts(w, D)
<1> DEFINE h == SumOn(w, D)
<1>1. IsSum(w, D, h)
  BY SumIsSum
<1>2. \A T \in SUBSET D : Sum(w, T) = h[T]
  BY SumsAgree
<1> HIDE DEF h
<1>3. {} \in SUBSET D /\ \A T \in SUBSET D : T \ {OneOf(T)} \in SUBSET D
  OBVIOUS
<1> QED
  BY <1>1, <1>2, <1>3 DEF IsSum, SumFacts

SumAdds(w, D) ==
  \A T \in SUBSET D : \A x \in T : Sum(w, T) = w[x] + Sum(w, T \ {x})

\* OneOf element may be taken first.
LEMMA SumAdd ==
  ASSUME NEW D, IsFiniteSet(D), NEW w, Weighs(w, D)
  PROVE  SumAdds(w, D)
<1> DEFINE G == {T \in SUBSET D : \A x \in T : Sum(w, T) = w[x] + Sum(w, T \ {x})}
<1>1. SumFacts(w, D)
  BY SumSteps
<1>2. ASSUME NEW T \in SUBSET D, \A U \in SUBSET T : U # T => U \in G
      PROVE  T \in G
  <2> SUFFICES ASSUME NEW x \in T PROVE Sum(w, T) = w[x] + Sum(w, T \ {x})
    OBVIOUS
  <2> DEFINE p == OneOf(T)
             A == T \ {p}
             B == T \ {x}
             C == (T \ {p}) \ {x}
  <2>1. p \in T /\ Sum(w, T) = w[p] + Sum(w, A)
    BY <1>1 DEF SumFacts, OneOf
  <2> HIDE DEF p
  <2>2. CASE p = x
    BY <2>1, <2>2
  <2>3. CASE p # x
    <3>1. A \in SUBSET T /\ A # T /\ x \in A /\ B \in SUBSET T /\ B # T /\ p \in B /\ B \ {p} = C
      BY <2>1, <2>3
    <3>2. Sum(w, A) = w[x] + Sum(w, C) /\ Sum(w, B) = w[p] + Sum(w, C)
      BY <1>2, <3>1
    <3>3. Sum(w, C) \in Nat /\ w[x] \in Nat /\ w[p] \in Nat
      <4>1. C \in SUBSET D /\ x \in D /\ p \in D
        BY <2>1
      <4> QED
        BY <1>1, <4>1 DEF SumFacts, Weighs
    <3> QED
      BY <2>1, <3>2, <3>3
  <2> QED
    BY <2>2, <2>3
<1>3. SUBSET D \subseteq G
  <2> HIDE DEF G
  <2> QED
    BY <1>2, SubsetInduction
<1> QED
  BY <1>3 DEF SumAdds

AtMost(v, w, D) == \A x \in D : v[x] <= w[x]

\* Smaller summands give a smaller sum.
LEMMA SumGrows ==
  ASSUME NEW D, IsFiniteSet(D), NEW v, NEW w, Weighs(v, D), Weighs(w, D), AtMost(v, w, D)
  PROVE  Sum(v, D) <= Sum(w, D)
<1> DEFINE G == {T \in SUBSET D : Sum(v, T) <= Sum(w, T)}
<1>1. SumFacts(v, D) /\ SumFacts(w, D)
  BY SumSteps
<1>2. ASSUME NEW T \in SUBSET D, \A U \in SUBSET T : U # T => U \in G
      PROVE  T \in G
  <2>1. CASE T = {}
    BY <1>1, <2>1 DEF SumFacts
  <2>2. CASE T # {}
    <3> DEFINE p == OneOf(T)
               A == T \ {p}
    <3>1. p \in T /\ A \in SUBSET T /\ A # T /\ A \in SUBSET D
      BY <2>2 DEF OneOf
    <3>2. Sum(v, T) = v[p] + Sum(v, A) /\ Sum(w, T) = w[p] + Sum(w, A)
      BY <1>1, <2>2 DEF SumFacts
    <3> HIDE DEF p
    <3>3. Sum(v, A) <= Sum(w, A) /\ v[p] <= w[p]
      BY <1>2, <3>1 DEF AtMost
    <3>4. Sum(v, A) \in Nat /\ Sum(w, A) \in Nat /\ v[p] \in Nat /\ w[p] \in Nat
      BY <1>1, <3>1 DEF SumFacts, Weighs
    <3> QED
      BY <3>2, <3>3, <3>4
  <2> QED
    BY <2>1, <2>2
<1>3. SUBSET D \subseteq G
  <2> HIDE DEF G
  <2> QED
    BY <1>2, SubsetInduction
<1> QED
  BY <1>3

\* Equal summands give an equal sum.
LEMMA SumSame ==
  ASSUME NEW D, IsFiniteSet(D), NEW v, NEW w, Weighs(v, D), \A x \in D : v[x] = w[x]
  PROVE  Sum(v, D) = Sum(w, D)
<1>1. Weighs(w, D) /\ AtMost(v, w, D) /\ AtMost(w, v, D)
  BY DEF Weighs, AtMost
<1>2. Sum(v, D) <= Sum(w, D) /\ Sum(w, D) <= Sum(v, D)
  BY <1>1, SumGrows
<1>3. Sum(v, D) \in Nat /\ Sum(w, D) \in Nat
  BY <1>1, SumSteps DEF SumFacts
<1> QED
  BY <1>2, <1>3

\* Summands that are zero may be left out.
LEMMA SumOfSome ==
  ASSUME NEW D, IsFiniteSet(D), NEW S \in SUBSET D, NEW w, Weighs(w, D), \A x \in D \ S : w[x] = 0
  PROVE  Sum(w, S) = Sum(w, D)
<1> DEFINE G == {T \in SUBSET D : Sum(w, T \cap S) = Sum(w, T)}
<1>1. SumFacts(w, D) /\ SumAdds(w, D)
  BY SumSteps, SumAdd
<1>2. ASSUME NEW T \in SUBSET D, \A U \in SUBSET T : U # T => U \in G
      PROVE  T \in G
  <2> SUFFICES Sum(w, T \cap S) = Sum(w, T)
    OBVIOUS
  <2>1. CASE T = {}
    <3>1. T \cap S = T
      BY <2>1
    <3> QED
      BY <3>1
  <2>2. CASE T # {}
    <3> DEFINE p == OneOf(T)
               A == T \ {p}
    <3>1. p \in T /\ A \in SUBSET T /\ A # T /\ A \in SUBSET D /\ A \cap S \in SUBSET D
      BY <2>2 DEF OneOf
    <3>2. Sum(w, T) = w[p] + Sum(w, A)
      BY <1>1, <2>2 DEF SumFacts
    <3> HIDE DEF p
    <3>3. Sum(w, A \cap S) = Sum(w, A) /\ Sum(w, A) \in Nat
      BY <1>1, <1>2, <3>1 DEF SumFacts
    <3>4. CASE p \in S
      <4>1. T \cap S \in SUBSET D /\ p \in T \cap S /\ (T \cap S) \ {p} = A \cap S
        BY <3>1, <3>4
      <4>2. Sum(w, T \cap S) = w[p] + Sum(w, A \cap S)
        BY <1>1, <4>1 DEF SumAdds
      <4> QED
        BY <3>2, <3>3, <4>2
    <3>5. CASE p \notin S
      <4>1. T \cap S = A \cap S /\ w[p] = 0
        BY <3>1, <3>5
      <4>2. Sum(w, T \cap S) = Sum(w, A \cap S)
        BY <4>1, Zenon
      <4>3. Sum(w, T) = Sum(w, A)
        BY <3>2, <3>3, <4>1
      <4> QED
        BY <3>3, <4>2, <4>3, Zenon
    <3> QED
      BY <3>4, <3>5
  <2> QED
    BY <2>1, <2>2
<1>3. SUBSET D \subseteq G
  <2> HIDE DEF G
  <2> QED
    BY <1>2, SubsetInduction
<1>4. D \cap S = S
  OBVIOUS
<1> QED
  BY <1>3, <1>4

\* Smaller sets have smaller sums.
LEMMA SumOfFewer ==
  ASSUME NEW D, IsFiniteSet(D), NEW S \in SUBSET D, NEW w, Weighs(w, D)
  PROVE  Sum(w, S) <= Sum(w, D)
<1> DEFINE v == [x \in D |-> IF x \in S THEN w[x] ELSE 0]
<1>1. Weighs(v, D) /\ AtMost(v, w, D)
  BY DEF Weighs, AtMost
<1>2. /\ \A x \in D \ S : v[x] = 0
      /\ \A x \in S : v[x] = w[x]
  OBVIOUS
<1> HIDE DEF v
<1>3. Sum(v, D) <= Sum(w, D)
  BY <1>1, SumGrows
<1>4. Sum(v, S) = Sum(v, D)
  BY <1>1, <1>2, SumOfSome
<1>5. Sum(v, S) = Sum(w, S)
  BY <1>1, <1>2, SumSame, FS_Subset DEF Weighs
<1> QED
  BY <1>3, <1>4, <1>5

\* One summand that is greater by k makes the sum greater by k.
LEMMA SumMore ==
  ASSUME NEW D, IsFiniteSet(D), NEW v, NEW w, Weighs(v, D), Weighs(w, D), NEW c \in D, NEW k \in Nat,
         w[c] = k + v[c], \A x \in D \ {c} : w[x] = v[x]
  PROVE  Sum(w, D) = k + Sum(v, D)
<1>1. SumAdds(v, D) /\ SumAdds(w, D) /\ SumFacts(v, D)
  BY SumAdd, SumSteps
<1>2. Sum(w, D) = w[c] + Sum(w, D \ {c}) /\ Sum(v, D) = v[c] + Sum(v, D \ {c})
  BY <1>1 DEF SumAdds
<1>3. Sum(w, D \ {c}) = Sum(v, D \ {c})
  <2>1. IsFiniteSet(D \ {c}) /\ Weighs(w, D \ {c})
    BY FS_Subset DEF Weighs
  <2> QED
    BY <2>1, SumSame
<1>4. Sum(v, D \ {c}) \in Nat /\ v[c] \in Nat
  BY <1>1 DEF SumFacts, Weighs
<1> QED
  BY <1>2, <1>3, <1>4

\* What the elements of T that f takes to b weigh.
Shares(w, f, T, B) == [b \in B |-> Sum(w, {x \in T : f[x] = b})]

\* The parts into which f divides a set weigh as much as the set.
LEMMA SumOfParts ==
  ASSUME NEW D, IsFiniteSet(D), NEW w, Weighs(w, D), NEW B, IsFiniteSet(B), NEW f,
         \A x \in D : f[x] \in B
  PROVE  Weighs(Shares(w, f, D, B), B) /\ Sum(Shares(w, f, D, B), B) = Sum(w, D)
<1> DEFINE v(T) == Shares(w, f, T, B)
           G == {T \in SUBSET D : Sum(v(T), B) = Sum(w, T)}
<1>1. SumFacts(w, D) /\ SumAdds(w, D)
  BY SumSteps, SumAdd
<1>2. \A T \in SUBSET D : \A b \in B : v(T)[b] = Sum(w, {x \in T : f[x] = b})
  BY DEF Shares
<1>3. \A T \in SUBSET D : Weighs(v(T), B)
  <2> SUFFICES ASSUME NEW T \in SUBSET D, NEW b \in B PROVE v(T)[b] \in Nat
    BY DEF Weighs
  <2>1. {x \in T : f[x] = b} \in SUBSET D
    OBVIOUS
  <2> QED
    BY <1>1, <1>2, <2>1 DEF SumFacts
<1> HIDE DEF v
<1>4. ASSUME NEW T \in SUBSET D, \A U \in SUBSET T : U # T => U \in G
      PROVE  T \in G
  <2> SUFFICES Sum(v(T), B) = Sum(w, T)
    OBVIOUS
  <2>1. CASE T = {}
    <3>1. \A b \in B : {x \in T : f[x] = b} = T
      BY <2>1
    <3>2. \A b \in B : v(T)[b] = 0
      BY <1>1, <1>2, <2>1, <3>1 DEF SumFacts
    <3>3. Sum(v(T), {}) = Sum(v(T), B)
      BY <1>3, <3>2, SumOfSome
    <3>4. Sum(v(T), {}) = 0
      BY <1>3, SumSteps DEF SumFacts
    <3> QED
      BY <1>1, <2>1, <3>3, <3>4 DEF SumFacts
  <2>2. CASE T # {}
    <3> DEFINE p == OneOf(T)
               A == T \ {p}
    <3>1. p \in T /\ p \in D /\ A \in SUBSET T /\ A # T /\ A \in SUBSET D /\ f[p] \in B
      BY <2>2 DEF OneOf
    <3>2. Sum(w, T) = w[p] + Sum(w, A) /\ w[p] \in Nat
      BY <1>1, <2>2, <3>1 DEF SumFacts, Weighs
    <3> HIDE DEF p
    <3>3. Sum(v(A), B) = Sum(w, A)
      BY <1>4, <3>1
    <3>4. v(T)[f[p]] = w[p] + v(A)[f[p]]
      <4> DEFINE P == {x \in T : f[x] = f[p]}
      <4>1. P \in SUBSET D /\ p \in P /\ P \ {p} = {x \in A : f[x] = f[p]}
        BY <3>1
      <4>2. v(T)[f[p]] = Sum(w, P) /\ v(A)[f[p]] = Sum(w, P \ {p})
        BY <1>2, <3>1, <4>1
      <4> HIDE DEF P
      <4> QED
        BY <1>1, <4>1, <4>2 DEF SumAdds
    <3>5. \A b \in B \ {f[p]} : v(T)[b] = v(A)[b]
      <4> TAKE b \in B \ {f[p]}
      <4>1. {x \in T : f[x] = b} = {x \in A : f[x] = b}
        BY <3>1
      <4> HIDE DEF A
      <4>2. v(A)[b] = Sum(w, {x \in A : f[x] = b})
        BY <1>2, <3>1
      <4>3. v(T)[b] = Sum(w, {x \in T : f[x] = b})
        BY <1>2
      <4> QED
        BY <4>1, <4>2, <4>3
    <3> HIDE DEF A
    <3>6. Sum(v(T), B) = w[p] + Sum(v(A), B)
      BY <1>3, <3>1, <3>2, <3>4, <3>5, SumMore
    <3> QED
      BY <3>2, <3>3, <3>6
  <2> QED
    BY <2>1, <2>2
<1>5. SUBSET D \subseteq G
  <2> HIDE DEF G
  <2> QED
    BY <1>4, SubsetInduction
<1> QED
  BY <1>3, <1>5 DEF v

Ones(D) == [x \in D |-> 1]

\* A set has as many elements as it has ones.
LEMMA SumOfOnes ==
  ASSUME NEW D, IsFiniteSet(D)
  PROVE  Weighs(Ones(D), D) /\ \A T \in SUBSET D : Sum(Ones(D), T) = Cardinality(T)
<1> DEFINE w == Ones(D)
           G == {T \in SUBSET D : Sum(w, T) = Cardinality(T)}
<1>1. Weighs(w, D) /\ \A x \in D : w[x] = 1
  BY DEF Ones, Weighs
<1> HIDE DEF w
<1>2. SumFacts(w, D)
  BY <1>1, SumSteps
<1>3. ASSUME NEW T \in SUBSET D, \A U \in SUBSET T : U # T => U \in G
      PROVE  T \in G
  <2> SUFFICES Sum(w, T) = Cardinality(T)
    OBVIOUS
  <2>1. CASE T = {}
    BY <1>2, <2>1, FS_EmptySet DEF SumFacts
  <2>2. CASE T # {}
    <3> DEFINE p == OneOf(T)
               A == T \ {p}
    <3>1. p \in T /\ A \in SUBSET T /\ A # T
      BY <2>2 DEF OneOf
    <3>2. Sum(w, T) = w[p] + Sum(w, A)
      BY <1>2, <2>2 DEF SumFacts
    <3> HIDE DEF p
    <3>3. IsFiniteSet(T)
      BY FS_Subset
    <3>4. Cardinality(A) = Cardinality(T) - 1 /\ Cardinality(T) \in Nat
      BY <3>1, <3>3, FS_RemoveElement, FS_CardinalityType
    <3>5. w[p] = 1 /\ Sum(w, A) = Cardinality(A)
      BY <1>1, <1>3, <3>1
    <3> QED
      BY <3>2, <3>4, <3>5
  <2> QED
    BY <2>1, <2>2
<1>4. SUBSET D \subseteq G
  <2> HIDE DEF G
  <2> QED
    BY <1>3, SubsetInduction
<1> QED
  BY <1>1, <1>4 DEF w
=============================================================================
