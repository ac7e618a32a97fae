---------------------------- MODULE FormWalkProofs ----------------------------
(***************************************************************************)
(* Theorems about FormLogic and FormWalk, for every form, token and answer. *)
(*                                                                          *)
(* The engine is made of recursive functions over the steps of a form.      *)
(* What is said of them rests on the least element of a set of numbers:     *)
(* the definitions determine one function each, and what it does at a step  *)
(* follows from what it does at the step before (or after) it.              *)
(***************************************************************************)
EXTENDS FormWalk, FormConditionsProofs, FiniteSetTheorems, TLAPS

-----------------------------------------------------------------------------
(* Numbers.                                                                 *)

\* A set of numbers that is not empty has a least element.
LEMMA LeastNumber ==
    ASSUME NEW T \in SUBSET Nat, T # {}
    PROVE  \E n \in T : \A m \in T : n <= m
<1> DEFINE down == {0..n : n \in T}
<1>1. down \subseteq FiniteSubsetsOf(Nat)
  <2>1. \A n \in T : IsFiniteSet(0..n)
    BY FS_Interval
  <2> QED
    BY <2>1 DEF FiniteSubsetsOf
<1>2. down # {}
  OBVIOUS
<1>3. PICK D \in down : \A E \in down : ~(<<E, D>> \in StrictSubsetOrdering(Nat))
  BY <1>1, <1>2, WFMin, FS_StrictSubsetOrderingWellFounded
<1>4. PICK n \in T : D = 0..n
  OBVIOUS
<1>5. ASSUME NEW m \in T, ~(n <= m) PROVE FALSE
  <2>1. 0..m \subseteq 0..n /\ 0..m # 0..n
    BY <1>5
  <2>2. <<0..m, 0..n>> \in StrictSubsetOrdering(Nat)
    BY <2>1 DEF StrictSubsetOrdering
  <2> QED
    BY <1>3, <1>4, <2>2
<1> QED
  BY <1>5

\* A set of numbers that holds 0, and with each number the next, holds all.
LEMMA EveryNumber ==
    ASSUME NEW S, 0 \in S, \A n \in Nat : n \in S => n + 1 \in S
    PROVE  Nat \subseteq S
<1> SUFFICES ASSUME Nat \ S # {} PROVE FALSE
  OBVIOUS
<1>1. PICK n \in Nat \ S : \A m \in Nat \ S : n <= m
  BY LeastNumber
<1>2. n # 0 /\ n - 1 \in Nat /\ ~(n <= n - 1) /\ (n - 1) + 1 = n
  BY <1>1
<1> QED
  BY <1>1, <1>2

\* The least and the greatest element of a set of numbers, bounded for the latter.
LEMMA MinIsLeast ==
    ASSUME NEW T \in SUBSET Nat, T # {}
    PROVE  Min(T) \in T /\ \A m \in T : Min(T) <= m
BY LeastNumber DEF Min

LEMMA MaxIsGreatest ==
    ASSUME NEW T \in SUBSET Nat, T # {}, NEW b \in Nat, \A n \in T : n <= b
    PROVE  Max(T) \in T /\ \A m \in T : m <= Max(T)
<1> DEFINE bounds == {k \in Nat : \A n \in T : n <= k}
<1>1. PICK k \in bounds : \A j \in bounds : k <= j
  BY LeastNumber
<1>2. k \in T
  <2> SUFFICES ASSUME k \notin T PROVE FALSE
    OBVIOUS
  <2>1. PICK n \in T : TRUE
    OBVIOUS
  <2>2. k # 0 /\ k - 1 \in Nat
    BY <2>1
  <2>3. \A m \in T : m <= k - 1
    BY <2>2
  <2> QED
    BY <1>1, <2>2, <2>3
<1>3. \A m \in T : k >= m
  OBVIOUS
<1> QED
  BY <1>2, <1>3 DEF Max

\* A set that holds N + 1, and each smaller number with all those above it,
\* holds 1..N + 1.
LEMMA EveryNumberBack ==
    ASSUME NEW N \in Nat, NEW S, N + 1 \in S,
           \A n \in 1..N : (\A m \in n + 1..N + 1 : m \in S) => n \in S
    PROVE  1..N + 1 \subseteq S
<1> DEFINE T == (1..N + 1) \ S
<1> SUFFICES ASSUME T # {} PROVE FALSE
  OBVIOUS
<1>1. T \in SUBSET Nat /\ \A n \in T : n <= N + 1
  OBVIOUS
<1> HIDE DEF T
<1>2. PICK n \in T : \A m \in T : m <= n
  BY <1>1, MaxIsGreatest, N + 1 \in Nat
<1>3. n \in 1..N /\ \A m \in n + 1..N + 1 : m \in S
  BY <1>2 DEF T
<1> QED
  BY <1>2, <1>3 DEF T

-----------------------------------------------------------------------------
(* Recursive functions.                                                     *)

\* A function over 0..N with its value at 0 and its next value at each step.
HasSteps(N, D, base, s) ==
    \E f \in [0..N -> D] : f[0] = base /\ \A n \in 1..N : f[n] = s[<<n, f[n - 1]>>]

\* ... exists whatever the step is.
LEMMA StepByStep ==
    ASSUME NEW N \in Nat, NEW D, NEW base \in D, NEW s \in [(1..N) \X D -> D]
    PROVE  HasSteps(N, D, base, s)
<1> DEFINE Upto(k, f) == f = [n \in 0..k |-> IF n = 0 THEN base ELSE s[<<n, f[n - 1]>>]]
<1> DEFINE S == {k \in Nat : k <= N => \E f \in [0..k -> D] : Upto(k, f)}
<1>1. 0 \in S
  <2> DEFINE g == [n \in 0..0 |-> base]
  <2>1. g \in [0..0 -> D] /\ Upto(0, g)
    OBVIOUS
  <2> QED
    BY <2>1
<1>2. ASSUME NEW k \in Nat, k \in S PROVE k + 1 \in S
  <2> SUFFICES ASSUME k + 1 <= N PROVE \E f \in [0..k + 1 -> D] : Upto(k + 1, f)
    OBVIOUS
  <2>1. PICK f \in [0..k -> D] : Upto(k, f)
    BY <1>2
  <2> DEFINE g == [n \in 0..k + 1 |-> IF n = k + 1 THEN s[<<k + 1, f[k]>>] ELSE f[n]]
  <2>2. g \in [0..k + 1 -> D]
    <3>1. f[k] \in D /\ k + 1 \in 1..N
      OBVIOUS
    <3>2. s[<<k + 1, f[k]>>] \in D
      BY <3>1
    <3> QED
      BY <3>2
  <2>3. \A n \in 0..k : g[n] = f[n]
    OBVIOUS
  <2>4. \A n \in 0..k : f[n] = IF n = 0 THEN base ELSE s[<<n, f[n - 1]>>]
    BY <2>1
  <2>5. ASSUME NEW n \in 0..k + 1 PROVE g[n] = IF n = 0 THEN base ELSE s[<<n, g[n - 1]>>]
    <3>1. CASE n = k + 1
      <4>1. g[n - 1] = f[k] /\ n # 0
        BY <2>3, <3>1
      <4> QED
        BY <3>1, <4>1
    <3>2. CASE n = 0
      <4>1. 0 \in 0..k
        OBVIOUS
      <4>2. g[0] = base
        BY <2>3, <2>4, <4>1
      <4> QED
        BY <3>2, <4>2
    <3>3. CASE n \in 1..k
      <4>1. n - 1 \in 0..k /\ n \in 0..k /\ n # 0
        BY <3>3
      <4> QED
        BY <2>3, <2>4, <4>1
    <3> QED
      BY <3>1, <3>2, <3>3
  <2>6. Upto(k + 1, g)
    BY <2>5
  <2> QED
    BY <2>2, <2>6
<1> HIDE DEF S
<1>3. N \in S
  BY <1>1, <1>2, EveryNumber
<1>4. PICK f \in [0..N -> D] : Upto(N, f)
  BY <1>3 DEF S
<1>5. 0 \in 0..N /\ \A n \in 1..N : n \in 0..N /\ n # 0
  OBVIOUS
<1>6. f[0] = base /\ \A n \in 1..N : f[n] = s[<<n, f[n - 1]>>]
  BY <1>4, <1>5
<1> QED
  BY <1>6 DEF HasSteps

\* A function over 1..N + 1 that gathers the sets A along the forward jumps nx
HasJumps(N, A, nx) ==
    \E f : f = [n \in 1..N + 1 |-> IF n > N THEN {} ELSE A[n] \cup f[nx[n]]]

\* ... exists.
LEMMA ForwardJumps ==
    ASSUME NEW N \in Nat, NEW A, NEW nx, \A n \in 1..N : nx[n] \in n + 1..N + 1
    PROVE  HasJumps(N, A, nx)
<1> DEFINE Down(k, f) == f = [n \in N + 1 - k..N + 1 |-> IF n > N THEN {} ELSE A[n] \cup f[nx[n]]]
<1> DEFINE S == {k \in Nat : k <= N => \E f : Down(k, f)}
<1>1. 0 \in S
  <2> DEFINE g == [n \in N + 1 - 0..N + 1 |-> {}]
  <2>1. Down(0, g)
    OBVIOUS
  <2> QED
    BY <2>1
<1>2. ASSUME NEW k \in Nat, k \in S PROVE k + 1 \in S
  <2> SUFFICES ASSUME k + 1 <= N PROVE \E f : Down(k + 1, f)
    OBVIOUS
  <2>1. PICK f : Down(k, f)
    BY <1>2
  <2> DEFINE p == N - k
  <2>0. p \in 1..N /\ N + 1 - (k + 1) = p /\ N + 1 - k = p + 1
    OBVIOUS
  <2> DEFINE g == [n \in p..N + 1 |-> IF n = p THEN A[p] \cup f[nx[p]] ELSE f[n]]
  <2>3. \A n \in p + 1..N + 1 : g[n] = f[n]
    BY <2>0
  <2>4. \A n \in p + 1..N + 1 : f[n] = IF n > N THEN {} ELSE A[n] \cup f[nx[n]]
    BY <2>0, <2>1
  <2>5. ASSUME NEW n \in p..N + 1 PROVE g[n] = IF n > N THEN {} ELSE A[n] \cup g[nx[n]]
    <3>1. CASE n = p
      <4>1. nx[p] \in p + 1..N + 1 /\ ~(p > N)
        BY <2>0
      <4> QED
        BY <2>0, <2>3, <3>1, <4>1
    <3>2. CASE n \in p + 1..N
      <4>1. nx[n] \in n + 1..N + 1
        BY <2>0, <3>2
      <4>2. nx[n] \in p + 1..N + 1 /\ ~(n > N) /\ n \in p + 1..N + 1
        BY <2>0, <3>2, <4>1
      <4> QED
        BY <2>3, <2>4, <4>2
    <3>3. CASE n = N + 1
      <4>1. n \in p + 1..N + 1 /\ n > N
        BY <2>0, <3>3
      <4>2. f[n] = {}
        BY <2>4, <4>1
      <4> QED
        BY <2>3, <4>1, <4>2
    <3> QED
      BY <2>0, <3>1, <3>2, <3>3
  <2>6. Down(k + 1, g)
    BY <2>0, <2>5
  <2> QED
    BY <2>6
<1> HIDE DEF S
<1>3. N \in S
  BY <1>1, <1>2, EveryNumber
<1> QED
  BY <1>3 DEF S, HasJumps

-----------------------------------------------------------------------------
(* Visibility.                                                              *)

\* A step is visible when its rules say so of the score of the visible steps
\* before it.
LEMMA VisibleMeans ==
    ASSUME NEW f, Len(f.steps) \in Nat, NEW a
    PROVE  /\ VisibleSteps(f, a) \subseteq Positions(f)
           /\ \A n \in Positions(f) :
                 n \in VisibleSteps(f, a)
                   <=> Appears(f, a, n, Total(f, a, {m \in VisibleSteps(f, a) : m < n}))
<1> DEFINE N == Len(f.steps)
           D == SUBSET (1..N)
           Admits(n, X) == Appears(f, a, n, Total(f, a, X))
           After(n, X) == IF Admits(n, X) THEN X \cup {n} ELSE X
           Seen(g) == g = [n \in 0..N |-> IF n = 0 THEN {} ELSE After(n, g[n - 1])]
           seen == CHOOSE g : Seen(g)
<1>1. VisibleSteps(f, a) = seen[N]
  BY DEF VisibleSteps
<1> HIDE DEF Admits
<1>2. \E g : Seen(g)
  <2> DEFINE s == [p \in (1..N) \X D |-> After(p[1], p[2])]
  <2>1. \A n \in 1..N, X \in D : s[<<n, X>>] = After(n, X) /\ After(n, X) \in D
    OBVIOUS
  <2> HIDE DEF s
  <2>2. {} \in D
    OBVIOUS
  <2>3. HasSteps(N, D, {}, s)
    <3>1. s \in [(1..N) \X D -> D]
      <4>1. \A p \in (1..N) \X D : After(p[1], p[2]) \in D
        BY <2>1
      <4> HIDE DEF After, D
      <4> QED
        BY <4>1 DEF s
    <3>2. N \in Nat
      OBVIOUS
    <3> HIDE DEF D, N, After
    <3> QED
      BY <2>2, <3>1, <3>2, StepByStep
  <2>4. PICK g \in [0..N -> D] : g[0] = {} /\ \A n \in 1..N : g[n] = s[<<n, g[n - 1]>>]
    BY <2>3 DEF HasSteps
  <2>5. \A n \in 0..N : n # 0 => g[n - 1] \in D /\ n \in 1..N
    <3>1. \A n \in 0..N : n # 0 => n - 1 \in 0..N /\ n \in 1..N
      OBVIOUS
    <3> QED
      BY <3>1
  <2>6. \A n \in 0..N : n # 0 => s[<<n, g[n - 1]>>] = After(n, g[n - 1])
    BY <2>1, <2>5
  <2>7. Seen(g)
    <3> HIDE DEF After
    <3> QED
      BY <2>4, <2>5, <2>6
  <2> QED
    BY <2>7
<1>3. Seen(seen)
  BY <1>2
<1> HIDE DEF seen
<1>4. /\ seen[0] = {}
      /\ \A n \in 1..N : seen[n] = After(n, seen[n - 1])
  <2>1. 0 \in 0..N /\ \A n \in 1..N : n \in 0..N /\ n # 0
    OBVIOUS
  <2> HIDE DEF After
  <2> QED
    BY <1>3, <2>1
<1> DEFINE Fixed == {k \in Nat : k <= N => /\ seen[k] \subseteq 1..k
                                           /\ \A n \in 0..k : seen[n] = {m \in seen[k] : m <= n}}
<1>5. 0 \in Fixed
  BY <1>4
<1>6. ASSUME NEW k \in Nat, k \in Fixed PROVE k + 1 \in Fixed
  <2> SUFFICES ASSUME k + 1 <= N
               PROVE  /\ seen[k + 1] \subseteq 1..k + 1
                      /\ \A n \in 0..k + 1 : seen[n] = {m \in seen[k + 1] : m <= n}
    OBVIOUS
  <2>1. seen[k] \subseteq 1..k /\ \A n \in 0..k : seen[n] = {m \in seen[k] : m <= n}
    BY <1>6
  <2>2. seen[k + 1] = seen[k] \/ seen[k + 1] = seen[k] \cup {k + 1}
    <3>1. k + 1 \in 1..N /\ (k + 1) - 1 = k
      OBVIOUS
    <3> QED
      BY <1>4, <3>1
  <2>3. seen[k + 1] \subseteq 1..k + 1
    BY <2>1, <2>2
  <2>4. ASSUME NEW n \in 0..k PROVE seen[n] = {m \in seen[k + 1] : m <= n}
    BY <2>1, <2>2
  <2>5. seen[k + 1] = {m \in seen[k + 1] : m <= k + 1}
    BY <2>3
  <2> QED
    BY <2>3, <2>4, <2>5
<1> HIDE DEF Fixed
<1>7. N \in Fixed
  BY <1>5, <1>6, EveryNumber
<1>8. /\ seen[N] \subseteq 1..N
      /\ \A n \in 0..N : seen[n] = {m \in seen[N] : m <= n}
  BY <1>7 DEF Fixed
<1>9. ASSUME NEW n \in 1..N PROVE n \in seen[N] <=> Admits(n, {m \in seen[N] : m < n})
  <2>1. n - 1 \in 0..N /\ n \in 0..N
    OBVIOUS
  <2>2. seen[n - 1] = {m \in seen[N] : m < n}
    <3>1. seen[n - 1] = {m \in seen[N] : m <= n - 1}
      BY <1>8, <2>1
    <3>2. \A m \in seen[N] : m <= n - 1 <=> m < n
      BY <1>8
    <3> QED
      BY <3>1, <3>2
  <2>3. n \in seen[N] <=> n \in seen[n]
    BY <1>8, <2>1
  <2>4. n \notin seen[n - 1]
    BY <2>2
  <2>5. seen[n] = After(n, seen[n - 1])
    BY <1>4
  <2>6. n \in After(n, seen[n - 1]) <=> Admits(n, seen[n - 1])
    BY <2>4
  <2> QED
    BY <2>2, <2>3, <2>5, <2>6
<1> QED
  BY <1>1, <1>8, <1>9 DEF Positions, Admits

-----------------------------------------------------------------------------
(* Scores.                                                                  *)

Pick(s) == CHOOSE x \in s : TRUE

\* What MapThenSumSet computes of every part of S.
Sums(S, w, g) ==
    g = [s \in SUBSET S |-> IF s = {} THEN 0 ELSE w[Pick(s)] + g[s \ {Pick(s)}]]

\* The parts of a finite set with at most k elements.
Small(S, k) == {s \in SUBSET S : Cardinality(s) <= k}

LEMMA PickSmaller ==
    ASSUME NEW S, IsFiniteSet(S), NEW k \in Nat, NEW s \in SUBSET S, s # {},
           Cardinality(s) <= k + 1
    PROVE  Pick(s) \in s /\ s \ {Pick(s)} \in Small(S, k)
<1>1. Pick(s) \in s
  BY DEF Pick
<1>2. IsFiniteSet(s) /\ Cardinality(s) \in Nat
  BY FS_Subset, FS_CardinalityType
<1>3. Cardinality(s \ {Pick(s)}) = Cardinality(s) - 1
  BY <1>1, <1>2, FS_RemoveElement
<1> QED
  BY <1>1, <1>2, <1>3 DEF Small

LEMMA SumExists ==
    ASSUME NEW S, IsFiniteSet(S), NEW w
    PROVE  \E g : Sums(S, w, g)
<1> DEFINE Part(k, g) ==
              g = [s \in Small(S, k) |-> IF s = {} THEN 0 ELSE w[Pick(s)] + g[s \ {Pick(s)}]]
           K == {k \in Nat : \E g : Part(k, g)}
<1>0. /\ \A s \in SUBSET S : IsFiniteSet(s) /\ Cardinality(s) \in Nat
      /\ \A s \in SUBSET S : Cardinality(s) = 0 <=> s = {}
  BY FS_Subset, FS_CardinalityType, FS_EmptySet
<1>1. 0 \in K
  <2>1. \A s \in Small(S, 0) : s = {}
    BY <1>0 DEF Small
  <2> DEFINE g == [s \in Small(S, 0) |-> 0]
  <2>2. Part(0, g)
    BY <2>1
  <2> QED
    BY <2>2
<1>2. ASSUME NEW k \in Nat, k \in K PROVE k + 1 \in K
  <2>1. PICK h : Part(k, h)
    BY <1>2
  <2> DEFINE g == [s \in Small(S, k + 1) |-> IF s = {} THEN 0 ELSE w[Pick(s)] + h[s \ {Pick(s)}]]
  <2>2. \A s \in Small(S, k) : s \in Small(S, k + 1)
    BY <1>0 DEF Small
  <2>3. \A s \in Small(S, k) : g[s] = h[s]
    BY <2>1, <2>2
  <2>4. ASSUME NEW s \in Small(S, k + 1), s # {} PROVE g[s \ {Pick(s)}] = h[s \ {Pick(s)}]
    BY <2>3, <2>4, PickSmaller DEF Small
  <2>5. Part(k + 1, g)
    BY <2>4
  <2> HIDE DEF Part, g
  <2> QED
    BY <2>5
<1> HIDE DEF K
<1>3. Cardinality(S) \in K
  BY <1>0, <1>1, <1>2, EveryNumber
<1>4. Small(S, Cardinality(S)) = SUBSET S
  BY FS_Subset DEF Small
<1> QED
  BY <1>3, <1>4 DEF K, Sums

LEMMA SumIsInt ==
    ASSUME NEW S, IsFiniteSet(S), NEW w, \A x \in S : w[x] \in Int, NEW g, Sums(S, w, g)
    PROVE  g[S] \in Int
<1> DEFINE K == {k \in Nat : \A s \in Small(S, k) : g[s] \in Int}
<1>0. /\ \A s \in SUBSET S : IsFiniteSet(s) /\ Cardinality(s) \in Nat
      /\ \A s \in SUBSET S : Cardinality(s) = 0 <=> s = {}
  BY FS_Subset, FS_CardinalityType, FS_EmptySet
<1>1. \A s \in SUBSET S : g[s] = IF s = {} THEN 0 ELSE w[Pick(s)] + g[s \ {Pick(s)}]
  BY DEF Sums
<1>2. 0 \in K
  <2>1. \A s \in Small(S, 0) : s = {} /\ s \in SUBSET S
    BY <1>0 DEF Small
  <2>2. g[{}] = 0
    BY <1>1
  <2> QED
    BY <2>1, <2>2
<1>3. ASSUME NEW k \in Nat, k \in K PROVE k + 1 \in K
  <2> SUFFICES ASSUME NEW s \in Small(S, k + 1) PROVE g[s] \in Int
    OBVIOUS
  <2>1. CASE s = {}
    BY <1>1, <2>1
  <2>2. CASE s # {}
    <3>1. s \in SUBSET S /\ Pick(s) \in S /\ s \ {Pick(s)} \in Small(S, k)
      BY <2>2, PickSmaller DEF Small
    <3>2. g[s \ {Pick(s)}] \in Int /\ w[Pick(s)] \in Int
      BY <1>3, <3>1
    <3> QED
      BY <1>1, <2>2, <3>1, <3>2
  <2> QED
    BY <2>1, <2>2
<1> HIDE DEF K
<1>4. Cardinality(S) \in K
  BY <1>0, <1>2, <1>3, EveryNumber
<1> QED
  BY <1>0, <1>4 DEF K, Small

SumOver(w, S) == MapThenSumSet(LAMBDA x : w[x], S)

\* The sum of integers over a finite set is an integer.
LEMMA TotalOfInts ==
    ASSUME NEW S, IsFiniteSet(S), NEW w, \A x \in S : w[x] \in Int
    PROVE  SumOver(w, S) \in Int
<1> DEFINE total == CHOOSE g : Sums(S, w, g)
<1>1. SumOver(w, S) = total[S]
  BY DEF SumOver, MapThenSumSet, MapThenFoldSet, Sums, Pick
<1>2. Sums(S, w, total)
  BY SumExists
<1> QED
  BY <1>1, <1>2, SumIsInt

\* The steps of a form are steps.
LEMMA StepsType ==
    ASSUME NEW f, f.steps \in Seq(Step)
    PROVE  /\ Len(f.steps) \in Nat
           /\ \A n \in Positions(f) : f.steps[n] \in Step
  BY DEF Positions

\* An answer is a value, made of finitely many tokens.
LEMMA AnswersType ==
    ASSUME NEW f, NEW a \in Answers(f)
    PROVE  /\ DOMAIN a = Positions(f)
           /\ \A n \in Positions(f) : /\ a[n].picks \subseteq Tokens /\ IsFiniteSet(a[n].picks)
                                      /\ WellFormed(a[n]) /\ a[n] \in Value
<1>1. /\ a \in [Positions(f) -> [list: BOOLEAN, picks: SUBSET Tokens]]
      /\ \A n \in Positions(f) : WellFormed(a[n])
  BY DEF Answers
<1>2. \A n \in Positions(f) : a[n].picks \subseteq Tokens /\ a[n] \in Value
  BY <1>1 DEF WellFormed
<1>3. \A n \in Positions(f) : IsFiniteSet(a[n].picks)
  BY <1>2, TokensAssumption, FS_Subset
<1> QED
  BY <1>1, <1>2, <1>3

\* What a field holds, or nothing.
LEMMA AnswerToType ==
    ASSUME NEW f, NEW a \in Answers(f), NEW x
    PROVE  AnswerTo(a, x) \in Value /\ WellFormed(AnswerTo(a, x))
<1>1. NoAnswer \in Value /\ WellFormed(NoAnswer)
  BY DEF NoAnswer, Value, WellFormed
<1> QED
  BY <1>1, AnswersType DEF AnswerTo

LEMMA StepScoreIsInt ==
    ASSUME NEW step \in Step, NEW v, v.picks \subseteq Tokens, IsFiniteSet(v.picks)
    PROVE  StepScore(step, v) \in Int
<1> DEFINE w == step.points
<1>1. \A t \in v.picks : w[t] \in Int
  BY DEF Step
<1> HIDE DEF w
<1>2. SumOver(w, v.picks) \in Int
  BY <1>1, TotalOfInts
<1> QED
  BY <1>2 DEF StepScore, SumOver, w

\* The running score is an integer.
LEMMA TotalIsInt ==
    ASSUME NEW f, f.steps \in Seq(Step), NEW a \in Answers(f), NEW S \in SUBSET Positions(f)
    PROVE  Total(f, a, S) \in Int
<1> DEFINE Score(n) == StepScore(f.steps[n], a[n])
           w == [n \in S |-> Score(n)]
           Adds(g) == g = [s \in SUBSET S |-> IF s = {} THEN 0 ELSE Score(Pick(s)) + g[s \ {Pick(s)}]]
           total == CHOOSE g : Adds(g)
<1>1. Total(f, a, S) = IF f.scoring THEN total[S] ELSE 0
  BY DEF Total, MapThenSumSet, MapThenFoldSet, Pick
<1>2. \A n \in S : Score(n) \in Int
  BY StepScoreIsInt, StepsType, AnswersType
<1> HIDE DEF Score
<1>3. IsFiniteSet(S) /\ \A n \in S : w[n] = Score(n) /\ w[n] \in Int
  <2>1. 1 \in Int /\ Len(f.steps) \in Int
    BY StepsType
  <2>2. IsFiniteSet(Positions(f))
    BY <2>1, FS_Interval DEF Positions
  <2> QED
    BY <1>2, <2>2, FS_Subset
<1>4. \A s \in SUBSET S : s # {} => w[Pick(s)] = Score(Pick(s))
  BY <1>3 DEF Pick
<1> HIDE DEF w
<1>5. \A g : Adds(g) <=> Sums(S, w, g)
  BY <1>4 DEF Sums
<1>6. Sums(S, w, total)
  <2>1. \E g : Adds(g)
    BY <1>3, <1>5, SumExists
  <2>2. Adds(total)
    BY <2>1
  <2> HIDE DEF total, Adds
  <2> QED
    BY <1>5, <2>2
<1> HIDE DEF total
<1>7. total[S] \in Int
  BY <1>3, <1>6, SumIsInt
<1> QED
  BY <1>1, <1>7

-----------------------------------------------------------------------------
(* The editor's checks.                                                     *)

\* A rule of a step, with the answer it reads and the score it is shown.
LEMMA RuleOfStep ==
    ASSUME NEW f, f.steps \in Seq(Step), NEW n \in Positions(f)
    PROVE  /\ f.steps[n].show \subseteq Condition(Nat) /\ f.steps[n].hide \subseteq Condition(Nat)
           /\ \A c, d \in f.steps[n].show : c = d
           /\ \A c, d \in f.steps[n].hide : c = d
<1> DEFINE step == f.steps[n]
<1>1. step \in Step
  BY StepsType
<1>2. step.show \in Optional(Condition(Nat)) /\ step.hide \in Optional(Condition(Nat))
  BY <1>1 DEF Step
<1> QED
  BY <1>2 DEF Optional

\* What the editor says of a step's rules is what respondents see.
LEMMA ChecksAreTrue ==
    ASSUME NEW f, f.steps \in Seq(Step), NEW a \in Answers(f), NEW n \in Positions(f)
    PROVE  LET visible == VisibleSteps(f, a)
               step == f.steps[n]
               score == Total(f, a, {m \in visible : m < n})
           IN /\ \A s \in step.show : ConditionNeverHolds(s) => n \notin visible
              /\ \A s \in step.show, h \in step.hide :
                    /\ ConditionsContradict(s, h) => n \notin visible
                    /\ \A w \in ConditionsNarrow(s, h) :
                          ~IsHidden(step) /\ ~step.personalOnly =>
                          LET v == AnswerTo(a, s.field)
                          IN n \in visible
                               <=> \E x \in Numbers(s, v, score) : w.lo <= x /\ x <= w.hi
<1> DEFINE visible == VisibleSteps(f, a)
           step == f.steps[n]
           score == Total(f, a, {m \in visible : m < n})
<1>1. /\ visible \subseteq Positions(f)
      /\ n \in visible <=> Appears(f, a, n, score)
  BY VisibleMeans, StepsType
<1>2. score \in Int
  <2>1. {m \in visible : m < n} \in SUBSET Positions(f)
    BY <1>1
  <2> HIDE DEF visible
  <2> QED
    BY <2>1, TotalIsInt
<1> HIDE DEF score, visible
<1>3. n \in visible <=> /\ ~IsHidden(step)
                        /\ \A c \in step.show : Holds(c, AnswerTo(a, c.field), score)
                        /\ \A c \in step.hide : ~Holds(c, AnswerTo(a, c.field), score)
                        /\ step.personalOnly => PersonalEmail(f, a)
  BY <1>1 DEF Appears, HoldsFor
<1>4. /\ step.show \subseteq Condition(Nat) /\ step.hide \subseteq Condition(Nat)
      /\ \A c, d \in step.show : c = d
      /\ \A c, d \in step.hide : c = d
  BY RuleOfStep
<1> HIDE DEF step
<1>5. ASSUME NEW s \in step.show, ConditionNeverHolds(s) PROVE n \notin visible
  BY <1>2, <1>3, <1>4, <1>5, AnswerToType, BrokenRuleNeverHolds
<1>6. ASSUME NEW s \in step.show, NEW h \in step.hide, ConditionsContradict(s, h)
      PROVE  n \notin visible
  <2>1. s.field = h.field
    BY <1>6 DEF ConditionsContradict
  <2>2. AnswerTo(a, s.field) \in Value
    BY AnswerToType
  <2>3. Holds(s, AnswerTo(a, s.field), score) => Holds(h, AnswerTo(a, s.field), score)
    BY <1>2, <1>4, <1>6, <2>2, ContradictionHides
  <2> QED
    BY <1>3, <2>1, <2>3
<1>7. ASSUME NEW s \in step.show, NEW h \in step.hide, NEW w \in ConditionsNarrow(s, h),
             ~IsHidden(step), ~step.personalOnly
      PROVE  n \in visible
               <=> \E x \in Numbers(s, AnswerTo(a, s.field), score) : w.lo <= x /\ x <= w.hi
  <2>1. s.field = h.field
    BY <1>7 DEF ConditionsNarrow
  <2>2. AnswerTo(a, s.field) \in Value /\ WellFormed(AnswerTo(a, s.field))
    BY AnswerToType
  <2>3. Holds(s, AnswerTo(a, s.field), score) /\ ~Holds(h, AnswerTo(a, s.field), score)
          <=> \E x \in Numbers(s, AnswerTo(a, s.field), score) : w.lo <= x /\ x <= w.hi
    BY <1>2, <1>4, <2>2, WindowIsExact
  <2>4. n \in visible
          <=> Holds(s, AnswerTo(a, s.field), score) /\ ~Holds(h, AnswerTo(a, h.field), score)
    BY <1>3, <1>4, <1>7
  <2> QED
    BY <2>1, <2>3, <2>4
<1> QED
  BY <1>5, <1>6, <1>7 DEF step, score, visible

-----------------------------------------------------------------------------
(* Screens.                                                                 *)

\* On one screen: both steps can share one, and so does every step in between
\* that is not hidden, with the same id.
LEMMA SameScreenMeans ==
    ASSUME NEW f, NEW m \in Nat, NEW n \in Nat
    PROVE  SameScreen(f, m, n) <=>
              /\ f.layout = "slides"
              /\ CanShareScreen(f.steps[m]) /\ CanShareScreen(f.steps[n])
              /\ f.steps[n].screenGroup # {}
              /\ \A k \in Nat : (m <= k /\ k <= n) \/ (n <= k /\ k <= m) =>
                    \/ IsHidden(f.steps[k])
                    \/ CanShareScreen(f.steps[k])
                       /\ f.steps[k].screenGroup = f.steps[n].screenGroup
<1> DEFINE lo == Min({m, n})
           hi == Max({m, n})
<1>1. lo \in {m, n} /\ lo <= m /\ lo <= n
  BY MinIsLeast
<1>2. hi \in {m, n} /\ m <= hi /\ n <= hi
  BY MaxIsGreatest, m + n \in Nat, m <= m + n, n <= m + n
<1> HIDE DEF lo, hi
<1>3. \A k : k \in lo..hi <=> k \in Nat /\ ((m <= k /\ k <= n) \/ (n <= k /\ k <= m))
  BY <1>1, <1>2
<1> QED
  BY <1>3 DEF SameScreen, lo, hi

LEMMA SameGroup ==
    ASSUME NEW f, NEW m \in Nat, NEW n \in Nat, SameScreen(f, m, n)
    PROVE  /\ CanShareScreen(f.steps[m]) /\ ~IsHidden(f.steps[m])
           /\ CanShareScreen(f.steps[n]) /\ ~IsHidden(f.steps[n])
           /\ f.steps[m].screenGroup = f.steps[n].screenGroup
           /\ f.steps[m].kind \notin SoloScreenKinds
           /\ SameScreen(f, n, m)
<1>1. CanShareScreen(f.steps[m]) /\ CanShareScreen(f.steps[n])
  BY SameScreenMeans
<1>2. ~IsHidden(f.steps[m]) /\ ~IsHidden(f.steps[n]) /\ f.steps[m].kind \notin SoloScreenKinds
  BY <1>1 DEF CanShareScreen
<1>3. f.steps[m].screenGroup = f.steps[n].screenGroup
  BY <1>2, SameScreenMeans
<1>4. SameScreen(f, n, m)
  BY <1>3, SameScreenMeans
<1> QED
  BY <1>1, <1>2, <1>3, <1>4

\* A screen is the screen of each of its questions.
LEMMA ScreenIsOne ==
    ASSUME NEW f, NEW n \in Positions(f), NEW m \in ScreenOf(f, n)
    PROVE  /\ m \in Positions(f)
           /\ ScreenOf(f, m) = ScreenOf(f, n)
<1>0. Positions(f) \subseteq Nat
  BY DEF Positions
<1>1. m \in Positions(f) /\ n \in ScreenOf(f, n)
  BY DEF ScreenOf
<1>2. ASSUME NEW x \in Nat, NEW y \in Nat, NEW z \in Nat, SameScreen(f, x, y), SameScreen(f, y, z)
      PROVE  SameScreen(f, x, z)
  <2>1. f.steps[y].screenGroup = f.steps[z].screenGroup
    BY <1>2, SameGroup
  <2>2. \A k \in Nat : (x <= k /\ k <= z) \/ (z <= k /\ k <= x) =>
           \/ (x <= k /\ k <= y) \/ (y <= k /\ k <= x)
           \/ (y <= k /\ k <= z) \/ (z <= k /\ k <= y)
    OBVIOUS
  <2> QED
    BY <1>2, <2>1, <2>2, SameScreenMeans
<1>3. CASE m = n
  BY <1>1, <1>3
<1>4. CASE SameScreen(f, m, n)
  <2>1. SameScreen(f, n, m)
    BY <1>0, <1>1, <1>4, SameGroup
  <2>2. \A k \in Positions(f) : SameScreen(f, k, m) <=> SameScreen(f, k, n)
    BY <1>0, <1>1, <1>2, <1>4, <2>1
  <2>3. SameScreen(f, m, m) /\ SameScreen(f, n, n)
    BY <1>0, <1>1, <1>2, <1>4, <2>1
  <2> QED
    BY <1>1, <2>2, <2>3 DEF ScreenOf
<1> QED
  BY <1>3, <1>4 DEF ScreenOf

\* What is shown between two questions of a screen is on it.
LEMMA ScreenHasNoGaps ==
    ASSUME NEW f, NEW n \in Positions(f), NEW m \in ScreenOf(f, n), NEW k \in Positions(f),
           ~IsHidden(f.steps[k]), n <= k /\ k <= m
    PROVE  k \in ScreenOf(f, n)
<1>0. Positions(f) \subseteq Nat /\ m \in Positions(f)
  BY ScreenIsOne DEF Positions
<1>1. CASE m = n
  <2>1. k = n
    BY <1>0, <1>1
  <2> QED
    BY <2>1 DEF ScreenOf
<1>2. CASE SameScreen(f, m, n)
  <2>1. /\ CanShareScreen(f.steps[k]) /\ f.steps[k].screenGroup = f.steps[n].screenGroup
    BY <1>0, <1>2, SameScreenMeans
  <2>2. \A j \in Nat : (k <= j /\ j <= n) \/ (n <= j /\ j <= k) => (n <= j /\ j <= m)
    BY <1>0
  <2>3. SameScreen(f, k, n)
    BY <1>0, <1>2, <2>1, <2>2, SameScreenMeans
  <2> QED
    BY <2>3 DEF ScreenOf
<1> QED
  BY <1>1, <1>2 DEF ScreenOf

-----------------------------------------------------------------------------
(* The path.                                                                *)

\* What the walk takes from step n on of its screen.
Members(f, visible, n) == {m \in ScreenOf(f, n) \cap visible : m >= n}

\* from[n] is the path of a walk that arrives at step n.
Gathers(f, a, visible, from) ==
    /\ from[Len(f.steps) + 1] = {}
    /\ \A n \in Positions(f) :
          from[n] = IF n \notin visible THEN from[n + 1]
                    ELSE Members(f, visible, n)
                            \cup from[NextStop(f, a, visible, Members(f, visible, n))]

\* A set of steps, none of them hidden.
Shown(f, visible) ==
    /\ f.steps \in Seq(Step)
    /\ visible \subseteq Positions(f)
    /\ \A n \in visible : ~IsHidden(f.steps[n])

LEMMA VisibleIsShown ==
    ASSUME NEW f, f.steps \in Seq(Step), NEW a
    PROVE  Shown(f, VisibleSteps(f, a))
BY VisibleMeans, StepsType DEF Shown, Appears

LEMMA MembersType ==
    ASSUME NEW f, NEW visible, Shown(f, visible), NEW n \in visible
    PROVE  LET members == Members(f, visible, n) IN
           /\ n \in members /\ members \subseteq visible
           /\ Max(members) \in members
           /\ \A m \in members : n <= m /\ m <= Max(members)
           /\ Max(members) <= Len(f.steps)
<1> DEFINE members == Members(f, visible, n)
<1>1. Len(f.steps) \in Nat /\ visible \subseteq 1..Len(f.steps)
  BY StepsType DEF Shown, Positions
<1>2. n \in members /\ members \subseteq visible /\ \A m \in members : n <= m
  BY <1>1 DEF Members, ScreenOf
<1> HIDE DEF members
<1>0. members \in SUBSET Nat /\ members # {} /\ \A m \in members : m <= Len(f.steps)
  BY <1>1, <1>2
<1>3. Max(members) \in members /\ \A m \in members : m <= Max(members)
  BY <1>0, <1>1, MaxIsGreatest
<1>4. Max(members) <= Len(f.steps)
  BY <1>0, <1>3
<1>5. /\ n \in members /\ members \subseteq visible
      /\ Max(members) \in members
      /\ \A m \in members : n <= m /\ m <= Max(members)
      /\ Max(members) <= Len(f.steps)
  BY <1>2, <1>3, <1>4
<1> QED
  BY <1>5 DEF members

\* A rule takes the walk ahead: past the last step, or to the first question
\* shown of a screen.
LEMMA GoesAhead ==
    ASSUME NEW f, NEW a, NEW visible, Shown(f, visible), NEW k, NEW end \in Positions(f),
           NEW x \in GoesTo(f, a, visible, k, end)
    PROVE  /\ x \in end + 1..Len(f.steps) + 1
           /\ \/ x = Len(f.steps) + 1
              \/ x \in visible /\ \A m \in ScreenOf(f, x) \cap visible : x <= m
<1>0. Len(f.steps) \in Nat /\ visible \subseteq 1..Len(f.steps) /\ Positions(f) = 1..Len(f.steps)
  BY StepsType DEF Shown, Positions
<1>1. PICK r \in ResolveGoto(f.steps[k], a[k]) :
        x \in IF r.target = 0 THEN {Len(f.steps) + 1}
              ELSE {n \in LandOn(f, visible, r.target) : n > end}
  BY DEF GoesTo
<1>2. CASE r.target = 0
  BY <1>0, <1>1, <1>2
<1>3. CASE r.target # 0
  <2> DEFINE t == r.target
             S == ScreenOf(f, t) \cap visible
  <2>0. x \in LandOn(f, visible, t) /\ x > end
    BY <1>1, <1>3
  <2>1. t \in Positions(f) /\ S # {} /\ x = Min(S)
    BY <2>0 DEF LandOn
  <2>2. x \in S /\ \A m \in S : x <= m
    <3>1. S \in SUBSET Nat
      <4>1. visible \subseteq Nat
        BY <1>0
      <4> QED
        BY <4>1
    <3> HIDE DEF S
    <3> QED
      BY <2>1, <3>1, MinIsLeast
  <2>3. x \in visible /\ x \in ScreenOf(f, t)
    BY <2>2
  <2>4. ScreenOf(f, x) = ScreenOf(f, t)
    BY <2>1, <2>3, ScreenIsOne
  <2>5. x \in end + 1..Len(f.steps) + 1
    BY <1>0, <2>0, <2>3
  <2> QED
    BY <2>2, <2>3, <2>4, <2>5
<1> QED
  BY <1>2, <1>3

LEMMA NextStopAhead ==
    ASSUME NEW f, NEW a, NEW visible, Shown(f, visible), NEW n \in visible
    PROVE  LET members == Members(f, visible, n)
               next == NextStop(f, a, visible, members)
           IN /\ next \in Max(members) + 1..Len(f.steps) + 1
              /\ \/ next = Max(members) + 1
                 \/ next = Len(f.steps) + 1
                 \/ next \in visible /\ \A m \in ScreenOf(f, next) \cap visible : next <= m
<1> DEFINE members == Members(f, visible, n)
           end == Max(members)
           movers == {k \in members : GoesTo(f, a, visible, k, end) # {}}
           goal == GoesTo(f, a, visible, Min(movers), end)
<1>0. Len(f.steps) \in Nat /\ Positions(f) = 1..Len(f.steps) /\ visible \subseteq Positions(f)
  BY StepsType DEF Shown, Positions
<1>1. members \subseteq visible /\ end \in Positions(f)
  BY <1>0, MembersType
<1>2. NextStop(f, a, visible, members) = IF movers = {} THEN end + 1 ELSE Min(goal)
  BY DEF NextStop
<1> HIDE DEF members, end
<1>3. CASE movers = {}
  BY <1>0, <1>1, <1>2, <1>3 DEF members, end
<1>4. CASE movers # {}
  <2>1. Min(movers) \in movers
    <3>1. movers \in SUBSET Nat
      BY <1>0, <1>1
    <3> HIDE DEF movers
    <3> QED
      BY <1>4, <3>1, MinIsLeast
  <2>2. goal # {}
    BY <2>1
  <2>3. \A x \in goal : /\ x \in end + 1..Len(f.steps) + 1
                        /\ \/ x = Len(f.steps) + 1
                           \/ x \in visible /\ \A m \in ScreenOf(f, x) \cap visible : x <= m
    BY <1>1, GoesAhead
  <2> HIDE DEF goal
  <2>4. Min(goal) \in goal
    BY <1>0, <1>1, <2>2, <2>3, MinIsLeast
  <2> QED
    BY <1>2, <1>4, <2>3, <2>4 DEF members, end
<1> QED
  BY <1>3, <1>4

\* The path is gathered from the first step.
LEMMA PathIsGathered ==
    ASSUME NEW f, NEW a, NEW visible, Shown(f, visible)
    PROVE  \E from : Gathers(f, a, visible, from) /\ ApplyGoto(f, a, visible) = from[1]
<1> DEFINE N == Len(f.steps)
           Stop(n) == NextStop(f, a, visible, Members(f, visible, n))
           Rest(n, g) == IF n \notin visible THEN g[n + 1]
                         ELSE Members(f, visible, n) \cup g[Stop(n)]
           Is(g) == g = [n \in 1..N + 1 |-> IF n > N THEN {} ELSE Rest(n, g)]
           from == CHOOSE g : Is(g)
           A == [n \in 1..N |-> IF n \notin visible THEN {} ELSE Members(f, visible, n)]
           nx == [n \in 1..N |-> IF n \notin visible THEN n + 1 ELSE Stop(n)]
<1>0. N \in Nat /\ visible \subseteq 1..N /\ Positions(f) = 1..N
  BY StepsType DEF Shown, Positions
<1>1. ApplyGoto(f, a, visible) = from[1]
  BY DEF ApplyGoto, Members
<1>2. \A n \in visible : Stop(n) \in n + 1..N + 1
  <2> SUFFICES ASSUME NEW n \in visible PROVE Stop(n) \in n + 1..N + 1
    OBVIOUS
  <2>1. n <= Max(Members(f, visible, n)) /\ Max(Members(f, visible, n)) \in 1..N
    BY <1>0, MembersType
  <2>2. Stop(n) \in Max(Members(f, visible, n)) + 1..N + 1
    BY NextStopAhead
  <2> QED
    BY <1>0, <2>1, <2>2
<1> HIDE DEF Stop
<1>3. \A n \in 1..N : nx[n] \in n + 1..N + 1
  BY <1>0, <1>2
<1>4. \A g : \A n \in 1..N : Rest(n, g) = A[n] \cup g[nx[n]]
  OBVIOUS
<1> HIDE DEF A, nx, Rest, N
<1>5. \E g : Is(g)
  <2>1. HasJumps(N, A, nx)
    BY <1>0, <1>3, ForwardJumps
  <2>2. PICK g : g = [n \in 1..N + 1 |-> IF n > N THEN {} ELSE A[n] \cup g[nx[n]]]
    BY <2>1 DEF HasJumps
  <2>3. \A n \in 1..N + 1 : ~(n > N) => n \in 1..N
    BY <1>0
  <2>4. \A n \in 1..N : Rest(n, g) = A[n] \cup g[nx[n]]
    BY <1>4
  <2>5. Is(g)
    BY <2>2, <2>3, <2>4
  <2> QED
    BY <2>5
<1>6. Is(from)
  BY <1>5
<1> HIDE DEF from
<1>7. from[N + 1] = {} /\ \A n \in 1..N : from[n] = Rest(n, from)
  <2>1. /\ N + 1 \in 1..N + 1 /\ N + 1 > N
        /\ \A n \in 1..N : n \in 1..N + 1 /\ ~(n > N)
    BY <1>0
  <2> QED
    BY <1>6, <2>1
<1> QED
  BY <1>0, <1>1, <1>7 DEF Gathers, Rest, N, Stop

\* A walk that arrives at step n goes over steps shown, from n on.
LEMMA FromIsShown ==
    ASSUME NEW f, NEW a, NEW visible, Shown(f, visible), NEW from, Gathers(f, a, visible, from)
    PROVE  \A n \in 1..Len(f.steps) + 1 : \A m \in from[n] : m \in visible /\ n <= m
<1> DEFINE N == Len(f.steps)
           Ahead(n) == \A m \in from[n] : m \in visible /\ n <= m
           S == {n \in 1..N + 1 : Ahead(n)}
<1>0. N \in Nat /\ visible \subseteq 1..N /\ Positions(f) = 1..N
  BY StepsType DEF Shown, Positions
<1>1. N + 1 \in S
  BY <1>0 DEF Gathers
<1>2. ASSUME NEW n \in 1..N, \A m \in n + 1..N + 1 : m \in S PROVE n \in S
  <2>0. n \in 1..N + 1 /\ n + 1 \in n + 1..N + 1
    BY <1>0
  <2>1. CASE n \notin visible
    <3>1. from[n] = from[n + 1]
      BY <1>0, <2>1 DEF Gathers
    <3>2. Ahead(n + 1)
      BY <1>2, <2>0
    <3>3. \A m \in visible : n + 1 <= m => n <= m
      BY <1>0
    <3>4. Ahead(n)
      BY <3>1, <3>2, <3>3
    <3> QED
      BY <2>0, <3>4
  <2>2. CASE n \in visible
    <3> DEFINE members == Members(f, visible, n)
               next == NextStop(f, a, visible, members)
    <3>1. from[n] = members \cup from[next]
      BY <1>0, <2>2 DEF Gathers
    <3>2. members \subseteq visible /\ \A m \in members : n <= m
      BY <2>2, MembersType
    <3>3. next \in n + 1..N + 1
      <4>1. Max(members) \in visible /\ n <= Max(members) /\ next \in Max(members) + 1..N + 1
        BY <2>2, MembersType, NextStopAhead
      <4> DEFINE end == Max(members)
      <4>2. end \in 1..N /\ n <= end /\ next \in end + 1..N + 1
        BY <1>0, <4>1
      <4> HIDE DEF members, next, end
      <4> QED
        BY <1>0, <4>2
    <3> HIDE DEF members, next
    <3>4. Ahead(next)
      BY <1>2, <3>3
    <3>5. \A m \in from[next] : m \in visible /\ n <= m
      <4>1. \A m \in visible : next <= m => n <= m
        BY <1>0, <3>3
      <4> QED
        BY <3>4, <4>1
    <3>6. Ahead(n)
      BY <3>1, <3>2, <3>5
    <3> QED
      BY <2>0, <3>6
  <2> QED
    BY <2>1, <2>2
<1> HIDE DEF S
<1>3. 1..N + 1 \subseteq S
  BY <1>0, <1>1, <1>2, EveryNumberBack
<1> QED
  BY <1>3 DEF S

\* ... and a screen it comes to, it goes over to its end.
LEMMA FromIsWhole ==
    ASSUME NEW f, NEW a, NEW visible, Shown(f, visible), NEW from, Gathers(f, a, visible, from)
    PROVE  \A n \in 1..Len(f.steps) + 1 :
              \A m \in from[n] : \A k \in ScreenOf(f, m) \cap visible : n <= k => k \in from[n]
<1> DEFINE N == Len(f.steps)
           Whole(n) == \A m \in from[n] :
                          \A k \in ScreenOf(f, m) \cap visible : n <= k => k \in from[n]
           S == {n \in 1..N + 1 : Whole(n)}
<1>0. N \in Nat /\ visible \subseteq 1..N /\ Positions(f) = 1..N
  BY StepsType DEF Shown, Positions
<1>1. N + 1 \in S
  BY <1>0 DEF Gathers
<1>2. ASSUME NEW n \in 1..N, \A m \in n + 1..N + 1 : m \in S PROVE n \in S
  <2>0. n \in 1..N + 1 /\ n + 1 \in n + 1..N + 1
    BY <1>0
  <2> SUFFICES Whole(n)
    BY <2>0
  <2>1. CASE n \notin visible
    <3>1. from[n] = from[n + 1]
      BY <1>0, <2>1 DEF Gathers
    <3>2. Whole(n + 1)
      BY <1>2, <2>0
    <3>3. \A k \in visible : n <= k => n + 1 <= k
      BY <1>0, <2>1
    <3> QED
      BY <3>1, <3>2, <3>3
  <2>2. CASE n \in visible
    <3> DEFINE members == Members(f, visible, n)
               end == Max(members)
               next == NextStop(f, a, visible, members)
    <3>1. from[n] = members \cup from[next]
      BY <1>0, <2>2 DEF Gathers
    <3>2. n \in members /\ members \subseteq visible /\ end \in members
          /\ \A m \in members : n <= m /\ m <= end
      BY <2>2, MembersType
    <3>3. /\ end \in visible /\ n <= end /\ end \in 1..N
          /\ next \in end + 1..N + 1
          /\ \/ next = end + 1
             \/ next = N + 1
             \/ next \in visible /\ \A m \in ScreenOf(f, next) \cap visible : next <= m
      <4>1. end \in visible /\ n <= end
        BY <2>2, MembersType
      <4> QED
        BY <1>0, <2>2, <4>1, NextStopAhead
    <3>4. \A m : m \in members <=> m \in ScreenOf(f, n) /\ m \in visible /\ m >= n
      BY DEF Members
    <3> HIDE DEF members, end, next
    <3>5. Whole(next) /\ \A m \in from[next] : m \in visible /\ next <= m
      <4>1. next \in n + 1..N + 1 /\ next \in 1..N + 1
        BY <1>0, <3>3
      <4>2. next \in S
        BY <1>2, <4>1
      <4> QED
        BY <4>1, <4>2, FromIsShown
    <3> SUFFICES ASSUME NEW m \in from[n], NEW k \in ScreenOf(f, m), k \in visible, n <= k
                 PROVE  k \in from[n]
      OBVIOUS
    <3>6. k \in 1..N /\ k \in Positions(f)
      BY <1>0
    <3>7. CASE m \in members
      <4>1. ScreenOf(f, m) = ScreenOf(f, n)
        BY <1>0, <3>4, <3>7, ScreenIsOne
      <4>2. k \in members
        BY <3>4, <3>6, <4>1
      <4> QED
        BY <3>1, <4>2
    <3>8. CASE m \in from[next] /\ next <= k
      BY <3>1, <3>5, <3>8
    <3>9. CASE m \in from[next] /\ k < next
      <4>1. m \in visible /\ next <= m /\ m \in Positions(f) /\ m \in 1..N
        BY <1>0, <3>5, <3>9
      <4>2. k \in ScreenOf(f, k) /\ m \in ScreenOf(f, k) /\ ScreenOf(f, k) = ScreenOf(f, m)
        <5>1. ScreenOf(f, k) = ScreenOf(f, m)
          BY <4>1, ScreenIsOne
        <5>2. m \in ScreenOf(f, m) /\ k \in ScreenOf(f, k)
          BY DEF ScreenOf
        <5> QED
          BY <5>1, <5>2
      <4>3. CASE k <= end
        <5>1. end \in ScreenOf(f, n)
          BY <3>2, <3>4
        <5>2. ~IsHidden(f.steps[k])
          BY DEF Shown
        <5>3. k \in ScreenOf(f, n)
          BY <1>0, <3>6, <4>3, <5>1, <5>2, ScreenHasNoGaps
        <5>4. ScreenOf(f, k) = ScreenOf(f, n)
          BY <1>0, <5>3, ScreenIsOne
        <5>5. end < m
          BY <1>0, <3>3, <4>1
        <5>6. m >= n
          BY <1>0, <3>3, <4>1, <5>5
        <5>7. m \in members
          BY <3>4, <4>1, <4>2, <5>4, <5>6
        <5>8. m <= end
          BY <3>2, <5>7
        <5>9. end \in 1..N
          BY <3>3
        <5> QED
          BY <4>1, <5>5, <5>8, <5>9
      <4>4. CASE ~(k <= end)
        <5>0. next \in 1..N + 1 /\ end \in 1..N
          BY <1>0, <3>3
        <5>1. next # end + 1
          BY <3>6, <3>9, <4>4, <5>0
        <5>2. next # N + 1
          BY <1>0, <4>1, <5>0
        <5>3. next \in visible /\ \A j \in ScreenOf(f, next) \cap visible : next <= j
          BY <3>3, <5>1, <5>2
        <5>4. ~IsHidden(f.steps[next]) /\ next \in Positions(f)
          BY <1>0, <5>3 DEF Shown
        <5>5. k <= next /\ next <= m
          BY <3>6, <3>9, <4>1, <5>0
        <5>6. next \in ScreenOf(f, k)
          BY <3>6, <4>2, <5>4, <5>5, ScreenHasNoGaps
        <5>7. k \in ScreenOf(f, next)
          BY <3>6, <4>2, <5>6, ScreenIsOne
        <5>8. next <= k
          BY <5>3, <5>7
        <5> QED
          BY <3>6, <3>9, <5>0, <5>8
      <4> QED
        BY <4>3, <4>4
    <3>10. next <= k \/ k < next
      BY <1>0, <3>3, <3>6
    <3> QED
      BY <3>1, <3>7, <3>8, <3>9, <3>10
  <2> QED
    BY <2>1, <2>2
<1> HIDE DEF S
<1>3. 1..N + 1 \subseteq S
  BY <1>0, <1>1, <1>2, EveryNumberBack
<1> QED
  BY <1>3 DEF S

\* The path is made of steps shown; a screen is on it whole or not at all.
LEMMA PathType ==
    ASSUME NEW f, f.steps \in Seq(Step), NEW a
    PROVE  LET visible == VisibleSteps(f, a)
               steps == RuntimeSteps(f, a)
           IN /\ steps \subseteq visible /\ visible \subseteq Positions(f)
              /\ \A n \in steps : ~IsHidden(f.steps[n])
              /\ \A n \in steps : ScreenOf(f, n) \cap visible \subseteq steps
<1> DEFINE visible == VisibleSteps(f, a)
<1>0. Shown(f, visible)
  BY VisibleIsShown
<1>1. PICK from : Gathers(f, a, visible, from) /\ RuntimeSteps(f, a) = from[1]
  BY <1>0, PathIsGathered DEF RuntimeSteps
<1>2. 1 \in 1..Len(f.steps) + 1 /\ visible \subseteq Positions(f) /\ \A k \in visible : 1 <= k
  BY <1>0, StepsType DEF Shown, Positions
<1> HIDE DEF visible
<1>3. from[1] \subseteq visible
  BY <1>0, <1>1, <1>2, FromIsShown
<1>4. \A m \in from[1] : \A k \in ScreenOf(f, m) \cap visible : k \in from[1]
  BY <1>0, <1>1, <1>2, FromIsWhole
<1> QED
  BY <1>0, <1>1, <1>2, <1>3, <1>4 DEF visible, Shown

-----------------------------------------------------------------------------
(* Two sets of answers that agree above a step.                             *)

Agree(a, b, h) == \A m \in Nat : m < h /\ m \in DOMAIN a => a[m] = b[m]

\* The score of the steps they agree on is the same.
LEMMA SameTotal ==
    ASSUME NEW f, NEW a, NEW b, NEW S, \A n \in S : a[n] = b[n]
    PROVE  Total(f, a, S) = Total(f, b, S)
<1> DEFINE A(g) == g = [s \in SUBSET S |-> IF s = {} THEN 0
                          ELSE StepScore(f.steps[Pick(s)], a[Pick(s)]) + g[s \ {Pick(s)}]]
           B(g) == g = [s \in SUBSET S |-> IF s = {} THEN 0
                          ELSE StepScore(f.steps[Pick(s)], b[Pick(s)]) + g[s \ {Pick(s)}]]
           ca == CHOOSE g : A(g)
           cb == CHOOSE g : B(g)
<1>1. Total(f, a, S) = (IF f.scoring THEN ca[S] ELSE 0)
  BY DEF Total, MapThenSumSet, MapThenFoldSet, Pick
<1>5. Total(f, b, S) = (IF f.scoring THEN cb[S] ELSE 0)
  BY DEF Total, MapThenSumSet, MapThenFoldSet, Pick
<1>2. \A s \in SUBSET S : s # {} => a[Pick(s)] = b[Pick(s)]
  BY DEF Pick
<1>3. \A g : A(g) <=> B(g)
  BY <1>2
<1> HIDE DEF A, B
<1>4. ca = cb
  BY <1>3
<1> HIDE DEF ca, cb
<1> QED
  BY <1>1, <1>4, <1>5

\* A rule about the score, or about a step they agree on, says the same.
LEMMA SameRule ==
    ASSUME NEW f, NEW a \in Answers(f), NEW b \in Answers(f), NEW h \in Nat, Agree(a, b, h),
           NEW c \in Condition(Nat), IsScore(c) \/ c.field < h, NEW score
    PROVE  HoldsFor(c, a, score) <=> HoldsFor(c, b, score)
<1>1. CASE IsScore(c)
  <2>1. c.op = "in" => ~(c.op = "in" /\ ~IsScore(c))
    BY <1>1
  <2> QED
    BY <1>1 DEF HoldsFor, Holds, Numbers
<1>2. CASE ~IsScore(c)
  <2>1. c.field \in Nat /\ c.field < h
    BY <1>2 DEF Condition, IsScore
  <2>2. DOMAIN a = DOMAIN b
    BY AnswersType
  <2>3. AnswerTo(a, c.field) = AnswerTo(b, c.field)
    BY <2>1, <2>2 DEF AnswerTo, Agree
  <2> QED
    BY <2>3 DEF HoldsFor
<1> QED
  BY <1>1, <1>2

\* What a rule that hides personal addresses reads.
LEMMA SamePersonal ==
    ASSUME NEW f, NEW a \in Answers(f), NEW b \in Answers(f), NEW h \in Nat, Agree(a, b, h),
           \E m \in EmailSteps(f) : m < h
    PROVE  PersonalEmail(f, a) <=> PersonalEmail(f, b)
<1>1. EmailSteps(f) \in SUBSET Nat /\ EmailSteps(f) \subseteq Positions(f) /\ EmailSteps(f) # {}
  BY DEF EmailSteps, Positions
<1>2. Min(EmailSteps(f)) \in EmailSteps(f) /\ \A m \in EmailSteps(f) : Min(EmailSteps(f)) <= m
  BY <1>1, MinIsLeast
<1>3. Min(EmailSteps(f)) < h
  BY <1>1, <1>2
<1>4. a[Min(EmailSteps(f))] = b[Min(EmailSteps(f))]
  BY <1>1, <1>2, <1>3, AnswersType DEF Agree
<1> QED
  BY <1>4 DEF PersonalEmail

\* A step whose rules read the score or what they agree on appears for both, at
\* the same score; at any two, when no rule reads the score.
LEMMA SameAppears ==
    ASSUME NEW f, f.steps \in Seq(Step), NEW a \in Answers(f), NEW b \in Answers(f),
           NEW h \in Nat, Agree(a, b, h), NEW n \in Positions(f), NEW x, NEW y,
           \A c \in f.steps[n].show \cup f.steps[n].hide :
              (IsScore(c) /\ x = y) \/ (~IsScore(c) /\ c.field < h),
           f.steps[n].personalOnly => \E m \in EmailSteps(f) : m < h
    PROVE  Appears(f, a, n, x) <=> Appears(f, b, n, y)
<1>1. \A c \in f.steps[n].show \cup f.steps[n].hide : HoldsFor(c, a, x) <=> HoldsFor(c, b, y)
  <2> SUFFICES ASSUME NEW c \in f.steps[n].show \cup f.steps[n].hide
               PROVE  HoldsFor(c, a, x) <=> HoldsFor(c, b, y)
    OBVIOUS
  <2>1. c \in Condition(Nat)
    BY RuleOfStep
  <2>2. HoldsFor(c, a, x) <=> HoldsFor(c, b, x)
    BY <2>1, SameRule
  <2>3. HoldsFor(c, b, x) <=> HoldsFor(c, b, y)
    <3>1. CASE IsScore(c)
      BY <3>1
    <3>2. CASE ~IsScore(c)
      BY <3>2 DEF HoldsFor, Holds, Numbers
    <3> QED
      BY <3>1, <3>2
  <2> QED
    BY <2>2, <2>3
<1>2. f.steps[n].personalOnly => (PersonalEmail(f, a) <=> PersonalEmail(f, b))
  BY SamePersonal
<1> QED
  BY <1>1, <1>2 DEF Appears

\* They show the same steps up to the one below those they agree on.
LEMMA SameVisible ==
    ASSUME NEW f, f.steps \in Seq(Step), Forward(f), NEW a \in Answers(f), NEW b \in Answers(f),
           NEW h \in Nat, Agree(a, b, h)
    PROVE  \A n \in Nat : n <= h => (n \in VisibleSteps(f, a) <=> n \in VisibleSteps(f, b))
<1> DEFINE A == VisibleSteps(f, a)
           B == VisibleSteps(f, b)
           T == {n \in Nat : n <= h /\ ~(n \in A <=> n \in B)}
<1>1. /\ A \subseteq Positions(f) /\ B \subseteq Positions(f)
      /\ \A n \in Positions(f) : n \in A <=> Appears(f, a, n, Total(f, a, {m \in A : m < n}))
      /\ \A n \in Positions(f) : n \in B <=> Appears(f, b, n, Total(f, b, {m \in B : m < n}))
  BY VisibleMeans, StepsType
<1>2. Positions(f) \subseteq Nat /\ DOMAIN a = Positions(f)
  BY AnswersType DEF Positions
<1> HIDE DEF A, B
<1> SUFFICES ASSUME T # {} PROVE FALSE
  BY DEF A, B
<1>3. PICK n \in T : \A m \in T : n <= m
  BY LeastNumber
<1>4. n \in Nat /\ n <= h /\ n \in Positions(f) /\ ~(n \in A <=> n \in B)
  BY <1>1, <1>3
<1>5. \A m \in Nat : m < n => (m \in A <=> m \in B)
  BY <1>3
<1> DEFINE S == {m \in A : m < n}
<1>6. S = {m \in B : m < n} /\ \A m \in S : m \in Nat /\ m < h /\ m \in DOMAIN a
  <2>1. A \subseteq Nat /\ B \subseteq Nat /\ A \subseteq DOMAIN a
    BY <1>1, <1>2
  <2>2. S = {m \in B : m < n}
    BY <1>5, <2>1
  <2>3. \A m \in S : m \in Nat /\ m < h /\ m \in DOMAIN a
    BY <1>4, <2>1
  <2> QED
    BY <2>2, <2>3
<1> HIDE DEF S
<1>7. \A m \in S : a[m] = b[m]
  BY <1>6 DEF Agree
<1>8. Total(f, a, S) = Total(f, b, S)
  BY <1>7, SameTotal
<1>9. /\ \A c \in f.steps[n].show \cup f.steps[n].hide : IsScore(c) \/ (~IsScore(c) /\ c.field < h)
      /\ f.steps[n].personalOnly => \E m \in EmailSteps(f) : m < h
  <2>1. \A c \in f.steps[n].show \cup f.steps[n].hide : c \in Condition(Nat)
    BY <1>4, RuleOfStep
  <2>2. \A c \in f.steps[n].show \cup f.steps[n].hide : ~IsScore(c) => c.field \in Nat /\ c.field < n
    BY <1>4, <2>1 DEF Forward, Condition, IsScore
  <2>3. f.steps[n].personalOnly => \E m \in EmailSteps(f) : m < n /\ m \in Nat
    BY <1>2, <1>4 DEF Forward, EmailSteps
  <2> QED
    BY <1>4, <2>2, <2>3
<1>10. Appears(f, a, n, Total(f, a, S)) <=> Appears(f, b, n, Total(f, b, S))
  BY <1>4, <1>8, <1>9, SameAppears
<1>11. (n \in A <=> Appears(f, a, n, Total(f, a, S)))
       /\ (n \in B <=> Appears(f, b, n, Total(f, b, S)))
  BY <1>1, <1>4, <1>6 DEF S
<1> QED
  BY <1>4, <1>10, <1>11

\* A jump settled above the step they agree up to lands at the same question.
LEMMA SameLanding ==
    ASSUME NEW f, f.steps \in Seq(Step), JumpsSettled(f), NEW a \in Answers(f), NEW b \in Answers(f),
           NEW h \in Nat, Agree(a, b, h), NEW k \in Positions(f), k < h,
           NEW i \in DOMAIN f.steps[k].goto, NEW t \in Positions(f),
           t = f.steps[k].goto[i].target, t > k
    PROVE  LandOn(f, VisibleSteps(f, a), t) = LandOn(f, VisibleSteps(f, b), t)
<1> DEFINE A == VisibleSteps(f, a)
           B == VisibleSteps(f, b)
<1>1. ASSUME NEW m \in ScreenOf(f, t) PROVE m \in A <=> m \in B
  <2>1. m \in Positions(f)
    BY ScreenIsOne
  <2> DEFINE x == Total(f, a, {j \in A : j < m})
             y == Total(f, b, {j \in B : j < m})
  <2>2. (m \in A <=> Appears(f, a, m, x)) /\ (m \in B <=> Appears(f, b, m, y))
    BY <2>1, VisibleMeans, StepsType
  <2> HIDE DEF A, B, x, y
  <2>3. /\ \A c \in f.steps[m].show \cup f.steps[m].hide : ~IsScore(c) /\ c.field <= k
        /\ f.steps[m].personalOnly => \E e \in EmailSteps(f) : e <= k
    BY DEF JumpsSettled
  <2>4. k \in Nat /\ EmailSteps(f) \subseteq Nat
    BY DEF Positions, EmailSteps
  <2>5. \A c \in f.steps[m].show \cup f.steps[m].hide : ~IsScore(c) /\ c.field < h
    <3>1. \A c \in f.steps[m].show \cup f.steps[m].hide : c \in Condition(Nat)
      BY <2>1, RuleOfStep
    <3>2. \A c \in f.steps[m].show \cup f.steps[m].hide : c.field \in Nat
      BY <2>3, <3>1 DEF Condition, IsScore
    <3> QED
      BY <2>3, <2>4, <3>2
  <2>6. f.steps[m].personalOnly => \E e \in EmailSteps(f) : e < h
    BY <2>3, <2>4
  <2>7. Appears(f, a, m, x) <=> Appears(f, b, m, y)
    BY <2>1, <2>5, <2>6, SameAppears
  <2> QED
    BY <2>2, <2>7
<1>2. ScreenOf(f, t) \cap A = ScreenOf(f, t) \cap B
  BY <1>1
<1> QED
  BY <1>2 DEF LandOn

\* Nobody lands ahead by a jump to a step that is not.
LEMMA NoWayAhead ==
    ASSUME NEW f, NEW visible, Shown(f, visible), NEW k \in visible, NEW t \in Positions(f), t <= k,
           NEW end \in Nat, k <= end
    PROVE  {n \in LandOn(f, visible, t) : n > end} = {}
<1> DEFINE S == ScreenOf(f, t) \cap visible
<1>0. Positions(f) \subseteq Nat /\ visible \subseteq Positions(f)
  BY DEF Shown, Positions
<1> SUFFICES ASSUME NEW n \in LandOn(f, visible, t), n > end PROVE FALSE
  OBVIOUS
<1>1. S # {} /\ n = Min(S) /\ S \in SUBSET Nat
  BY <1>0 DEF LandOn
<1> HIDE DEF S
<1>2. n \in S /\ \A m \in S : n <= m
  BY <1>1, MinIsLeast
<1>3. n \in ScreenOf(f, t) /\ n \in Nat /\ k \in Positions(f) /\ ~IsHidden(f.steps[k])
  BY <1>0, <1>1, <1>2 DEF S, Shown
<1>4. k \in Nat /\ k <= n
  BY <1>0, <1>3
<1>5. k \in ScreenOf(f, t)
  BY <1>3, <1>4, ScreenHasNoGaps
<1>6. n <= k
  BY <1>2, <1>5 DEF S
<1> QED
  BY <1>3, <1>4, <1>6

LEMMA RulesType ==
    ASSUME NEW step \in Step
    PROVE  /\ DOMAIN step.goto \subseteq Nat
           /\ \A i \in DOMAIN step.goto : step.goto[i].target \in Nat
<1>1. step.goto \in Seq(Rule)
  BY DEF Step
<1> DEFINE rules == step.goto
<1> HIDE DEF rules
<1>2. rules \in Seq(Rule)
  BY <1>1 DEF rules
<1>3. DOMAIN rules \subseteq Nat /\ \A i \in DOMAIN rules : rules[i] \in Rule
  BY <1>2
<1>4. DOMAIN rules \subseteq Nat /\ \A i \in DOMAIN rules : rules[i].target \in Nat
  BY <1>3 DEF Rule
<1> QED
  BY <1>4 DEF rules

\* The rules of a step above it take both to the same place.
LEMMA SameGoesTo ==
    ASSUME NEW f, f.steps \in Seq(Step), JumpsSettled(f), NEW a \in Answers(f), NEW b \in Answers(f),
           NEW h \in Nat, Agree(a, b, h),
           NEW k \in VisibleSteps(f, a) \cap VisibleSteps(f, b), k < h, NEW end \in Nat, k <= end
    PROVE  GoesTo(f, a, VisibleSteps(f, a), k, end) = GoesTo(f, b, VisibleSteps(f, b), k, end)
<1> DEFINE A == VisibleSteps(f, a)
           B == VisibleSteps(f, b)
           To(V, r) == IF r.target = 0 THEN {Len(f.steps) + 1}
                       ELSE {n \in LandOn(f, V, r.target) : n > end}
           R == ResolveGoto(f.steps[k], a[k])
<1>0. Shown(f, A) /\ Shown(f, B) /\ k \in Positions(f) /\ k \in Nat
  BY VisibleIsShown DEF Shown, Positions
<1>1. a[k] = b[k]
  BY <1>0, AnswersType DEF Agree
<1>2. /\ GoesTo(f, a, A, k, end) = UNION {To(A, r) : r \in R}
      /\ GoesTo(f, b, B, k, end) = UNION {To(B, r) : r \in R}
  BY <1>1 DEF GoesTo
<1>3. \A r \in R : \E i \in DOMAIN f.steps[k].goto : r = f.steps[k].goto[i]
  <2> DEFINE step == f.steps[k]
             matching == {i \in DOMAIN step.goto : Matches(step.goto[i], a[k])}
  <2>0. DOMAIN step.goto \subseteq Nat
    BY <1>0, StepsType, RulesType
  <2>1. matching \in SUBSET Nat
    BY <2>0
  <2>2. R = IF step.kind = "checkbox" \/ matching = {} THEN {} ELSE {step.goto[Min(matching)]}
    BY DEF ResolveGoto
  <2>3. matching # {} => Min(matching) \in DOMAIN step.goto
    <3>1. matching # {} => Min(matching) \in matching
      <4> HIDE DEF matching
      <4> QED
        BY <2>1, MinIsLeast
    <3> QED
      BY <3>1
  <2> HIDE DEF matching, step, R
  <2>4. \A r \in R : \E i \in DOMAIN step.goto : r = step.goto[i]
    BY <2>2, <2>3
  <2> QED
    BY <2>4 DEF step
<1> HIDE DEF R, A, B
<1>4. ASSUME NEW r \in R PROVE To(A, r) = To(B, r)
  <2>1. PICK i \in DOMAIN f.steps[k].goto : r = f.steps[k].goto[i]
    BY <1>3
  <2>2. r.target \in Nat
    <3>1. f.steps[k] \in Step
      BY <1>0, StepsType
    <3> QED
      BY <2>1, <3>1, RulesType
  <2>3. CASE r.target = 0
    BY <2>3
  <2>4. CASE r.target \notin Positions(f)
    BY <2>4 DEF LandOn
  <2>5. CASE r.target \in Positions(f) /\ r.target <= k
    BY <1>0, <2>5, NoWayAhead DEF A, B
  <2>6. CASE r.target \in Positions(f) /\ r.target > k
    <3>1. LandOn(f, A, r.target) = LandOn(f, B, r.target)
      BY <1>0, <2>1, <2>6, SameLanding DEF A, B
    <3> QED
      BY <3>1
  <2> QED
    BY <1>0, <2>2, <2>3, <2>4, <2>5, <2>6
<1>5. UNION {To(A, r) : r \in R} = UNION {To(B, r) : r \in R}
  <2> HIDE DEF To
  <2> QED
    BY <1>4
<1> QED
  BY <1>2, <1>5 DEF A, B

\* ... and so does the end of a screen above it.
LEMMA SameStop ==
    ASSUME NEW f, f.steps \in Seq(Step), JumpsSettled(f), NEW a \in Answers(f), NEW b \in Answers(f),
           NEW h \in Nat, Agree(a, b, h),
           NEW S \in SUBSET (VisibleSteps(f, a) \cap VisibleSteps(f, b)), Max(S) \in Nat,
           \A m \in S : m < h /\ m <= Max(S)
    PROVE  NextStop(f, a, VisibleSteps(f, a), S) = NextStop(f, b, VisibleSteps(f, b), S)
<1> DEFINE end == Max(S)
           Ga(k) == GoesTo(f, a, VisibleSteps(f, a), k, end)
           Gb(k) == GoesTo(f, b, VisibleSteps(f, b), k, end)
           ma == {k \in S : Ga(k) # {}}
           mb == {k \in S : Gb(k) # {}}
<1>1. \A k \in S : Ga(k) = Gb(k)
  BY SameGoesTo
<1>2. /\ NextStop(f, a, VisibleSteps(f, a), S) = IF ma = {} THEN end + 1 ELSE Min(Ga(Min(ma)))
      /\ NextStop(f, b, VisibleSteps(f, b), S) = IF mb = {} THEN end + 1 ELSE Min(Gb(Min(mb)))
  BY DEF NextStop
<1>3. S \subseteq Nat
  BY VisibleMeans, StepsType DEF Positions
<1> HIDE DEF Ga, Gb, end
<1>4. ma = mb /\ ma \in SUBSET Nat /\ ma \subseteq S
  BY <1>1, <1>3
<1>5. ma # {} => Min(ma) \in S
  <2> HIDE DEF ma, mb
  <2> QED
    BY <1>4, MinIsLeast
<1> HIDE DEF ma, mb
<1>6. ma # {} => Ga(Min(ma)) = Gb(Min(mb))
  BY <1>1, <1>4, <1>5
<1> QED
  BY <1>2, <1>4, <1>6

\* The path for answers that agree above a question of the path, the first of
\* its screen, is the same down to that question.
LEMMA SamePath ==
    ASSUME NEW f, f.steps \in Seq(Step), Forward(f), JumpsSettled(f),
           NEW a \in Answers(f), NEW b \in Answers(f), NEW h \in RuntimeSteps(f, a), Agree(a, b, h),
           \A m \in ScreenOf(f, h) \cap VisibleSteps(f, a) : h <= m
    PROVE  \A m \in Nat : m <= h => (m \in RuntimeSteps(f, a) <=> m \in RuntimeSteps(f, b))
<1> DEFINE A == VisibleSteps(f, a)
           B == VisibleSteps(f, b)
           N == Len(f.steps)
<1>0. Shown(f, A) /\ Shown(f, B)
  BY VisibleIsShown
<1>1. PICK p : Gathers(f, a, A, p) /\ RuntimeSteps(f, a) = p[1]
  BY <1>0, PathIsGathered DEF RuntimeSteps
<1>2. PICK q : Gathers(f, b, B, q) /\ RuntimeSteps(f, b) = q[1]
  BY <1>0, PathIsGathered DEF RuntimeSteps
<1>3. N \in Nat /\ Positions(f) = 1..N /\ A \subseteq 1..N /\ B \subseteq 1..N
  BY <1>0, StepsType DEF Shown, Positions
<1> HIDE DEF N
<1>4. /\ \A n \in 1..N + 1 : \A m \in p[n] : m \in A /\ n <= m
      /\ \A n \in 1..N + 1 : \A m \in q[n] : m \in B /\ n <= m
  BY <1>0, <1>1, <1>2, FromIsShown DEF N
<1>5. h \in A /\ h \in 1..N /\ h \in Nat
  BY <1>1, <1>3, <1>4
<1>6. \A n \in Nat : n <= h => (n \in A <=> n \in B)
  BY <1>5, SameVisible
<1>7. \A n \in A : n < h => h \notin ScreenOf(f, n)
  <2> SUFFICES ASSUME NEW n \in A, n < h, h \in ScreenOf(f, n) PROVE FALSE
    OBVIOUS
  <2>1. n \in ScreenOf(f, h)
    <3>1. ScreenOf(f, h) = ScreenOf(f, n)
      BY <1>3, ScreenIsOne
    <3> QED
      BY <3>1 DEF ScreenOf
  <2>2. h <= n /\ n \in Nat
    BY <1>3, <2>1
  <2> QED
    BY <1>5, <2>2
<1> DEFINE Same(n) == \A m \in Nat : m <= h => (m \in p[n] <=> m \in q[n])
           S == {n \in 1..h : h \in p[n] => Same(n)}
<1>8. h \in S
  <2>1. h \in B
    BY <1>5, <1>6
  <2>2. h \in Members(f, A, h) /\ h \in Members(f, B, h)
    BY <1>0, <1>5, <2>1, MembersType
  <2>3. h \in p[h] /\ h \in q[h]
    BY <1>1, <1>2, <1>3, <1>5, <2>1, <2>2 DEF Gathers
  <2>4. \A m \in Nat : m <= h => (m \in p[h] => m = h) /\ (m \in q[h] => m = h)
    <3>1. h \in 1..N + 1
      BY <1>3, <1>5
    <3>2. \A m \in Nat : m <= h /\ h <= m => m = h
      BY <1>5
    <3> QED
      BY <1>4, <3>1, <3>2
  <2>5. Same(h)
    BY <2>3, <2>4
  <2> QED
    BY <1>5, <2>5
<1>9. ASSUME NEW n \in 1..h - 1, \A m \in n + 1..h : m \in S PROVE n \in S
  <2>0. n \in 1..h /\ n \in Positions(f) /\ n \in Nat /\ n < h /\ n + 1 \in n + 1..h /\ n <= h
    BY <1>3, <1>5
  <2> SUFFICES ASSUME h \in p[n] PROVE Same(n)
    BY <2>0
  <2>1. CASE n \notin A
    <3>1. p[n] = p[n + 1] /\ q[n] = q[n + 1]
      BY <1>1, <1>2, <1>6, <2>0, <2>1 DEF Gathers
    <3>2. Same(n + 1)
      BY <1>9, <2>0, <3>1
    <3> QED
      BY <3>1, <3>2
  <2>2. CASE n \in A
    <3> DEFINE ma == Members(f, A, n)
               mb == Members(f, B, n)
               x == NextStop(f, a, A, ma)
    <3>1. n \in B
      BY <1>6, <2>0, <2>2
    <3>2. /\ n \in ma /\ ma \subseteq A /\ mb \subseteq B
          /\ Max(ma) \in ma /\ \A m \in ma : n <= m /\ m <= Max(ma)
      BY <1>0, <2>2, <3>1, MembersType
    <3>3. \A m : /\ m \in ma <=> m \in ScreenOf(f, n) /\ m \in A /\ m >= n
                 /\ m \in mb <=> m \in ScreenOf(f, n) /\ m \in B /\ m >= n
      BY DEF Members
    <3>4. h \notin ScreenOf(f, n)
      BY <1>7, <2>0, <2>2
    <3>5. \A m \in Nat : m \in ScreenOf(f, n) /\ m >= n => m < h
      <4> SUFFICES ASSUME NEW m \in Nat, m \in ScreenOf(f, n), m >= n, ~(m < h) PROVE FALSE
        OBVIOUS
      <4>1. ~IsHidden(f.steps[h]) /\ h \in Positions(f)
        BY <1>0, <1>3, <1>5 DEF Shown
      <4>2. n <= h /\ h <= m
        BY <1>5, <2>0
      <4>3. h \in ScreenOf(f, n)
        BY <2>0, <4>1, <4>2, ScreenHasNoGaps
      <4> QED
        BY <3>4, <4>3
    <3>6. ma = mb
      <4>1. A \subseteq Nat /\ B \subseteq Nat
        BY <1>3
      <4>2. \A m \in Nat : m < h => (m \in A <=> m \in B)
        BY <1>5, <1>6
      <4> HIDE DEF ma, mb, A, B
      <4>3. \A m : m \in ma <=> m \in mb
        BY <3>3, <3>5, <4>1, <4>2
      <4> QED
        BY <4>3
    <3>7. x \in Max(ma) + 1..N + 1
      BY <1>0, <2>2, NextStopAhead DEF N
    <3>8. /\ p[n] = ma \cup p[x]
          /\ q[n] = mb \cup q[NextStop(f, b, B, mb)]
      BY <1>1, <1>2, <2>0, <2>2, <3>1 DEF Gathers
    <3> HIDE DEF ma, mb
    <3>9. Max(ma) \in Nat /\ \A m \in ma : m < h /\ m <= Max(ma)
      <4>1. \A m \in ma : m \in Nat
        BY <1>3, <3>2
      <4> QED
        BY <3>2, <3>3, <3>5, <4>1
    <3>10. NextStop(f, b, B, mb) = x
      <4>1. ma \in SUBSET (A \cap B)
        BY <3>2, <3>6
      <4>2. NextStop(f, a, A, ma) = NextStop(f, b, B, ma)
        BY <1>5, <3>9, <4>1, SameStop
      <4> QED
        BY <3>6, <4>2
    <3> HIDE DEF x
    <3>11. h \in p[x]
      BY <3>8, <3>9, <1>5
    <3>12. x \in n + 1..h
      <4>1. x \in 1..N + 1 /\ n + 1 <= x
        BY <1>3, <2>0, <3>2, <3>7, <3>9
      <4>2. x <= h
        BY <1>4, <3>11, <4>1
      <4> QED
        BY <1>5, <2>0, <4>1, <4>2
    <3>13. Same(x)
      BY <1>9, <3>11, <3>12
    <3> QED
      BY <3>6, <3>8, <3>10, <3>13
  <2> QED
    BY <2>1, <2>2
<1> HIDE DEF S
<1>10. 1 \in S
  <2> DEFINE M == h - 1
  <2>1. M \in Nat /\ M + 1 = h
    BY <1>5
  <2>2. M + 1 \in S
    BY <1>8, <2>1
  <2>3. \A n \in 1..M : (\A m \in n + 1..M + 1 : m \in S) => n \in S
    BY <1>9, <2>1
  <2> HIDE DEF M
  <2>4. 1..M + 1 \subseteq S
    BY <2>1, <2>2, <2>3, EveryNumberBack
  <2> QED
    BY <2>1, <2>4
<1> QED
  BY <1>1, <1>2, <1>10 DEF S

-----------------------------------------------------------------------------
(* Places on a path.                                                        *)

\* Places are in the order of the steps.
LEMMA PlaceOrder ==
    ASSUME NEW S \in SUBSET Nat, IsFiniteSet(S)
    PROVE  /\ Cardinality(S) \in Nat
           /\ \A n \in S : IndexOf(S, n) \in Nat /\ IndexOf(S, n) < Cardinality(S)
           /\ \A n, m \in S : n < m <=> IndexOf(S, n) < IndexOf(S, m)
           /\ \A n, m \in S : n = m <=> IndexOf(S, n) = IndexOf(S, m)
<1> DEFINE Below(n) == {k \in S : k < n}
<1>1. Cardinality(S) \in Nat
  BY FS_CardinalityType
<1>2. \A n \in S : IsFiniteSet(Below(n)) /\ Cardinality(Below(n)) \in Nat
  BY FS_Subset, FS_CardinalityType
<1>3. \A n \in S : Cardinality(Below(n)) < Cardinality(S)
  <2> SUFFICES ASSUME NEW n \in S PROVE Cardinality(Below(n)) < Cardinality(S)
    OBVIOUS
  <2>1. Below(n) \in SUBSET S /\ n \notin Below(n)
    OBVIOUS
  <2> HIDE DEF Below
  <2>2. Cardinality(Below(n)) <= Cardinality(S)
         /\ (Cardinality(Below(n)) = Cardinality(S) => Below(n) = S)
    BY <2>1, FS_Subset
  <2> QED
    BY <1>1, <1>2, <2>1, <2>2
<1>4. ASSUME NEW n \in S, NEW m \in S, n < m PROVE Cardinality(Below(n)) < Cardinality(Below(m))
  <2>0. n \in Nat /\ m \in Nat /\ \A k \in S : k \in Nat
    OBVIOUS
  <2>3. ~(n < n) /\ \A k \in S : k < n => k < m
    BY <1>4, <2>0
  <2>1. Below(n) \in SUBSET Below(m) /\ n \notin Below(n) /\ n \in Below(m)
    BY <1>4, <2>3, Zenon
  <2> HIDE DEF Below
  <2>2. Cardinality(Below(n)) <= Cardinality(Below(m))
         /\ (Cardinality(Below(n)) = Cardinality(Below(m)) => Below(n) = Below(m))
    BY <1>2, <2>1, FS_Subset
  <2> QED
    BY <1>2, <2>1, <2>2
<1>5. \A n : IndexOf(S, n) = Cardinality(Below(n))
  BY DEF IndexOf
<1> HIDE DEF Below
<1>6. \A n, m \in S : n < m => IndexOf(S, n) < IndexOf(S, m)
  BY <1>4, <1>5
<1>7. \A n \in S : IndexOf(S, n) \in Nat /\ IndexOf(S, n) < Cardinality(S)
  BY <1>2, <1>3, <1>5
<1>8. ASSUME NEW n \in S, NEW m \in S
      PROVE  (n < m <=> IndexOf(S, n) < IndexOf(S, m)) /\ (n = m <=> IndexOf(S, n) = IndexOf(S, m))
  <2>1. n \in Nat /\ m \in Nat /\ IndexOf(S, n) \in Nat /\ IndexOf(S, m) \in Nat
    BY <1>7
  <2>2. (n < m => IndexOf(S, n) < IndexOf(S, m)) /\ (m < n => IndexOf(S, m) < IndexOf(S, n))
    BY <1>6
  <2>3. n < m \/ m < n \/ n = m
    BY <2>1
  <2> QED
    BY <2>1, <2>2, <2>3
<1> QED
  BY <1>1, <1>7, <1>8

\* There is a step at every place of a path.
LEMMA PlaceTaken ==
    ASSUME NEW S \in SUBSET Nat, IsFiniteSet(S), NEW i \in Nat, i < Cardinality(S)
    PROVE  StepAt(S, i) \in S /\ IndexOf(S, StepAt(S, i)) = i
<1> DEFINE Taken(j) == \E n \in S : IndexOf(S, n) = j
           K == {j \in Nat : j < Cardinality(S) => Taken(j)}
<1>1. Cardinality(S) \in Nat
  BY FS_CardinalityType
<1>2. 0 \in K
  <2> SUFFICES ASSUME 0 < Cardinality(S) PROVE Taken(0)
    OBVIOUS
  <2>1. S # {}
    BY <1>1, FS_EmptySet
  <2>2. Min(S) \in S /\ \A m \in S : Min(S) <= m
    BY <2>1, MinIsLeast
  <2>3. {k \in S : k < Min(S)} = {}
    <3>1. Min(S) \in Nat /\ \A k \in S : k \in Nat /\ Min(S) <= k
      BY <2>2
    <3>2. \A k \in S : ~(k < Min(S))
      BY <3>1
    <3> QED
      BY <3>2
  <2>4. IndexOf(S, Min(S)) = 0
    BY <2>3, FS_EmptySet DEF IndexOf
  <2> QED
    BY <2>2, <2>4
<1>3. ASSUME NEW j \in Nat, j \in K PROVE j + 1 \in K
  <2> SUFFICES ASSUME j + 1 < Cardinality(S) PROVE Taken(j + 1)
    OBVIOUS
  <2>1. PICK n \in S : IndexOf(S, n) = j
    BY <1>1, <1>3
  <2> DEFINE Below(k) == {m \in S : m < k}
             rest == {m \in S : m > n}
  <2>0. n \in Nat /\ \A m \in S : m \in Nat /\ (m < n \/ m = n \/ m > n)
    OBVIOUS
  <2>2. /\ IsFiniteSet(Below(n)) /\ n \notin Below(n) /\ Cardinality(Below(n)) = j
    BY <2>1, FS_Subset DEF IndexOf
  <2>3. Cardinality(Below(n) \cup {n}) = j + 1
    BY <2>2, FS_AddElement
  <2>4. rest # {}
    <3> SUFFICES ASSUME rest = {} PROVE FALSE
      OBVIOUS
    <3>1. \A m \in S : m < n \/ m = n
      BY <2>0
    <3>2. S = Below(n) \cup {n}
      BY <3>1
    <3> QED
      BY <1>1, <2>3, <3>2
  <2>5. Min(rest) \in rest /\ \A m \in rest : Min(rest) <= m
    <3>1. rest \in SUBSET Nat
      OBVIOUS
    <3> HIDE DEF rest
    <3> QED
      BY <2>4, <3>1, MinIsLeast
  <2> DEFINE next == Min(rest)
  <2>6. next \in S /\ next > n /\ \A m \in S : m > n => next <= m
    BY <2>5
  <2> HIDE DEF next, rest
  <2>7. Below(next) = Below(n) \cup {n}
    <3>1. next \in Nat
      BY <2>0, <2>6
    <3>2. \A m \in S : m < next <=> m < n \/ m = n
      BY <2>0, <2>6, <3>1
    <3> QED
      BY <3>2
  <2>8. IndexOf(S, next) = j + 1
    BY <2>3, <2>7 DEF IndexOf
  <2> QED
    BY <2>6, <2>8
<1> HIDE DEF K
<1>4. i \in K
  BY <1>2, <1>3, EveryNumber
<1> QED
  BY <1>4 DEF K, StepAt

LEMMA StepAtPlace ==
    ASSUME NEW S \in SUBSET Nat, IsFiniteSet(S), NEW n \in S
    PROVE  StepAt(S, IndexOf(S, n)) = n
<1> DEFINE i == IndexOf(S, n)
<1>1. i \in Nat /\ i < Cardinality(S)
  BY PlaceOrder
<1> HIDE DEF i
<1>2. StepAt(S, i) \in S /\ IndexOf(S, StepAt(S, i)) = i
  BY <1>1, PlaceTaken
<1> QED
  BY <1>2, PlaceOrder DEF i

\* The first question of the screen of step h, of those in S.
First(f, S, h) == h \in S /\ \A m \in ScreenOf(f, h) \cap S : h <= m

LEMMA FirstOfScreen ==
    ASSUME NEW f, NEW S \in SUBSET Positions(f), NEW n \in S
    PROVE  LET h == Min(ScreenOf(f, n) \cap S) IN
           /\ First(f, S, h) /\ h <= n /\ h \in ScreenOf(f, n)
           /\ First(f, S, n) => h = n
<1> DEFINE T == ScreenOf(f, n) \cap S
           h == Min(T)
<1>0. Positions(f) \subseteq Nat
  BY DEF Positions
<1>1. T \in SUBSET Nat /\ n \in T
  BY <1>0 DEF ScreenOf
<1> HIDE DEF T
<1>2. h \in T /\ \A m \in T : h <= m
  BY <1>1, MinIsLeast
<1> HIDE DEF h
<1>3. h \in ScreenOf(f, n) /\ h \in S /\ h <= n /\ h \in Nat /\ n \in Nat
  BY <1>1, <1>2 DEF T
<1>4. ScreenOf(f, h) = ScreenOf(f, n)
  BY <1>3, ScreenIsOne
<1>5. First(f, S, h)
  BY <1>2, <1>3, <1>4 DEF First, T
<1>6. First(f, S, n) => h = n
  BY <1>3 DEF First
<1>7. First(f, S, h) /\ h <= n /\ h \in ScreenOf(f, n) /\ (First(f, S, n) => h = n)
  BY <1>3, <1>5, <1>6
<1> QED
  BY <1>7 DEF h, T

\* Where the page is put: at the first question of a screen, no further than
\* asked, and there it stays.
LEMMA ClampMeans ==
    ASSUME NEW f, NEW S \in SUBSET Positions(f), Len(f.steps) \in Nat, S # {}, NEW i \in Nat
    PROVE  LET c == Clamp(f, S, i) IN
           /\ c \in Nat /\ c < Cardinality(S) /\ c <= i
           /\ StepAt(S, c) \in S
           /\ First(f, S, StepAt(S, c))
           /\ Clamp(f, S, c) = c
           /\ i < Cardinality(S) => StepAt(S, c) \in ScreenOf(f, StepAt(S, i))
<1> DEFINE n == IF i >= Cardinality(S) THEN Max(S) ELSE StepAt(S, i)
           h == Min(ScreenOf(f, n) \cap S)
           c == IndexOf(S, h)
<1>0. S \in SUBSET Nat /\ IsFiniteSet(S) /\ \A m \in S : m <= Len(f.steps)
  <2>1. IsFiniteSet(1..Len(f.steps))
    BY FS_Interval
  <2>2. S \in SUBSET (1..Len(f.steps))
    BY DEF Positions
  <2>3. IsFiniteSet(S)
    BY <2>1, <2>2, FS_Subset
  <2> QED
    BY <2>2, <2>3
<1>1. Cardinality(S) \in Nat /\ Clamp(f, S, i) = c
  BY <1>0, PlaceOrder DEF Clamp
<1>2. n \in S /\ IndexOf(S, n) <= i
  <2>1. CASE i >= Cardinality(S)
    <3>1. Max(S) \in S
      BY <1>0, MaxIsGreatest
    <3>2. IndexOf(S, Max(S)) \in Nat /\ IndexOf(S, Max(S)) < Cardinality(S)
      BY <1>0, <3>1, PlaceOrder
    <3> QED
      BY <1>1, <2>1, <3>1, <3>2
  <2>2. CASE ~(i >= Cardinality(S))
    <3>1. i < Cardinality(S)
      BY <1>1, <2>2
    <3>2. StepAt(S, i) \in S /\ IndexOf(S, StepAt(S, i)) = i
      BY <1>0, <3>1, PlaceTaken
    <3> QED
      BY <2>2, <3>2
  <2> QED
    BY <2>1, <2>2
<1>3. i < Cardinality(S) => n = StepAt(S, i)
  BY <1>1
<1> HIDE DEF n
<1>4. First(f, S, h) /\ h <= n /\ h \in ScreenOf(f, n) /\ h \in S
  BY <1>2, FirstOfScreen DEF First
<1> HIDE DEF h
<1>5. c \in Nat /\ c < Cardinality(S) /\ StepAt(S, c) = h
  BY <1>0, <1>4, PlaceOrder, StepAtPlace
<1>6. c <= i
  <2>1. c <= IndexOf(S, n) /\ IndexOf(S, n) \in Nat
    <3>1. h = n \/ h < n
      BY <1>0, <1>2, <1>4
    <3>2. IndexOf(S, n) \in Nat /\ (h < n => c < IndexOf(S, n))
      BY <1>0, <1>2, <1>4, PlaceOrder
    <3> QED
      BY <1>5, <3>1, <3>2
  <2> QED
    BY <1>2, <1>5, <2>1
<1>7. Clamp(f, S, c) = c
  <2>1. ~(c >= Cardinality(S))
    BY <1>1, <1>5
  <2>2. Min(ScreenOf(f, h) \cap S) = h
    BY <1>4, FirstOfScreen
  <2>3. Clamp(f, S, c) = IndexOf(S, Min(ScreenOf(f, StepAt(S, c)) \cap S))
    BY <2>1 DEF Clamp
  <2> QED
    BY <1>5, <2>2, <2>3
<1> HIDE DEF c
<1>8. /\ c \in Nat /\ c < Cardinality(S) /\ c <= i
      /\ StepAt(S, c) \in S
      /\ First(f, S, StepAt(S, c))
      /\ Clamp(f, S, c) = c
      /\ i < Cardinality(S) => StepAt(S, c) \in ScreenOf(f, StepAt(S, i))
  BY <1>3, <1>4, <1>5, <1>6, <1>7
<1> QED
  BY <1>1, <1>8

\* The path of a form.
LEMMA PathIsFinite ==
    ASSUME NEW f, f.steps \in Seq(Step), NEW a
    PROVE  LET S == RuntimeSteps(f, a) IN
           /\ S \in SUBSET Positions(f) /\ S \in SUBSET Nat
           /\ IsFiniteSet(S) /\ Cardinality(S) \in Nat /\ Cardinality(S) <= Len(f.steps)
<1> DEFINE S == RuntimeSteps(f, a)
           N == Len(f.steps)
<1>1. S \in SUBSET Positions(f) /\ N \in Nat
  BY PathType, StepsType
<1>2. Positions(f) = 1..N /\ S \in SUBSET Nat
  BY <1>1 DEF Positions
<1> HIDE DEF S, N
<1>3. IsFiniteSet(1..N) /\ Cardinality(1..N) = N
  BY <1>1, FS_Interval
<1>4. IsFiniteSet(S) /\ Cardinality(S) \in Nat /\ Cardinality(S) <= N
  BY <1>1, <1>2, <1>3, FS_Subset, FS_CardinalityType
<1>5. /\ S \in SUBSET Positions(f) /\ S \in SUBSET Nat
      /\ IsFiniteSet(S) /\ Cardinality(S) \in Nat /\ Cardinality(S) <= N
  BY <1>1, <1>2, <1>4
<1> QED
  BY <1>5 DEF S, N

\* What the answers a lead to before the place i holds what its button took.
PassedIn(f, a, i) ==
    \A n \in RuntimeSteps(f, a) :
       IndexOf(RuntimeSteps(f, a), n) < i => ValidAnswer(f.steps[n], a[n])

\* Another answer from the question h on: h keeps its place, and what was
\* passed stays passed.
LEMMA SamePlace ==
    ASSUME NEW f, f.steps \in Seq(Step), Forward(f), JumpsSettled(f),
           NEW a \in Answers(f), NEW b \in Answers(f), NEW h, Agree(a, b, h),
           First(f, RuntimeSteps(f, a), h)
    PROVE  LET i == IndexOf(RuntimeSteps(f, a), h) IN
           /\ h \in RuntimeSteps(f, b)
           /\ IndexOf(RuntimeSteps(f, b), h) = i
           /\ PassedIn(f, a, i) => PassedIn(f, b, i)
<1> DEFINE A == RuntimeSteps(f, a)
           B == RuntimeSteps(f, b)
           i == IndexOf(A, h)
<1>1. /\ h \in A /\ h \in Nat
      /\ \A m \in ScreenOf(f, h) \cap VisibleSteps(f, a) : h <= m
  BY PathIsFinite, PathType DEF First
<1>2. \A m \in Nat : m <= h => (m \in A <=> m \in B)
  BY <1>1, SamePath
<1>3. /\ A \in SUBSET Nat /\ B \in SUBSET Nat /\ IsFiniteSet(A) /\ IsFiniteSet(B)
      /\ A \subseteq Positions(f)
  BY PathIsFinite
<1> HIDE DEF A, B
<1>4. h \in B
  BY <1>1, <1>2
<1>5. {m \in A : m < h} = {m \in B : m < h}
  <2>1. \A m \in Nat : m < h => m <= h
    BY <1>1
  <2> QED
    BY <1>1, <1>2, <1>3, <2>1
<1>6. IndexOf(B, h) = i
  BY <1>5 DEF IndexOf
<1>7. ASSUME NEW n \in B, IndexOf(B, n) < i
      PROVE  n \in A /\ IndexOf(A, n) < i /\ a[n] = b[n]
  <2>1. n < h
    BY <1>3, <1>4, <1>6, <1>7, PlaceOrder
  <2>2. n \in A
    BY <1>3, <1>5, <2>1
  <2>3. IndexOf(A, n) < i
    BY <1>1, <1>3, <2>1, <2>2, PlaceOrder
  <2>4. n \in DOMAIN a /\ n \in Nat
    BY <1>3, <2>2, AnswersType
  <2> QED
    BY <2>1, <2>2, <2>3, <2>4 DEF Agree
<1>8. PassedIn(f, a, i) => PassedIn(f, b, i)
  BY <1>7 DEF PassedIn, A, B
<1> QED
  BY <1>4, <1>6, <1>8 DEF A, B

-----------------------------------------------------------------------------
(* Types.                                                                   *)

TypeInv == form \in Forms /\ TypeOK

LEMMA FormType ==
    ASSUME form \in Forms
    PROVE  /\ form.steps \in Seq(Step) /\ Len(form.steps) \in Nat
           /\ Positions(form) = 1..Len(form.steps)
           /\ \A n \in Positions(form) : form.steps[n] \in Step
<1>1. form.steps \in Seq(Step)
  BY FormsAssumption
<1> QED
  BY <1>1, StepsType DEF Positions

\* What the person gives is a value.
LEMMA RepliesType ==
    ASSUME NEW step \in Step, NEW v \in Replies(step)
    PROVE  v \in [list: BOOLEAN, picks: SUBSET Tokens] /\ WellFormed(v)
<1>1. step.accepts \subseteq Tokens /\ Tokens \subseteq Int
  BY TokensAssumption DEF Step
<1>2. \A t \in Tokens : One(t) \in [list: BOOLEAN, picks: SUBSET Tokens] /\ WellFormed(One(t))
  BY <1>1 DEF One, WellFormed, Value
<1>3. \A S \in SUBSET Tokens : /\ Many(S) \in [list: BOOLEAN, picks: SUBSET Tokens]
                               /\ WellFormed(Many(S))
  BY <1>1 DEF Many, WellFormed, Value
<1>4. NoAnswer \in [list: BOOLEAN, picks: SUBSET Tokens] /\ WellFormed(NoAnswer)
  BY DEF NoAnswer, WellFormed, Value
<1>5. \/ v = NoAnswer
      \/ \E t \in Tokens : v = One(t)
      \/ \E S \in SUBSET Tokens : v = Many(S)
  BY <1>1 DEF Replies
<1> QED
  BY <1>2, <1>3, <1>4, <1>5

LEMMA AnsweredType ==
    ASSUME NEW f, NEW a \in Answers(f), NEW n \in Positions(f), f.steps[n] \in Step,
           NEW v \in Replies(f.steps[n])
    PROVE  [a EXCEPT ![n] = v] \in Answers(f)
BY RepliesType DEF Answers

LEMMA SeededType ==
    ASSUME NEW f, NEW at, NEW t \in Tokens
    PROVE  Seeded(f, at, t) \in Answers(f)
<1>1. One(t) \in [list: BOOLEAN, picks: SUBSET Tokens] /\ WellFormed(One(t))
  BY TokensAssumption DEF One, WellFormed, Value
<1>2. NoAnswer \in [list: BOOLEAN, picks: SUBSET Tokens] /\ WellFormed(NoAnswer)
  BY DEF NoAnswer, WellFormed, Value
<1> QED
  BY <1>1, <1>2 DEF Seeded, Answers

\* The place the page is put at.
LEMMA ClampType ==
    ASSUME NEW f, f.steps \in Seq(Step), NEW a, NEW i \in 0..Len(f.steps)
    PROVE  Clamp(f, RuntimeSteps(f, a), i) \in 0..Len(f.steps)
<1> DEFINE S == RuntimeSteps(f, a)
           c == Clamp(f, S, i)
<1>0. Len(f.steps) \in Nat /\ i \in Nat
  BY StepsType
<1>1. CASE S = {}
  BY <1>1 DEF Clamp
<1>2. CASE S # {}
  <2>1. S \in SUBSET Positions(f)
    BY PathIsFinite
  <2> HIDE DEF S
  <2>2. c \in Nat /\ c <= i
    BY <1>0, <1>2, <2>1, ClampMeans
  <2> QED
    BY <1>0, <2>2 DEF S
<1> QED
  BY <1>1, <1>2

\* What a render leaves.
LEMMA ShowMeans ==
    ASSUME TypeInv, NEW a, NEW t, NEW p, NEW i, Show(a, t, p, i)
    PROVE  /\ form' = form /\ answers' = a /\ touched' = t /\ phase' = p
           /\ path' = RuntimeSteps(form, a)
           /\ index' = IF Slides /\ p = "steps" THEN Clamp(form, RuntimeSteps(form, a), i) ELSE i
           /\ draft' = IF p \in {"cover", "steps"} THEN Snapshot(form, a, t, p, index') ELSE draft
<1>1. path = RuntimeSteps(form, answers)
  BY DEF TypeInv, TypeOK
<1>2. (IF a = answers THEN path ELSE RuntimeSteps(form, a)) = RuntimeSteps(form, a)
  BY <1>1
<1> QED
  BY <1>2 DEF Show

LEMMA ShowKeepsTypes ==
    ASSUME TypeInv,
           NEW a \in Answers(form), NEW t \in SUBSET Positions(form), NEW p \in Phases,
           NEW i \in 0..Len(form.steps), Show(a, t, p, i),
           afterReveal' \in BOOLEAN, strayed' \in BOOLEAN, pressed' \in BOOLEAN,
           booked' \in SUBSET Positions(form),
           \A r \in recording' : /\ Slides
                                 /\ r.step \in booked' /\ Kind(r.step) = "scheduler"
                                 /\ r.at \in 0..Len(form.steps)
    PROVE  TypeInv'
<1>1. /\ form' = form /\ answers' = a /\ touched' = t /\ phase' = p
      /\ path' = RuntimeSteps(form, a)
      /\ index' = IF Slides /\ p = "steps" THEN Clamp(form, RuntimeSteps(form, a), i) ELSE i
      /\ draft' = IF p \in {"cover", "steps"} THEN Snapshot(form, a, t, p, index') ELSE draft
  BY ShowMeans
<1>2. form \in Forms /\ form.steps \in Seq(Step)
  BY FormType DEF TypeInv
<1>3. index' \in 0..Len(form.steps)
  BY <1>1, <1>2, ClampType
<1>4. /\ draft'.answers \in Answers(form) /\ draft'.touched \subseteq Positions(form)
      /\ draft'.phase \in {"cover", "steps"} /\ draft'.index \in 0..Len(form.steps)
  <2>1. CASE p \in {"cover", "steps"}
    <3>1. draft' = Snapshot(form, a, t, p, index')
      BY <1>1, <2>1
    <3> QED
      BY <1>3, <2>1, <3>1 DEF Snapshot
  <2>2. CASE p \notin {"cover", "steps"}
    BY <1>1, <2>2 DEF TypeInv, TypeOK
  <2> QED
    BY <2>1, <2>2
<1>5. \A r \in recording' : /\ Slides'
                            /\ r.step \in booked' /\ Kind(r.step)' = "scheduler"
                            /\ r.at \in 0..Len(form'.steps)
  BY <1>1 DEF Slides, Kind
<1>6. form' \in Forms /\ path' = RuntimeSteps(form', answers')
  BY <1>1, <1>2
<1>7. /\ answers' \in Answers(form') /\ draft'.answers \in Answers(form')
      /\ touched' \subseteq Positions(form') /\ draft'.touched \subseteq Positions(form')
      /\ phase' \in Phases /\ draft'.phase \in {"cover", "steps"}
      /\ index' \in 0..Len(form'.steps) /\ draft'.index \in 0..Len(form'.steps)
      /\ booked' \subseteq Positions(form')
  BY <1>1, <1>3, <1>4
<1> QED
  BY <1>5, <1>6, <1>7 DEF TypeInv, TypeOK

\* What has been booked stays as it is.
LEMMA CalendarKept ==
    ASSUME TypeInv
    PROVE  /\ booked \in SUBSET Positions(form) /\ strayed \in BOOLEAN
           /\ \A r \in recording : /\ Slides
                                   /\ r.step \in booked /\ Kind(r.step) = "scheduler"
                                   /\ r.at \in 0..Len(form.steps)
BY DEF TypeInv, TypeOK

\* Where a completed screen takes the page.
LEMMA AdvanceShows ==
    ASSUME TypeInv, NEW a, NEW members \in SUBSET Positions(form), members # {},
           NEW at \in 0..Len(form.steps), Advance(a, members, at)
    PROVE  \E p \in {"submitting", "reveal", "steps"}, i \in 0..Len(form.steps) :
              Show(a, touched, p, i) /\ afterReveal' \in BOOLEAN
<1> DEFINE next == NextPath(a)
           last == Max(members)
           N == Len(form.steps)
<1>0. form.steps \in Seq(Step) /\ N \in Nat /\ index \in 0..N /\ afterReveal \in BOOLEAN
  BY FormType DEF TypeInv, TypeOK
<1>1. /\ next \in SUBSET Nat /\ IsFiniteSet(next)
      /\ Cardinality(next) \in Nat /\ Cardinality(next) <= N
  BY <1>0, PathIsFinite DEF NextPath
<1>2. IsFiniteSet(members) /\ Cardinality(members) \in Nat
  <2>1. IsFiniteSet(1..N)
    <3> HIDE DEF N
    <3> QED
      BY <1>0, FS_Interval
  <2>2. members \in SUBSET (1..N)
    BY DEF Positions
  <2> HIDE DEF N
  <2> QED
    BY <2>1, <2>2, FS_Subset, FS_CardinalityType
<1> DEFINE onpath == last \in next
           isLast == IF onpath THEN last = Max(next) ELSE at >= Cardinality(next) - 1
           terminal == \E n \in members : IsTerminal(form.steps[n])
           reveals == ~terminal /\ form.reveal \in members
           following == IF onpath THEN IndexOf(next, last) + 1
                        ELSE Min({at + Cardinality(members), Cardinality(next) - 1})
           revealed == IF onpath THEN IndexOf(next, last) + 1 ELSE 0
<1>3. \/ Show(a, touched, "submitting", index) /\ afterReveal' = afterReveal
      \/ Show(a, touched, "reveal", IF isLast THEN index ELSE revealed) /\ afterReveal' = isLast
      \/ ~isLast /\ Show(a, touched, "steps", following) /\ afterReveal' = afterReveal
  BY DEF Advance
<1>4. isLast \in BOOLEAN
  <2> DEFINE x == last = Max(next)
             y == at >= Cardinality(next) - 1
  <2>1. x \in BOOLEAN /\ y \in BOOLEAN
    BY <1>1
  <2>2. isLast = IF onpath THEN x ELSE y
    OBVIOUS
  <2> HIDE DEF x, y, isLast, onpath
  <2> QED
    BY <2>1, <2>2
<1>5. onpath => IndexOf(next, last) + 1 \in 0..N
  <2> SUFFICES ASSUME onpath PROVE IndexOf(next, last) + 1 \in 0..N
    OBVIOUS
  <2>1. IndexOf(next, last) \in Nat /\ IndexOf(next, last) < Cardinality(next)
    BY <1>1, PlaceOrder
  <2> QED
    BY <1>0, <1>1, <2>1
<1>6. revealed \in 0..N
  BY <1>0, <1>5
<1>7. ~isLast => following \in 0..N
  <2>1. CASE onpath
    BY <1>5, <2>1
  <2>2. CASE ~onpath /\ ~isLast
    <3> DEFINE x == at + Cardinality(members)
               y == Cardinality(next) - 1
    <3>1. y \in Nat /\ x \in Nat /\ y <= N
      BY <1>0, <1>1, <1>2, <2>2
    <3>2. following = Min({x, y})
      BY <2>2
    <3> HIDE DEF x, y, following
    <3>3. Min({x, y}) \in {x, y} /\ Min({x, y}) <= y
      BY <3>1, MinIsLeast
    <3> QED
      BY <1>0, <3>1, <3>2, <3>3
  <2> QED
    BY <2>1, <2>2
<1> HIDE DEF isLast, following, revealed, N
<1>8. (IF isLast THEN index ELSE revealed) \in 0..N
  BY <1>0, <1>6
<1>9. CASE Show(a, touched, "submitting", index) /\ afterReveal' = afterReveal
  BY <1>0, <1>9 DEF N
<1>10. CASE /\ Show(a, touched, "reveal", IF isLast THEN index ELSE revealed)
            /\ afterReveal' = isLast
  BY <1>4, <1>8, <1>10 DEF N
<1>11. CASE ~isLast /\ Show(a, touched, "steps", following) /\ afterReveal' = afterReveal
  BY <1>0, <1>7, <1>11 DEF N
<1> QED
  BY <1>3, <1>9, <1>10, <1>11

\* The page stands on the first question of a screen after every render.
LEMMA ShowStands ==
    ASSUME TypeInv, NEW a, NEW t, NEW p, NEW i \in 0..Len(form.steps), Show(a, t, p, i)
    PROVE  StartsScreen'
<1> DEFINE S == RuntimeSteps(form, a)
<1>1. /\ form' = form /\ phase' = p /\ path' = S
      /\ index' = IF Slides /\ p = "steps" THEN Clamp(form, S, i) ELSE i
  BY ShowMeans
<1>2. form.steps \in Seq(Step) /\ Len(form.steps) \in Nat /\ i \in Nat
  BY FormType DEF TypeInv
<1>3. S \in SUBSET Positions(form)
  BY <1>2, PathIsFinite
<1> HIDE DEF S
<1>4. ASSUME Slides, p = "steps", S # {}
      PROVE  index' < Cardinality(S) /\ Clamp(form, S, index') = index'
  BY <1>1, <1>2, <1>3, <1>4, ClampMeans
<1> QED
  BY <1>1, <1>4 DEF StartsScreen, Asking, Slides

StandInv == TypeInv /\ StartsScreen

\* A place on the page while it asks.
LEMMA HereMeans ==
    ASSUME StandInv, Asking
    PROVE  /\ Here \in path /\ Here \in Positions(form) /\ IndexOf(path, Here) = index
           /\ First(form, path, Here)
           /\ Here \in Screen /\ Screen \in SUBSET path /\ Screen \in SUBSET Positions(form)
<1>1. path # {} /\ index \in Nat /\ index < Cardinality(path) /\ Clamp(form, path, index) = index
  BY FormType DEF StandInv, TypeInv, TypeOK, StartsScreen, Asking
<1>2. /\ path \in SUBSET Positions(form) /\ path \in SUBSET Nat /\ IsFiniteSet(path)
      /\ Len(form.steps) \in Nat
  <2>1. path = RuntimeSteps(form, answers) /\ form.steps \in Seq(Step) /\ Len(form.steps) \in Nat
    BY FormType DEF StandInv, TypeInv, TypeOK
  <2> QED
    BY <2>1, PathIsFinite
<1>3. Here \in path /\ First(form, path, Here)
  BY <1>1, <1>2, ClampMeans DEF Here
<1>4. IndexOf(path, Here) = index
  BY <1>1, <1>2, PlaceTaken DEF Here
<1>5. Here \in Screen /\ Screen \in SUBSET path
  BY <1>3 DEF Screen, ScreenOf
<1> QED
  BY <1>2, <1>3, <1>4, <1>5

\* A render with what was booked before keeps the page standing.
LEMMA ShowKeeps ==
    ASSUME StandInv,
           NEW a \in Answers(form), NEW t \in SUBSET Positions(form), NEW p \in Phases,
           NEW i \in 0..Len(form.steps), Show(a, t, p, i),
           afterReveal' \in BOOLEAN, pressed' \in BOOLEAN, UNCHANGED calendar
    PROVE  StandInv'
<1>1. TypeInv
  BY DEF StandInv
<1>2. /\ booked' \in SUBSET Positions(form) /\ strayed' \in BOOLEAN
      /\ \A r \in recording' : /\ Slides
                               /\ r.step \in booked' /\ Kind(r.step) = "scheduler"
                               /\ r.at \in 0..Len(form.steps)
  BY <1>1, CalendarKept DEF calendar
<1>3. TypeInv'
  BY <1>1, <1>2, ShowKeepsTypes
<1>4. StartsScreen'
  BY <1>1, ShowStands
<1> QED
  BY <1>3, <1>4 DEF StandInv

LEMMA AdvanceKeeps ==
    ASSUME StandInv, NEW a \in Answers(form), NEW members \in SUBSET Positions(form), members # {},
           NEW at \in 0..Len(form.steps), Advance(a, members, at),
           pressed' \in BOOLEAN, UNCHANGED calendar
    PROVE  StandInv'
<1>1. PICK p \in {"submitting", "reveal", "steps"}, i \in 0..Len(form.steps) :
              Show(a, touched, p, i) /\ afterReveal' \in BOOLEAN
  BY AdvanceShows DEF StandInv
<1>2. touched \in SUBSET Positions(form) /\ p \in Phases
  BY DEF StandInv, TypeInv, TypeOK, Phases
<1> QED
  BY <1>1, <1>2, ShowKeeps

LEMMA StandInit == Init => StandInv
<1> SUFFICES ASSUME Init PROVE StandInv
  OBVIOUS
<1>1. PICK at \in SeededAt, t \in Tokens : answers = Seeded(form, at, t)
  BY DEF Init
<1>2. form \in Forms /\ form.steps \in Seq(Step) /\ Len(form.steps) \in Nat
  BY FormType DEF Init
<1>3. answers \in Answers(form)
  BY <1>1, SeededType
<1>4. 0 \in 0..Len(form.steps)
  BY <1>2
<1>5. phase \in {"cover", "steps"} /\ phase \in Phases
  BY DEF Init, FirstPhase, Phases
<1>6. /\ draft.answers = answers /\ draft.touched = touched
      /\ draft.phase = phase /\ draft.index = index
  BY DEF Init, Snapshot
<1>7. TypeInv
  BY <1>2, <1>3, <1>4, <1>5, <1>6 DEF Init, TypeInv, TypeOK
<1>8. ASSUME path # {} PROVE 0 < Cardinality(path) /\ Clamp(form, path, 0) = 0
  <2>1. path \in SUBSET Positions(form)
    BY <1>2, PathIsFinite DEF Init
  <2> DEFINE c == Clamp(form, path, 0)
  <2>2. c \in Nat /\ c < Cardinality(path) /\ c <= 0
    BY <1>2, <1>8, <2>1, ClampMeans
  <2> HIDE DEF c
  <2>3. c = 0
    BY <2>2
  <2> QED
    BY <2>2, <2>3 DEF c
<1>9. StartsScreen
  BY <1>8 DEF StartsScreen, Asking, Init
<1> QED
  BY <1>7, <1>9 DEF StandInv

LEMMA StandStep == StandInv /\ [Next]_vars => StandInv'
<1> SUFFICES ASSUME StandInv, [Next]_vars PROVE StandInv'
  OBVIOUS
<1>1. /\ TypeInv /\ form \in Forms
      /\ answers \in Answers(form) /\ draft.answers \in Answers(form)
      /\ touched \in SUBSET Positions(form) /\ draft.touched \in SUBSET Positions(form)
      /\ phase \in Phases
      /\ index \in 0..Len(form.steps) /\ draft.index \in 0..Len(form.steps)
      /\ afterReveal \in BOOLEAN /\ pressed \in BOOLEAN
      /\ path = RuntimeSteps(form, answers)
  BY DEF StandInv, TypeInv, TypeOK
<1>2. /\ form.steps \in Seq(Step) /\ Len(form.steps) \in Nat /\ 0 \in 0..Len(form.steps)
      /\ \A n \in Positions(form) : form.steps[n] \in Step
  BY <1>1, FormType
<1>3. /\ path \in SUBSET Positions(form) /\ path \in SUBSET Nat /\ IsFiniteSet(path)
      /\ Cardinality(path) \in Nat /\ Cardinality(path) <= Len(form.steps)
  BY <1>1, <1>2, PathIsFinite
<1>4. {"cover", "steps", "reveal", "submitting", "failed", "done"} = Phases
  BY DEF Phases
<1>5. CASE Start
  BY <1>1, <1>2, <1>4, <1>5, ShowKeeps DEF Start
<1>6. CASE Answer
  <2>1. PICK n \in Screen : \E v \in Replies(form.steps[n]) :
           Show([answers EXCEPT ![n] = v], touched, "steps", index)
    BY <1>6 DEF Answer
  <2>2. PICK v \in Replies(form.steps[n]) : Show([answers EXCEPT ![n] = v], touched, "steps", index)
    BY <2>1
  <2>3. n \in Positions(form)
    BY <1>6, HereMeans DEF Answer
  <2>4. [answers EXCEPT ![n] = v] \in Answers(form)
    BY <1>1, <1>2, <2>3, AnsweredType
  <2>5. afterReveal' \in BOOLEAN /\ pressed' \in BOOLEAN /\ UNCHANGED calendar
    BY <1>1, <1>6 DEF Answer
  <2> QED
    BY <1>1, <1>4, <2>2, <2>4, <2>5, ShowKeeps
<1>7. CASE Select
  <2>1. PICK v \in Replies(form.steps[Here]) : Advance([answers EXCEPT ![Here] = v], {Here}, index)
    BY <1>7 DEF Select
  <2>2. Here \in Positions(form)
    BY <1>7, HereMeans DEF Select
  <2>3. [answers EXCEPT ![Here] = v] \in Answers(form)
    BY <1>1, <1>2, <2>2, AnsweredType
  <2>4. pressed' \in BOOLEAN /\ UNCHANGED calendar
    BY <1>7 DEF Select
  <2> QED
    BY <1>1, <2>1, <2>2, <2>3, <2>4, AdvanceKeeps
<1>8. CASE Submit
  <2>1. Screen \in SUBSET Positions(form) /\ Screen # {}
    BY <1>8, HereMeans DEF Submit
  <2> QED
    BY <1>1, <1>8, <2>1, AdvanceKeeps DEF Submit
<1>9. CASE PlayReveal
  <2>1. {Here} \in SUBSET Positions(form) /\ {Here} # {}
    BY <1>9, HereMeans DEF PlayReveal
  <2>2. Advance(answers, {Here}, index) /\ pressed' \in BOOLEAN /\ UNCHANGED calendar
    BY <1>1, <1>9 DEF PlayReveal
  <2> QED
    BY <1>1, <2>1, <2>2, AdvanceKeeps
<1>10. CASE Book
  <2>1. Here \in Positions(form) /\ Slides
    BY <1>10, HereMeans DEF Book, Asking
  <2>2. /\ form' = form /\ answers' = answers /\ touched' = touched /\ path' = path
        /\ phase' = phase /\ index' = index /\ afterReveal' = afterReveal
        /\ strayed' = strayed /\ draft' = draft /\ pressed' = TRUE
        /\ booked' = booked \cup {Here} /\ Kind(Here) = "scheduler"
        /\ recording' = {[step |-> Here, at |-> index]}
    BY <1>10 DEF Book
  <2>3. \A r \in recording' : r.step = Here /\ r.at = index
    BY <2>2
  <2>4. TypeInv'
    BY <1>1, <2>1, <2>2, <2>3 DEF TypeInv, TypeOK, Slides, Kind
  <2>5. StartsScreen'
    BY <2>2 DEF StandInv, StartsScreen, Asking, Slides
  <2> QED
    BY <2>4, <2>5 DEF StandInv
<1>11. CASE Recorded
  <2>1. PICK r \in recording : \E v \in Replies(form.steps[r.step]) :
           Advance([answers EXCEPT ![r.step] = v], {r.step}, r.at)
           /\ strayed' = (strayed \/ ~Asking \/ Here # r.step)
    BY <1>11 DEF Recorded
  <2>2. PICK v \in Replies(form.steps[r.step]) :
           Advance([answers EXCEPT ![r.step] = v], {r.step}, r.at)
    BY <2>1
  <2>3. booked \in SUBSET Positions(form) /\ r.step \in booked /\ r.at \in 0..Len(form.steps)
    BY <1>1, CalendarKept
  <2>4. [answers EXCEPT ![r.step] = v] \in Answers(form)
    BY <1>1, <1>2, <2>3, AnsweredType
  <2>5. PICK p \in {"submitting", "reveal", "steps"}, i \in 0..Len(form.steps) :
              Show([answers EXCEPT ![r.step] = v], touched, p, i) /\ afterReveal' \in BOOLEAN
    BY <1>1, <2>2, <2>3, AdvanceShows
  <2>6. recording' = {} /\ booked' = booked /\ pressed' \in BOOLEAN /\ p \in Phases
    BY <1>11, <1>4 DEF Recorded
  <2>7. strayed' \in BOOLEAN
    BY <2>1, Zenon
  <2>8. TypeInv'
    BY <1>1, <2>3, <2>4, <2>5, <2>6, <2>7, ShowKeepsTypes
  <2>9. StartsScreen'
    BY <1>1, <2>5, ShowStands
  <2> QED
    BY <2>8, <2>9 DEF StandInv
<1>12. CASE SkipBooking
  <2>1. {Here} \in SUBSET Positions(form) /\ {Here} # {}
    BY <1>12, HereMeans DEF SkipBooking
  <2>2. Advance(answers, {Here}, index) /\ pressed' \in BOOLEAN /\ UNCHANGED calendar
    BY <1>12 DEF SkipBooking
  <2> QED
    BY <1>1, <2>1, <2>2, AdvanceKeeps
<1>13. CASE Back
  <2>1. /\ Asking /\ afterReveal' \in BOOLEAN /\ pressed' \in BOOLEAN /\ UNCHANGED calendar
    BY <1>1, <1>13 DEF Back
  <2>2. CASE /\ index > 0
             /\ Show(answers, touched, "steps",
                     IndexOf(path, Min(ScreenOf(form, StepAt(path, index - 1)) \cap path)))
    <3> DEFINE prev == StepAt(path, index - 1)
               m == Min(ScreenOf(form, prev) \cap path)
    <3>1. index - 1 \in Nat /\ index - 1 < Cardinality(path)
      BY <1>1, <1>2, <1>3, <2>1, <2>2 DEF StandInv, StartsScreen
    <3>2. prev \in path
      BY <1>3, <3>1, PlaceTaken
    <3>3. m \in path
      <4> HIDE DEF prev
      <4>1. First(form, path, m)
        BY <1>3, <3>2, FirstOfScreen
      <4> QED
        BY <4>1 DEF First
    <3>4. IndexOf(path, m) \in Nat /\ IndexOf(path, m) < Cardinality(path)
      BY <1>3, <3>3, PlaceOrder
    <3>5. IndexOf(path, m) \in 0..Len(form.steps)
      BY <1>2, <1>3, <3>4
    <3> QED
      BY <1>1, <1>4, <2>1, <2>2, <3>5, ShowKeeps
  <2>3. CASE Show(answers, touched, "cover", index)
    BY <1>1, <1>4, <2>1, <2>3, ShowKeeps
  <2> QED
    BY <1>13, <2>2, <2>3 DEF Back
<1>14. CASE Fill
  <2>1. PICK n \in Walk : \E v \in Replies(form.steps[n]) :
           /\ Show([answers EXCEPT ![n] = v], touched \cup {n}, "steps", index)
           /\ booked' = IF Kind(n) = "scheduler" THEN booked \cup {n} ELSE booked
    BY <1>14 DEF Fill
  <2>2. PICK v \in Replies(form.steps[n]) :
           Show([answers EXCEPT ![n] = v], touched \cup {n}, "steps", index)
    BY <2>1
  <2>3. n \in Positions(form)
    BY <1>3 DEF Walk, CutAt
  <2>4. [answers EXCEPT ![n] = v] \in Answers(form) /\ touched \cup {n} \in SUBSET Positions(form)
    BY <1>1, <1>2, <2>3, AnsweredType
  <2>5. /\ afterReveal' \in BOOLEAN /\ pressed' \in BOOLEAN /\ recording' = recording
        /\ strayed' \in BOOLEAN
        /\ booked' \in SUBSET Positions(form) /\ booked \subseteq booked'
    BY <1>1, <1>14, <2>1, <2>3, CalendarKept DEF Fill
  <2>6. \A r \in recording' : /\ Slides
                              /\ r.step \in booked' /\ Kind(r.step) = "scheduler"
                              /\ r.at \in 0..Len(form.steps)
    BY <1>1, <2>5, CalendarKept
  <2>7. TypeInv'
    BY <1>1, <1>4, <2>2, <2>4, <2>5, <2>6, ShowKeepsTypes
  <2>8. StartsScreen'
    BY <1>1, <2>2, ShowStands
  <2> QED
    BY <2>7, <2>8 DEF StandInv
<1>15. CASE SubmitAll
  <2>1. \E p \in Phases : Show(answers, touched, p, index)
    BY <1>4, <1>15 DEF SubmitAll
  <2>2. afterReveal' \in BOOLEAN /\ pressed' \in BOOLEAN /\ UNCHANGED calendar
    BY <1>1, <1>15 DEF SubmitAll
  <2> QED
    BY <1>1, <2>1, <2>2, ShowKeeps
<1>16. CASE RevealDone
  <2>1. \E p \in Phases : Show(answers, touched, p, index)
    BY <1>4, <1>16 DEF RevealDone
  <2>2. afterReveal' \in BOOLEAN /\ pressed' \in BOOLEAN /\ UNCHANGED calendar
    BY <1>1, <1>16 DEF RevealDone
  <2> QED
    BY <1>1, <2>1, <2>2, ShowKeeps
<1>17. CASE Accept
  BY <1>1, <1>4, <1>17, ShowKeeps DEF Accept
<1>18. CASE Refuse
  <2>1. \E p \in Phases : Show(answers, touched, p, index)
    BY <1>4, <1>18 DEF Refuse
  <2>2. afterReveal' \in BOOLEAN /\ pressed' \in BOOLEAN /\ UNCHANGED calendar
    BY <1>1, <1>18 DEF Refuse
  <2> QED
    BY <1>1, <2>1, <2>2, ShowKeeps
<1>19. CASE TryAgain
  BY <1>1, <1>4, <1>19, ShowKeeps DEF TryAgain
<1>20. CASE Reload
  <2>1. \E t \in SUBSET Positions(form), p \in Phases, i \in 0..Len(form.steps) :
           Show(draft.answers, t, p, i)
    BY <1>1, <1>2, <1>4, <1>20 DEF Reload, FirstPhase
  <2>2. PICK t \in SUBSET Positions(form), p \in Phases, i \in 0..Len(form.steps) :
           Show(draft.answers, t, p, i)
    BY <2>1
  <2>3. /\ afterReveal' \in BOOLEAN /\ pressed' \in BOOLEAN /\ strayed' \in BOOLEAN
        /\ booked' = {} /\ recording' = {}
    BY <1>1, <1>20, CalendarKept DEF Reload
  <2>4. TypeInv'
    BY <1>1, <2>2, <2>3, ShowKeepsTypes
  <2>5. StartsScreen'
    BY <1>1, <2>2, ShowStands
  <2> QED
    BY <2>4, <2>5 DEF StandInv
<1>21. CASE UNCHANGED vars
  BY <1>21 DEF vars, StandInv, TypeInv, TypeOK, StartsScreen, Asking, Slides, Kind
<1> QED
  BY <1>5, <1>6, <1>7, <1>8, <1>9, <1>10, <1>11, <1>12, <1>13, <1>14, <1>15, <1>16, <1>17,
     <1>18, <1>19, <1>20, <1>21 DEF Next

\* Every state the page can be in: its path is the engine's path for its
\* answers, and it stands on the first question of a screen of it.
THEOREM WalkStands == Spec => []StandInv
<1> QED
  BY StandInit, StandStep, PTL DEF Spec

\* What the editor says of a step's rules is what respondents see, whatever the
\* form and the answers (the static checks of form-logic.ts).
THEOREM WalkStaticChecksTrue == Spec => []StaticChecksTrue
<1>1. StandInv => StaticChecksTrue
  <2> SUFFICES ASSUME StandInv PROVE StaticChecksTrue
    OBVIOUS
  <2>1. form.steps \in Seq(Step) /\ answers \in Answers(form)
    BY FormType DEF StandInv, TypeInv, TypeOK
  <2> QED
    BY <2>1, ChecksAreTrue DEF StaticChecksTrue
<1> QED
  BY <1>1, WalkStands, PTL

\* A screen of several questions is on the path whole or not at all (applyGoto).
THEOREM WalkWholeScreens == Spec => []WholeScreens
<1>1. StandInv => WholeScreens
  <2> SUFFICES ASSUME StandInv PROVE WholeScreens
    OBVIOUS
  <2>1. form.steps \in Seq(Step) /\ path = RuntimeSteps(form, answers)
    BY FormType DEF StandInv, TypeInv, TypeOK
  <2> QED
    BY <2>1, PathType DEF WholeScreens
<1> QED
  BY <1>1, WalkStands, PTL

-----------------------------------------------------------------------------
(* After a refusal.                                                         *)

LEMMA ScreenKind ==
    ASSUME NEW f, NEW n \in Positions(f), NEW m \in ScreenOf(f, n), m # n
    PROVE  f.steps[m].kind \notin SoloScreenKinds
<1>1. m \in Nat /\ n \in Nat /\ SameScreen(f, m, n)
  BY DEF ScreenOf, Positions
<1> QED
  BY <1>1, SameGroup

\* A refused page shows a question that has a button.
LEMMA RefusedWaits ==
    ASSUME StandInv, Refuse
    PROVE  phase' \in {"steps", "failed"} /\ (Asking' => Kind(Here)' # "reveal")
<1> DEFINE p == IF HasButton THEN "steps" ELSE "failed"
<1>1. Show(answers, touched, p, index) /\ TypeInv
  BY DEF Refuse, StandInv
<1>2. /\ form' = form /\ phase' = p /\ path' = RuntimeSteps(form, answers)
      /\ index' = IF Slides /\ p = "steps" THEN Clamp(form, RuntimeSteps(form, answers), index)
                  ELSE index
  <2> HIDE DEF p
  <2> QED
    BY <1>1, ShowMeans
<1>3. path = RuntimeSteps(form, answers) /\ form.steps \in Seq(Step) /\ Len(form.steps) \in Nat
      /\ index \in Nat
  BY <1>1, FormType DEF TypeInv, TypeOK
<1>4. ASSUME Asking' PROVE Kind(Here)' # "reveal"
  <2>1. HasButton /\ Slides /\ path # {} /\ path' = path /\ index' = Clamp(form, path, index)
    BY <1>2, <1>3, <1>4 DEF Asking, Slides
  <2>2. index < Cardinality(path) /\ Kind(Here) \notin {"reveal", "scheduler"}
    BY <2>1 DEF HasButton
  <2>3. path \in SUBSET Positions(form) /\ path \in SUBSET Nat /\ IsFiniteSet(path)
    BY <1>3, PathIsFinite
  <2>4. Here' \in ScreenOf(form, Here)
    <3>1. Here' = StepAt(path, Clamp(form, path, index))
      BY <2>1 DEF Here
    <3> QED
      BY <1>3, <2>1, <2>2, <2>3, <3>1, ClampMeans DEF Here
  <2>5. Here \in Positions(form)
    <3>1. Here \in path
      BY <1>3, <2>2, <2>3, PlaceTaken DEF Here
    <3> QED
      BY <2>3, <3>1
  <2>6. form.steps[Here'].kind # "reveal"
    <3>1. CASE Here' = Here
      BY <2>2, <3>1 DEF Kind
    <3>2. CASE Here' # Here
      <4>1. form.steps[Here'].kind \notin SoloScreenKinds
        BY <2>4, <2>5, <3>2, ScreenKind
      <4> QED
        BY <4>1 DEF SoloScreenKinds
    <3> QED
      BY <3>1, <3>2
  <2>7. Kind(Here)' = form.steps[Here'].kind
    BY <1>2 DEF Kind
  <2> QED
    BY <2>6, <2>7
<1> QED
  BY <1>2, <1>4

LEMMA WaitsStep == StandInv /\ WaitsForThePerson /\ [Next]_vars => WaitsForThePerson'
<1> SUFFICES ASSUME StandInv, WaitsForThePerson, [Next]_vars PROVE WaitsForThePerson'
  OBVIOUS
<1>1. CASE Start \/ Answer \/ Select \/ Submit \/ Book \/ Recorded \/ SkipBooking \/ Back
           \/ Fill \/ SubmitAll \/ TryAgain \/ Reload
  <2>1. pressed' = TRUE
    BY <1>1 DEF Start, Answer, Select, Submit, Book, Recorded, SkipBooking, Back, Fill,
                SubmitAll, TryAgain, Reload
  <2> QED
    BY <2>1 DEF WaitsForThePerson
<1>2. CASE PlayReveal
  <2>1. pressed' = pressed /\ Asking /\ Kind(Here) = "reveal"
    BY <1>2 DEF PlayReveal
  <2>2. pressed
    BY <2>1 DEF WaitsForThePerson
  <2> QED
    BY <2>1, <2>2 DEF WaitsForThePerson
<1>3. CASE RevealDone
  BY <1>3 DEF RevealDone, WaitsForThePerson
<1>4. CASE Accept
  BY <1>4 DEF Accept, WaitsForThePerson
<1>5. CASE Refuse
  BY <1>5, RefusedWaits DEF WaitsForThePerson
<1>6. CASE UNCHANGED vars
  BY <1>6 DEF vars, WaitsForThePerson, Asking, Slides, Kind, Here
<1> QED
  BY <1>1, <1>2, <1>3, <1>4, <1>5, <1>6 DEF Next

\* Inductive: a page that nobody touched since a refusal asks a question, or
\* says that it failed.
THEOREM WalkWaits == Spec => []WaitsForThePerson
<1>1. Init => WaitsForThePerson
  BY DEF Init, WaitsForThePerson
<1> QED
  BY <1>1, WaitsStep, WalkStands, PTL DEF Spec

\* A refused submission is not repeated by the page alone (finalize's refused
\* branch of form-renderer.tsx).
THEOREM WalkNeverResubmitsAlone == Spec => []NeverResubmitsAlone
<1>1. WaitsForThePerson => NeverResubmitsAlone
  BY DEF WaitsForThePerson, NeverResubmitsAlone
<1> QED
  BY <1>1, WalkWaits, PTL

-----------------------------------------------------------------------------
(* What the walk has passed.                                                *)

\* Nothing is passed at the first place, and less than here further up.
LEMMA PassedBefore ==
    ASSUME NEW f, f.steps \in Seq(Step), NEW a, NEW i \in Nat, NEW j \in Nat,
           j = 0 \/ (j <= i /\ PassedIn(f, a, i))
    PROVE  PassedIn(f, a, j)
<1> DEFINE S == RuntimeSteps(f, a)
<1>1. \A n \in S : IndexOf(S, n) \in Nat
  BY PathIsFinite, PlaceOrder
<1> HIDE DEF S
<1>2. \A n \in S : IndexOf(S, n) < j => j <= i /\ PassedIn(f, a, i) /\ IndexOf(S, n) < i
  BY <1>1
<1> QED
  BY <1>2 DEF PassedIn, S

\* A render at a place all before which is passed.
LEMMA ShowPasses ==
    ASSUME StandInv, NEW a, NEW t, NEW p, NEW i \in 0..Len(form.steps), Show(a, t, p, i),
           PassedIn(form, a, i), PassedIn(form, draft.answers, draft.index)
    PROVE  PassedAreValid'
<1>0. form.steps \in Seq(Step) /\ Len(form.steps) \in Nat /\ i \in Nat /\ TypeInv
  BY FormType DEF StandInv, TypeInv
<1>1. /\ form' = form /\ answers' = a
      /\ index' = IF Slides /\ p = "steps" THEN Clamp(form, RuntimeSteps(form, a), i) ELSE i
      /\ draft' = IF p \in {"cover", "steps"} THEN Snapshot(form, a, t, p, index') ELSE draft
  BY <1>0, ShowMeans
<1>2. index' \in Nat /\ index' <= i
  <2> DEFINE S == RuntimeSteps(form, a)
             c == Clamp(form, S, i)
  <2>1. S \in SUBSET Positions(form)
    BY <1>0, PathIsFinite
  <2> HIDE DEF S
  <2>2. S = {} => c = i
    BY DEF Clamp
  <2>3. S # {} => c \in Nat /\ c <= i
    BY <1>0, <2>1, ClampMeans
  <2> HIDE DEF c
  <2>4. c \in Nat /\ c <= i
    BY <1>0, <2>2, <2>3
  <2>5. index' = c \/ index' = i
    BY <1>1 DEF c, S
  <2> QED
    BY <1>0, <2>4, <2>5
<1>3. PassedIn(form, a, index')
  BY <1>0, <1>2, PassedBefore
<1>4. PassedIn(form, draft'.answers, draft'.index)
  BY <1>1, <1>3 DEF Snapshot
<1> QED
  BY <1>1, <1>3, <1>4 DEF PassedAreValid, Passed, PassedIn

\* Who passed everything down to the last question, or to one that ends the
\* form, has a valid submission.
LEMMA CompletesAt ==
    ASSUME NEW f, f.steps \in Seq(Step), NEW a, NEW last \in RuntimeSteps(f, a),
           \A n \in RuntimeSteps(f, a) : n <= last => ValidAnswer(f.steps[n], a[n]),
           \/ last = Max(RuntimeSteps(f, a))
           \/ \E m \in RuntimeSteps(f, a) : m <= last /\ IsTerminal(f.steps[m])
    PROVE  ValidateSubmission(f, a)
<1> DEFINE S == RuntimeSteps(f, a)
           stops == {n \in S : IsTerminal(f.steps[n])}
<1>1. S \in SUBSET Nat /\ Len(f.steps) \in Nat /\ \A n \in S : n <= Len(f.steps)
  <2>1. S \in SUBSET Positions(f) /\ Len(f.steps) \in Nat
    BY PathIsFinite, StepsType
  <2> QED
    BY <2>1 DEF Positions
<1>2. AnsweredPath(f, a) = IF stops = {} THEN S ELSE {n \in S : n <= Min(stops)}
  BY DEF AnsweredPath, CutAt
<1> HIDE DEF S
<1>3. CASE last = Max(S)
  <2>1. \A n \in S : n <= last
    BY <1>1, <1>3, MaxIsGreatest DEF S
  <2>2. AnsweredPath(f, a) \subseteq S
    BY <1>2
  <2> QED
    BY <2>1, <2>2 DEF ValidateSubmission, S
<1>4. CASE \E m \in S : m <= last /\ IsTerminal(f.steps[m])
  <2>1. PICK m \in S : m <= last /\ m \in stops
    BY <1>4
  <2>2. stops \in SUBSET Nat /\ stops # {} /\ m \in Nat /\ last \in Nat
    BY <1>1, <2>1 DEF S
  <2> HIDE DEF stops
  <2>3. Min(stops) <= m /\ Min(stops) \in Nat
    BY <2>1, <2>2, MinIsLeast
  <2>4. \A n \in AnsweredPath(f, a) : n \in S /\ n <= Min(stops)
    BY <1>2, <2>2
  <2>5. \A n \in AnsweredPath(f, a) : n \in S /\ n <= last
    <3> DEFINE x == Min(stops)
    <3>1. \A n \in S : n \in Nat
      BY <1>1
    <3>2. x \in Nat /\ x <= last
      BY <2>1, <2>2, <2>3
    <3> HIDE DEF x
    <3>3. \A n \in S : n <= x => n <= last
      BY <2>2, <3>1, <3>2
    <3> QED
      BY <2>4, <3>3 DEF x
  <2> QED
    BY <2>5 DEF ValidateSubmission, S
<1> QED
  BY <1>3, <1>4 DEF S

\* The questions down to the end of a completed screen hold what its button
\* took: those above were passed, the others are on the screen.
LEMMA ScreenCompletes ==
    ASSUME StandInv, Asking, Forward(form), JumpsSettled(form), PassedIn(form, answers, index),
           NEW a \in Answers(form), Agree(answers, a, Here), NEW members,
           \/ a = answers /\ members = Screen
           \/ members = {Here},
           \A m \in members : ValidAnswer(form.steps[m], a[m])
    PROVE  /\ members \in SUBSET RuntimeSteps(form, a) /\ members # {}
           /\ Max(members) \in members /\ \A m \in members : m <= Max(members)
           /\ \A n \in RuntimeSteps(form, a) :
                 n <= Max(members) => ValidAnswer(form.steps[n], a[n])
           /\ PassedIn(form, a, index)
<1> DEFINE next == RuntimeSteps(form, a)
           last == Max(members)
<1>0. /\ form.steps \in Seq(Step) /\ Len(form.steps) \in Nat
      /\ path = RuntimeSteps(form, answers) /\ answers \in Answers(form)
  BY FormType DEF StandInv, TypeInv, TypeOK
<1>1. /\ Here \in path /\ Here \in Positions(form) /\ IndexOf(path, Here) = index
      /\ First(form, path, Here) /\ Here \in Screen /\ Screen \in SUBSET path
  BY HereMeans
<1>2. /\ next \in SUBSET Nat /\ IsFiniteSet(next) /\ next \in SUBSET Positions(form)
      /\ Positions(form) = 1..Len(form.steps)
  BY <1>0, PathIsFinite DEF Positions
<1>3. /\ Here \in next /\ IndexOf(next, Here) = index /\ PassedIn(form, a, index)
  BY <1>0, <1>1, SamePlace
<1>4. members \in SUBSET next /\ Here \in members
  BY <1>0, <1>1, <1>3
<1>5. last \in members /\ \A m \in members : m <= last
  <2>1. members \in SUBSET Nat /\ \A m \in members : m <= Len(form.steps)
    BY <1>2, <1>4
  <2> QED
    BY <1>0, <1>4, <2>1, MaxIsGreatest
<1>6. ASSUME NEW n \in next, n <= last PROVE ValidAnswer(form.steps[n], a[n])
  <2>1. CASE n < Here
    <3>1. IndexOf(next, n) < index
      BY <1>2, <1>3, <2>1, PlaceOrder
    <3> QED
      BY <1>3, <3>1 DEF PassedIn
  <2>2. CASE Here <= n
    <3>1. n \in members
      <4>1. CASE members = {Here}
        <5>1. n = Here
          <6>1. last = Here /\ n \in Nat /\ Here \in Nat
            BY <1>2, <1>3, <1>5, <4>1
          <6> HIDE DEF last
          <6> QED
            BY <1>6, <2>2, <6>1
        <5> QED
          BY <4>1, <5>1
      <4>2. CASE a = answers /\ members = Screen
        <5>1. n \in path /\ ~IsHidden(form.steps[n]) /\ n \in Positions(form)
          BY <1>0, <1>2, <4>2, PathType
        <5>2. last \in ScreenOf(form, Here)
          BY <1>5, <4>2 DEF Screen
        <5> HIDE DEF last
        <5>3. n \in ScreenOf(form, Here)
          BY <1>1, <1>6, <2>2, <5>1, <5>2, ScreenHasNoGaps
        <5> QED
          BY <4>2, <5>1, <5>3 DEF Screen
      <4> QED
        BY <4>1, <4>2
    <3> QED
      BY <3>1
  <2>3. n \in Nat /\ Here \in Nat
    BY <1>2, <1>3
  <2> QED
    BY <2>1, <2>2, <2>3
<1> HIDE DEF next, last
<1>7. members # {}
  BY <1>4
<1> QED
  BY <1>3, <1>4, <1>5, <1>6, <1>7 DEF next, last

LEMMA AdvancePasses ==
    ASSUME StandInv, Asking, Forward(form), JumpsSettled(form), PassedIn(form, answers, index),
           PassedIn(form, draft.answers, draft.index),
           NEW a \in Answers(form), Agree(answers, a, Here), NEW members,
           \/ a = answers /\ members = Screen
           \/ members = {Here},
           \A m \in members : ValidAnswer(form.steps[m], a[m]),
           NEW at, Advance(a, members, at)
    PROVE  PassedAreValid' /\ CompletedIsValid'
<1> DEFINE next == RuntimeSteps(form, a)
           last == Max(members)
           isLast == last = Max(next)
           terminal == \E n \in members : IsTerminal(form.steps[n])
           reveals == ~terminal /\ form.reveal \in members
<1>0. /\ form.steps \in Seq(Step) /\ Len(form.steps) \in Nat /\ TypeInv
      /\ index \in 0..Len(form.steps) /\ index \in Nat /\ Slides
  BY FormType DEF StandInv, TypeInv, TypeOK, Asking
<1>1. /\ members \in SUBSET next /\ last \in members /\ \A m \in members : m <= last
      /\ \A n \in next : n <= last => ValidAnswer(form.steps[n], a[n])
      /\ PassedIn(form, a, index)
  BY ScreenCompletes
<1>2. last \in next
  BY <1>1
<1>3. /\ next \in SUBSET Nat /\ IsFiniteSet(next)
      /\ Cardinality(next) \in Nat /\ Cardinality(next) <= Len(form.steps)
  BY <1>0, PathIsFinite
<1> DEFINE beyond == IndexOf(next, last) + 1
<1>4. \/ /\ terminal \/ isLast
         /\ Show(a, touched, "submitting", index)
      \/ /\ Show(a, touched, "reveal", IF isLast THEN index ELSE beyond)
         /\ afterReveal' = isLast
      \/ Show(a, touched, "steps", beyond)
  BY <1>2 DEF Advance, NextPath
<1>5. terminal \/ isLast => ValidateSubmission(form, a)
  <2>1. terminal => \E m \in next : m <= last /\ IsTerminal(form.steps[m])
    BY <1>1
  <2> HIDE DEF terminal, last
  <2> QED
    BY <1>0, <1>1, <1>2, <2>1, CompletesAt
<1>6. beyond \in 0..Len(form.steps) /\ PassedIn(form, a, beyond)
  <2>1. IndexOf(next, last) \in Nat /\ IndexOf(next, last) < Cardinality(next)
    BY <1>2, <1>3, PlaceOrder
  <2>2. beyond \in 0..Len(form.steps)
    BY <1>0, <1>3, <2>1
  <2>3. ASSUME NEW n \in next, IndexOf(next, n) < beyond PROVE ValidAnswer(form.steps[n], a[n])
    <3>1. IndexOf(next, n) \in Nat /\ (last < n => IndexOf(next, last) < IndexOf(next, n))
      BY <1>2, <1>3, PlaceOrder
    <3>2. ~(last < n) /\ last \in Nat /\ n \in Nat
      BY <1>2, <1>3, <2>1, <2>3, <3>1
    <3>3. n <= last
      BY <3>2
    <3> QED
      BY <1>1, <3>3
  <2> QED
    BY <2>2, <2>3 DEF PassedIn
<1> HIDE DEF beyond, terminal, isLast
<1>7. CASE (terminal \/ isLast) /\ Show(a, touched, "submitting", index)
  <2>1. PassedAreValid'
    BY <1>0, <1>1, <1>7, ShowPasses
  <2>2. form' = form /\ answers' = a
    BY <1>0, <1>7, ShowMeans
  <2> QED
    BY <1>5, <1>7, <2>1, <2>2 DEF CompletedIsValid
<1>8. CASE /\ Show(a, touched, "reveal", IF isLast THEN index ELSE beyond)
           /\ afterReveal' = isLast
  <2> DEFINE i == IF isLast THEN index ELSE beyond
  <2>1. i \in 0..Len(form.steps) /\ PassedIn(form, a, i)
    BY <1>0, <1>1, <1>6
  <2>2. Show(a, touched, "reveal", i)
    BY <1>8
  <2> HIDE DEF i
  <2>3. PassedAreValid'
    BY <2>1, <2>2, ShowPasses
  <2>4. form' = form /\ answers' = a /\ phase' = "reveal"
    BY <1>0, <2>2, ShowMeans
  <2>5. Completed' => isLast
    BY <1>0, <1>8, <2>4 DEF Completed, Slides
  <2> QED
    BY <1>5, <2>3, <2>4, <2>5 DEF CompletedIsValid
<1>9. CASE Show(a, touched, "steps", beyond)
  <2>1. PassedAreValid'
    BY <1>6, <1>9, ShowPasses
  <2>2. phase' = "steps"
    BY <1>0, <1>9, ShowMeans
  <2> QED
    BY <2>1, <2>2 DEF CompletedIsValid, Completed
<1> QED
  BY <1>4, <1>7, <1>8, <1>9

\* The page elsewhere, with as much passed.
LEMMA ShowKeepsPassed ==
    ASSUME StandInv, PassedAreValid, NEW a, NEW t, NEW p, NEW i \in 0..Len(form.steps),
           Show(a, t, p, i), strayed' = strayed, Slides /\ Settled => PassedIn(form, a, i)
    PROVE  PassedAreValid' /\ form' = form /\ answers' = a /\ phase' = p
<1>1. form' = form /\ answers' = a /\ phase' = p
  BY ShowMeans DEF StandInv
<1>2. CASE Slides /\ Settled
  <2>1. PassedIn(form, a, i) /\ PassedIn(form, draft.answers, draft.index)
    BY <1>2 DEF PassedAreValid, Passed, PassedIn
  <2>2. PassedAreValid'
    BY <2>1, ShowPasses
  <2> QED
    BY <1>1, <2>2
<1>3. CASE ~(Slides /\ Settled)
  <2>1. ~(Slides' /\ Settled')
    BY <1>1, <1>3 DEF Slides, Settled
  <2> QED
    BY <1>1, <2>1 DEF PassedAreValid
<1> QED
  BY <1>2, <1>3

LEMMA NotCompleted ==
    ASSUME phase' \in {"cover", "steps", "done"}
    PROVE  CompletedIsValid'
BY DEF CompletedIsValid, Completed

LEMMA StillValid ==
    ASSUME CompletedIsValid, Completed, form' = form, answers' = answers, strayed' = strayed
    PROVE  CompletedIsValid'
BY DEF CompletedIsValid, Settled, Slides

\* A screen completed by the person on it.
LEMMA AdvanceKeepsPassed ==
    ASSUME StandInv, PassedAreValid, Asking,
           NEW a \in Answers(form), Agree(answers, a, Here), NEW members,
           \/ a = answers /\ members = Screen
           \/ members = {Here},
           \A m \in members : ValidAnswer(form.steps[m], a[m]),
           NEW at \in 0..Len(form.steps), Advance(a, members, at), ~strayed' => ~strayed
    PROVE  PassedAreValid' /\ CompletedIsValid'
<1>1. CASE Settled
  <2>1. /\ PassedIn(form, answers, index) /\ PassedIn(form, draft.answers, draft.index)
        /\ Forward(form) /\ JumpsSettled(form)
    BY <1>1 DEF PassedAreValid, Passed, PassedIn, Asking, Settled
  <2> QED
    BY <2>1, AdvancePasses
<1>2. CASE ~Settled
  <2>1. members \in SUBSET Positions(form) /\ members # {}
    BY HereMeans
  <2>2. PICK p \in {"submitting", "reveal", "steps"}, i \in 0..Len(form.steps) :
              Show(a, touched, p, i)
    BY <2>1, AdvanceShows DEF StandInv
  <2>3. form' = form /\ Slides
    BY <2>2, ShowMeans DEF StandInv, Asking
  <2>4. Slides' /\ ~Settled'
    BY <1>2, <2>3 DEF Slides, Settled
  <2> QED
    BY <2>4 DEF PassedAreValid, CompletedIsValid
<1> QED
  BY <1>1, <1>2

LEMMA AgreeAbove ==
    ASSUME NEW f, NEW a \in Answers(f), NEW h \in Nat, NEW n \in Nat, h <= n, NEW v
    PROVE  Agree(a, [a EXCEPT ![n] = v], h)
BY AnswersType DEF Agree

LEMMA ChoiceTaken ==
    ASSUME NEW step, step.kind \in {"choice", "scheduler"}, NEW v \in Replies(step)
    PROVE  ValidAnswer(step, v)
<1>1. PICK t \in step.accepts : v = One(t)
  BY DEF Replies
<1>2. v.picks = {t} /\ {t} # {} /\ {t} \subseteq step.accepts
  BY <1>1 DEF One
<1> QED
  BY <1>2 DEF ValidAnswer

\* One page: what the API reads is on the page.
LEMMA PageShowsAnswered ==
    ASSUME StandInv
    PROVE  AnsweredPath(form, answers) \subseteq Walk
<1> DEFINE T == {n \in path : IsTerminal(form.steps[n])}
           W == {n \in path : IsTerminal(form.steps[n]) /\ answers[n].picks # {} /\ n \in touched}
<1>1. /\ AnsweredPath(form, answers) = IF T = {} THEN path ELSE {n \in path : n <= Min(T)}
      /\ Walk = IF W = {} THEN path ELSE {n \in path : n <= Min(W)}
  BY DEF StandInv, TypeInv, TypeOK, AnsweredPath, Walk, CutAt
<1>2. path \in SUBSET Nat
  BY FormType, PathIsFinite DEF StandInv, TypeInv, TypeOK
<1>3. W \subseteq T /\ T \in SUBSET Nat /\ W \in SUBSET Nat
  BY <1>2
<1> HIDE DEF W, T
<1>4. CASE W = {}
  BY <1>1, <1>4
<1>5. CASE W # {}
  <2> DEFINE x == Min(T)
             y == Min(W)
  <2>1. T # {} /\ y \in W /\ y \in T
    BY <1>3, <1>5, MinIsLeast
  <2>2. x \in Nat /\ y \in Nat /\ x <= y
    BY <1>3, <2>1, MinIsLeast
  <2> HIDE DEF x, y
  <2>3. \A n \in path : n <= x => n <= y
    BY <1>2, <2>2
  <2> QED
    BY <1>1, <1>5, <2>1, <2>3 DEF x, y
<1> QED
  BY <1>4, <1>5

LEMMA PassedInit == Init => PassedAreValid /\ CompletedIsValid
<1> SUFFICES ASSUME Init PROVE PassedAreValid /\ CompletedIsValid
  OBVIOUS
<1>1. form.steps \in Seq(Step) /\ index = 0 /\ draft.index = 0
  BY FormType DEF Init, Snapshot
<1>2. PassedIn(form, answers, index) /\ PassedIn(form, draft.answers, draft.index)
  BY <1>1, PassedBefore
<1>3. ~Completed
  BY DEF Init, FirstPhase, Completed
<1> QED
  BY <1>2, <1>3 DEF PassedAreValid, CompletedIsValid, Passed, PassedIn

LEMMA PassedStep ==
    StandInv /\ PassedAreValid /\ CompletedIsValid /\ [Next]_vars
      => PassedAreValid' /\ CompletedIsValid'
<1> SUFFICES ASSUME StandInv, PassedAreValid, CompletedIsValid, [Next]_vars
             PROVE  PassedAreValid' /\ CompletedIsValid'
  OBVIOUS
<1>1. /\ TypeInv /\ answers \in Answers(form)
      /\ index \in 0..Len(form.steps) /\ index \in Nat /\ draft.index \in 0..Len(form.steps)
      /\ form.steps \in Seq(Step) /\ Len(form.steps) \in Nat /\ 0 \in 0..Len(form.steps)
      /\ path = RuntimeSteps(form, answers)
  BY FormType DEF StandInv, TypeInv, TypeOK
<1>2. Slides /\ Settled => /\ PassedIn(form, answers, index)
                           /\ PassedIn(form, draft.answers, draft.index)
  BY DEF PassedAreValid, Passed, PassedIn
<1>3. \A a : PassedIn(form, a, 0)
  BY <1>1, PassedBefore
<1>4. Asking => /\ Here \in path /\ Here \in Positions(form) /\ Here \in Nat
                /\ form.steps[Here] \in Step /\ First(form, path, Here)
                /\ \A n \in Screen : n \in Positions(form) /\ n \in Nat /\ Here <= n
  <2> SUFFICES ASSUME Asking
               PROVE  /\ Here \in path /\ Here \in Positions(form) /\ Here \in Nat
                      /\ form.steps[Here] \in Step /\ First(form, path, Here)
                      /\ \A n \in Screen : n \in Positions(form) /\ n \in Nat /\ Here <= n
    OBVIOUS
  <2>1. Here \in path /\ Here \in Positions(form) /\ First(form, path, Here)
        /\ Screen \in SUBSET Positions(form)
    BY HereMeans
  <2>2. Positions(form) \subseteq Nat /\ form.steps[Here] \in Step
    BY <1>1, <2>1, StepsType DEF Positions
  <2> QED
    BY <2>1, <2>2 DEF First, Screen
<1>5. CASE Start
  <2>1. Show(answers, touched, "steps", 0) /\ strayed' = strayed
    BY <1>5 DEF Start, calendar
  <2> QED
    BY <1>1, <1>3, <2>1, ShowKeepsPassed, NotCompleted
<1>6. CASE Answer
  <2>1. PICK n \in Screen : \E v \in Replies(form.steps[n]) :
           Show([answers EXCEPT ![n] = v], touched, "steps", index)
    BY <1>6 DEF Answer
  <2>2. PICK v \in Replies(form.steps[n]) : Show([answers EXCEPT ![n] = v], touched, "steps", index)
    BY <2>1
  <2> DEFINE a == [answers EXCEPT ![n] = v]
  <2>3. Asking /\ strayed' = strayed
    BY <1>6 DEF Answer, calendar
  <2>4. a \in Answers(form)
    BY <1>1, <1>4, <2>3, AnsweredType, StepsType
  <2>5. Agree(answers, a, Here)
    BY <1>1, <1>4, <2>3, AgreeAbove
  <2> HIDE DEF a
  <2>6. Slides /\ Settled => PassedIn(form, a, index)
    <3>1. IndexOf(path, Here) = index
      BY <2>3, HereMeans
    <3> QED
      BY <1>1, <1>2, <1>4, <2>3, <2>4, <2>5, <3>1, SamePlace DEF Settled
  <2>7. Show(a, touched, "steps", index)
    BY <2>2 DEF a
  <2> QED
    BY <1>1, <2>3, <2>6, <2>7, ShowKeepsPassed, NotCompleted
<1>7. CASE Select
  <2>1. PICK v \in Replies(form.steps[Here]) : Advance([answers EXCEPT ![Here] = v], {Here}, index)
    BY <1>7 DEF Select
  <2> DEFINE a == [answers EXCEPT ![Here] = v]
  <2>2. Asking /\ strayed' = strayed /\ form.steps[Here].kind = "choice"
    BY <1>7 DEF Select, calendar, Kind
  <2>3. a \in Answers(form)
    BY <1>1, <1>4, <2>2, AnsweredType
  <2>4. Agree(answers, a, Here)
    BY <1>1, <1>4, <2>2, AgreeAbove
  <2>5. a[Here] = v
    BY <1>1, <1>4, <2>2, AnswersType
  <2> HIDE DEF a
  <2>6. \A m \in {Here} : ValidAnswer(form.steps[m], a[m])
    BY <2>2, <2>5, ChoiceTaken
  <2>7. Advance(a, {Here}, index)
    BY <2>1 DEF a
  <2> QED
    BY <1>1, <2>2, <2>3, <2>4, <2>6, <2>7, AdvanceKeepsPassed
<1>8. CASE Submit
  <2>1. Asking /\ strayed' = strayed /\ Advance(answers, Screen, index)
    BY <1>8 DEF Submit, calendar
  <2>2. \A m \in Screen : ValidAnswer(form.steps[m], answers[m])
    BY <1>8 DEF Submit, ScreenTaken
  <2>3. Agree(answers, answers, Here)
    BY DEF Agree
  <2> QED
    BY <1>1, <2>1, <2>2, <2>3, AdvanceKeepsPassed
<1>9. CASE PlayReveal
  <2>1. Asking /\ strayed' = strayed /\ Advance(answers, {Here}, index)
    BY <1>9 DEF PlayReveal, calendar
  <2>2. \A m \in {Here} : ValidAnswer(form.steps[m], answers[m])
    BY <1>9 DEF PlayReveal, ValidAnswer, Inputless, Kind
  <2>3. Agree(answers, answers, Here)
    BY DEF Agree
  <2> QED
    BY <1>1, <2>1, <2>2, <2>3, AdvanceKeepsPassed
<1>10. CASE Book
  <2>1. /\ form' = form /\ answers' = answers /\ index' = index /\ draft' = draft
        /\ phase' = "steps" /\ strayed' = strayed
    BY <1>10 DEF Book, Asking
  <2>2. PassedAreValid'
    BY <2>1 DEF PassedAreValid, Passed, Settled, Slides
  <2> QED
    BY <2>1, <2>2, NotCompleted
<1>11. CASE Recorded
  <2>1. PICK r \in recording : \E v \in Replies(form.steps[r.step]) :
           Advance([answers EXCEPT ![r.step] = v], {r.step}, r.at)
           /\ strayed' = (strayed \/ ~Asking \/ Here # r.step)
    BY <1>11 DEF Recorded
  <2>2. PICK v \in Replies(form.steps[r.step]) :
           Advance([answers EXCEPT ![r.step] = v], {r.step}, r.at)
    BY <2>1
  <2>3. /\ Slides /\ r.step \in Positions(form) /\ r.at \in 0..Len(form.steps)
        /\ form.steps[r.step].kind = "scheduler"
    BY <1>1, CalendarKept DEF Kind
  <2> DEFINE a == [answers EXCEPT ![r.step] = v]
  <2>4. CASE strayed'
    <3>1. \E p \in {"submitting", "reveal", "steps"}, i \in 0..Len(form.steps) :
              Show(a, touched, p, i)
      BY <1>1, <2>2, <2>3, AdvanceShows
    <3>2. form' = form
      BY <1>1, <3>1, ShowMeans
    <3>3. Slides' /\ ~Settled'
      BY <2>3, <2>4, <3>2 DEF Slides, Settled
    <3> QED
      BY <3>3 DEF PassedAreValid, CompletedIsValid
  <2>5. CASE ~strayed'
    <3>1. ~strayed /\ Asking /\ r.step = Here
      BY <2>1, <2>5
    <3>2. a \in Answers(form)
      BY <1>1, <1>4, <2>3, <3>1, AnsweredType
    <3>3. Agree(answers, a, Here)
      <4>1. Here \in Nat /\ r.step \in Nat /\ Here <= r.step
        BY <1>4, <3>1
      <4> QED
        BY <1>1, <4>1, AgreeAbove
    <3>4. a[Here] = v
      BY <1>1, <1>4, <3>1, AnswersType
    <3> HIDE DEF a
    <3>5. \A m \in {Here} : ValidAnswer(form.steps[m], a[m])
      BY <2>3, <3>1, <3>4, ChoiceTaken
    <3>6. Advance(a, {Here}, r.at)
      BY <2>2, <3>1 DEF a
    <3> QED
      BY <2>3, <3>1, <3>2, <3>3, <3>5, <3>6, AdvanceKeepsPassed
  <2> QED
    BY <2>4, <2>5
<1>12. CASE SkipBooking
  <2>1. Asking /\ strayed' = strayed /\ Advance(answers, {Here}, index)
    BY <1>12 DEF SkipBooking, calendar
  <2>2. \A m \in {Here} : ValidAnswer(form.steps[m], answers[m])
    BY <1>12 DEF SkipBooking, ValidAnswer, Kind
  <2>3. Agree(answers, answers, Here)
    BY DEF Agree
  <2> QED
    BY <1>1, <2>1, <2>2, <2>3, AdvanceKeepsPassed
<1>13. CASE Back
  <2>1. Asking /\ strayed' = strayed
    BY <1>13 DEF Back, calendar
  <2>2. CASE /\ index > 0
             /\ Show(answers, touched, "steps",
                     IndexOf(path, Min(ScreenOf(form, StepAt(path, index - 1)) \cap path)))
    <3> DEFINE prev == StepAt(path, index - 1)
               m == Min(ScreenOf(form, prev) \cap path)
               i == IndexOf(path, m)
    <3>0. /\ path \in SUBSET Positions(form) /\ path \in SUBSET Nat /\ IsFiniteSet(path)
          /\ Cardinality(path) \in Nat /\ Cardinality(path) <= Len(form.steps)
      BY <1>1, PathIsFinite
    <3>1. index - 1 \in Nat /\ index - 1 < Cardinality(path)
      BY <1>1, <2>1, <2>2, <3>0 DEF StandInv, StartsScreen
    <3>2. prev \in path /\ IndexOf(path, prev) = index - 1
      BY <3>0, <3>1, PlaceTaken
    <3>3. m \in path /\ m <= prev
      <4> HIDE DEF prev
      <4>1. First(form, path, m) /\ m <= prev
        BY <3>0, <3>2, FirstOfScreen
      <4> QED
        BY <4>1 DEF First
    <3>4. i \in Nat /\ i < Cardinality(path) /\ i <= index
      <4> HIDE DEF prev, m
      <4>1. i \in Nat /\ i < Cardinality(path) /\ ~(prev < m)
        BY <3>0, <3>2, <3>3, PlaceOrder
      <4>2. ~(IndexOf(path, prev) < i)
        BY <3>0, <3>2, <3>3, <4>1, PlaceOrder
      <4> HIDE DEF i
      <4> QED
        BY <1>1, <3>2, <4>1, <4>2
    <3> HIDE DEF i
    <3>5. i \in 0..Len(form.steps)
      BY <1>1, <3>0, <3>4
    <3>6. Slides /\ Settled => PassedIn(form, answers, i)
      BY <1>1, <1>2, <3>4, PassedBefore
    <3>7. Show(answers, touched, "steps", i)
      BY <2>2 DEF i
    <3> QED
      BY <2>1, <3>5, <3>6, <3>7, ShowKeepsPassed, NotCompleted
  <2>3. CASE Show(answers, touched, "cover", index)
    BY <1>1, <1>2, <2>1, <2>3, ShowKeepsPassed, NotCompleted
  <2> QED
    BY <1>13, <2>2, <2>3 DEF Back
<1>14. CASE Fill
  <2>1. PICK a, t : Show(a, t, "steps", index)
    BY <1>14 DEF Fill
  <2>2. ~Slides /\ strayed' = strayed
    BY <1>14 DEF Fill
  <2> QED
    BY <1>1, <2>1, <2>2, ShowKeepsPassed, NotCompleted
<1>15. CASE SubmitAll
  <2>1. PICK p : Show(answers, touched, p, index)
    BY <1>15 DEF SubmitAll
  <2>2. ~Slides /\ strayed' = strayed /\ \A n \in Walk : ValidAnswer(form.steps[n], answers[n])
    BY <1>15 DEF SubmitAll, calendar
  <2>3. ValidateSubmission(form, answers)
    BY <2>2, PageShowsAnswered DEF ValidateSubmission
  <2>4. PassedAreValid' /\ form' = form /\ answers' = answers
    BY <1>1, <2>1, <2>2, ShowKeepsPassed
  <2> QED
    BY <2>3, <2>4 DEF CompletedIsValid
<1>16. CASE RevealDone
  <2>1. strayed' = strayed
    BY <1>16 DEF RevealDone, calendar
  <2>2. CASE (afterReveal \/ ~Slides) /\ Show(answers, touched, "submitting", index)
    <3>1. Completed
      BY <1>16, <2>2 DEF RevealDone, Completed
    <3>2. PassedAreValid' /\ form' = form /\ answers' = answers
      BY <1>1, <1>2, <2>1, <2>2, ShowKeepsPassed
    <3> QED
      BY <2>1, <3>1, <3>2, StillValid
  <2>3. CASE Show(answers, touched, "steps", index)
    BY <1>1, <1>2, <2>1, <2>3, ShowKeepsPassed, NotCompleted
  <2> QED
    BY <1>16, <2>2, <2>3 DEF RevealDone
<1>17. CASE Accept
  <2>1. Show(answers, touched, "done", index) /\ strayed' = strayed
    BY <1>17 DEF Accept, calendar
  <2> QED
    BY <1>1, <1>2, <2>1, ShowKeepsPassed, NotCompleted
<1>18. CASE Refuse \/ TryAgain
  <2>1. PICK p : Show(answers, touched, p, index)
    BY <1>18 DEF Refuse, TryAgain
  <2>2. strayed' = strayed /\ Completed
    BY <1>18 DEF Refuse, TryAgain, calendar, Completed
  <2>3. PassedAreValid' /\ form' = form /\ answers' = answers
    BY <1>1, <1>2, <2>1, <2>2, ShowKeepsPassed
  <2> QED
    BY <2>2, <2>3, StillValid
<1>19. CASE Reload
  <2>1. \/ Show(draft.answers, draft.touched, "steps", draft.index)
        \/ Show(draft.answers, draft.touched, FirstPhase(form), 0)
    BY <1>19 DEF Reload
  <2>2. strayed' = strayed /\ FirstPhase(form) \in {"cover", "steps"}
    BY <1>19 DEF Reload, FirstPhase
  <2>3. CASE Show(draft.answers, draft.touched, "steps", draft.index)
    BY <1>1, <1>2, <2>2, <2>3, ShowKeepsPassed, NotCompleted
  <2>4. CASE Show(draft.answers, draft.touched, FirstPhase(form), 0)
    BY <1>1, <1>3, <2>2, <2>4, ShowKeepsPassed, NotCompleted
  <2> QED
    BY <2>1, <2>3, <2>4
<1>20. CASE UNCHANGED vars
  BY <1>20 DEF vars, PassedAreValid, CompletedIsValid, Completed, Passed, Settled, Slides
<1> QED
  BY <1>5, <1>6, <1>7, <1>8, <1>9, <1>10, <1>11, <1>12, <1>13, <1>14, <1>15, <1>16, <1>17,
     <1>18, <1>19, <1>20 DEF Next

\* Inductive: the person has passed every question above the one on screen, and
\* what is completed is valid.
THEOREM WalkInductive == Spec => []WalkInv
<1>1. StandInv /\ PassedAreValid /\ CompletedIsValid /\ WaitsForThePerson => WalkInv
  BY DEF StandInv, TypeInv, WalkInv
<1>2. Spec => [](PassedAreValid /\ CompletedIsValid)
  BY PassedInit, PassedStep, WalkStands, PTL DEF Spec
<1> QED
  BY <1>1, <1>2, WalkStands, WalkWaits, PTL

\* What a page submits, the API does not refuse: it validates the answers as the
\* renderers did on the way through (validateSubmission of form-logic.ts).
THEOREM WalkServerAccepts == Spec => []ServerAccepts
<1>1. WalkInv => ServerAccepts
  BY DEF WalkInv, CompletedIsValid, Completed, ServerAccepts
<1> QED
  BY <1>1, WalkInductive, PTL

=============================================================================
