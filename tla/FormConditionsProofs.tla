-------------------------- MODULE FormConditionsProofs --------------------------
(***************************************************************************)
(* What the editor says of a step's show and hide rules is true for every   *)
(* rule, answer and score: theorems about the checks of FormConditions.     *)
(***************************************************************************)
EXTENDS FormConditions, TLAPS

\* What the operators of a rule are.
LEMMA RuleFields ==
    ASSUME NEW Key, NEW c \in Condition(Key)
    PROVE  /\ c.op \in Operators
           /\ c.values \in SUBSET Int
           /\ c.value \subseteq Int /\ \A x, y \in c.value : x = y
           /\ c.min \subseteq Int /\ \A x, y \in c.min : x = y
           /\ c.max \subseteq Int /\ \A x, y \in c.max : x = y
  BY DEF Condition, Optional

\* The numbers a rule compares are numbers.
LEMMA NumbersType ==
    ASSUME NEW c, NEW v, v \in Value, NEW score \in Int
    PROVE  Numbers(c, v, score) \subseteq Int
  BY DEF Numbers, Value

\* n is a point of interval i.
In(n, i) ==
    /\ \A x \in i.lo : x < n \/ (x = n /\ i.loInc)
    /\ \A x \in i.hi : n < x \/ (x = n /\ i.hiInc)

\* A rule has one interval, made of its operands.
LEMMA IntervalShape ==
    ASSUME NEW c, NEW i \in NumInterval(c)
    PROVE  \/ c.op = "eq" /\ c.value # {} /\ i = Interval(c.value, TRUE, c.value, TRUE)
           \/ c.op = "gt" /\ c.value # {} /\ i = Interval(c.value, FALSE, {}, FALSE)
           \/ c.op = "lt" /\ c.value # {} /\ i = Interval({}, FALSE, c.value, FALSE)
           \/ /\ c.op = "between" /\ c.min # {} /\ c.max # {}
              /\ i = Interval(c.min, TRUE, c.max, TRUE)
  BY DEF NumInterval

\* A rule whose operands are there has an interval.
LEMMA IntervalExists ==
    ASSUME NEW c,
           \/ c.op \in {"eq", "gt", "lt"} /\ c.value # {}
           \/ c.op = "between" /\ c.min # {} /\ c.max # {}
    PROVE  NumInterval(c) # {}
  BY DEF NumInterval

\* The intervals of a rule have integer ends, and there is at most one.
LEMMA IntervalType ==
    ASSUME NEW Key, NEW c \in Condition(Key), NEW i \in NumInterval(c)
    PROVE  /\ i.lo \subseteq Int /\ i.hi \subseteq Int
           /\ i.loInc \in BOOLEAN /\ i.hiInc \in BOOLEAN
           /\ \A x, y \in i.lo : x = y
           /\ \A x, y \in i.hi : x = y
           /\ c.op # "in"
           /\ i.lo = {} \/ i.hi = {} \/ (i.loInc /\ i.hiInc)
           /\ \A j \in NumInterval(c) : j = i
  <1>0. /\ c.value \subseteq Int /\ c.min \subseteq Int /\ c.max \subseteq Int
        /\ \A x, y \in c.value : x = y
        /\ \A x, y \in c.min : x = y
        /\ \A x, y \in c.max : x = y
    BY RuleFields
  <1>1. /\ c.op # "in"
        /\ \A j \in NumInterval(c) : j = i
    BY DEF NumInterval
  <1>2. CASE i = Interval(c.value, TRUE, c.value, TRUE)
    BY <1>0, <1>1, <1>2 DEF Interval
  <1>3. CASE i = Interval(c.value, FALSE, {}, FALSE)
    BY <1>0, <1>1, <1>3 DEF Interval
  <1>4. CASE i = Interval({}, FALSE, c.value, FALSE)
    BY <1>0, <1>1, <1>4 DEF Interval
  <1>5. CASE i = Interval(c.min, TRUE, c.max, TRUE)
    BY <1>0, <1>1, <1>5 DEF Interval
  <1> QED
    BY <1>2, <1>3, <1>4, <1>5, IntervalShape

\* A numeric rule holds exactly of the points of its interval.
LEMMA IntervalIsMeant ==
    ASSUME NEW Key, NEW c \in Condition(Key), NEW v, v \in Value, NEW score \in Int,
           c.op # "in"
    PROVE  Holds(c, v, score)
             <=> \E n \in Numbers(c, v, score), i \in NumInterval(c) : In(n, i)
  <1>0. /\ c.op \in Operators
        /\ c.value \subseteq Int /\ c.min \subseteq Int /\ c.max \subseteq Int
        /\ \A x, y \in c.value : x = y
        /\ \A x, y \in c.min : x = y
        /\ \A x, y \in c.max : x = y
    BY RuleFields
  <1>1. Numbers(c, v, score) \subseteq Int
    BY NumbersType
  <1>2. ASSUME NEW n \in Int, NEW i \in NumInterval(c)
        PROVE  In(n, i) <=>
                 /\ c.op = "eq" => \A y \in c.value : n = y
                 /\ c.op = "gt" => \A y \in c.value : n > y
                 /\ c.op = "lt" => \A y \in c.value : n < y
                 /\ c.op = "between" => /\ \A y \in c.min : y <= n
                                        /\ \A z \in c.max : n <= z
    <2>1. CASE c.op = "eq" /\ i = Interval(c.value, TRUE, c.value, TRUE)
      BY <1>0, <2>1 DEF Interval, In
    <2>2. CASE c.op = "gt" /\ i = Interval(c.value, FALSE, {}, FALSE)
      BY <1>0, <2>2 DEF Interval, In
    <2>3. CASE c.op = "lt" /\ i = Interval({}, FALSE, c.value, FALSE)
      BY <1>0, <2>3 DEF Interval, In
    <2>4. CASE c.op = "between" /\ i = Interval(c.min, TRUE, c.max, TRUE)
      BY <1>0, <2>4 DEF Interval, In
    <2> QED
      BY <2>1, <2>2, <2>3, <2>4, IntervalShape
  <1>3. /\ c.op \in {"eq", "gt", "lt"} => (NumInterval(c) # {} <=> c.value # {})
        /\ c.op = "between" => (NumInterval(c) # {} <=> c.min # {} /\ c.max # {})
    <2>1. NumInterval(c) # {} =>
             /\ c.op \in {"eq", "gt", "lt"} => c.value # {}
             /\ c.op = "between" => c.min # {} /\ c.max # {}
      BY IntervalShape
    <2> QED
      BY <2>1, IntervalExists
  <1>4. CASE c.op = "eq"
    BY <1>0, <1>1, <1>2, <1>3, <1>4 DEF Holds
  <1>5. CASE c.op = "gt"
    BY <1>0, <1>1, <1>2, <1>3, <1>5 DEF Holds
  <1>6. CASE c.op = "lt"
    BY <1>0, <1>1, <1>2, <1>3, <1>6 DEF Holds
  <1>7. CASE c.op = "between"
    BY <1>0, <1>1, <1>2, <1>3, <1>7 DEF Holds
  <1> QED
    BY <1>0, <1>4, <1>5, <1>6, <1>7 DEF Operators

\* intervalSubset is inclusion.
LEMMA SubsetIsInclusion ==
    ASSUME NEW KeyA, NEW KeyB, NEW ca \in Condition(KeyA), NEW cb \in Condition(KeyB),
           NEW a \in NumInterval(ca), NEW b \in NumInterval(cb),
           IntervalSubset(a, b), NEW n \in Int, In(n, a)
    PROVE  In(n, b)
  <1>1. /\ a.lo \subseteq Int /\ a.hi \subseteq Int /\ b.lo \subseteq Int /\ b.hi \subseteq Int
        /\ a.loInc \in BOOLEAN /\ a.hiInc \in BOOLEAN
        /\ b.loInc \in BOOLEAN /\ b.hiInc \in BOOLEAN
    BY IntervalType
  <1>2. ASSUME NEW x \in b.lo PROVE x < n \/ (x = n /\ b.loInc)
    BY <1>1 DEF IntervalSubset, In
  <1>3. ASSUME NEW x \in b.hi PROVE n < x \/ (x = n /\ b.hiInc)
    BY <1>1 DEF IntervalSubset, In
  <1> QED
    BY <1>2, <1>3 DEF In

\* Two rules about the same field compare the same numbers.
LEMMA SameNumbers ==
    ASSUME NEW a, NEW b, a.field = b.field, NEW v, NEW score
    PROVE  Numbers(a, v, score) = Numbers(b, v, score)
  BY DEF Numbers, IsScore

\* conditionsContradict: "every answer that satisfies showWhen also satisfies
\* hideWhen", for every pair of rules, answer and score.
THEOREM ContradictionHides ==
    ASSUME NEW KeyA, NEW KeyB, NEW show \in Condition(KeyA), NEW hide \in Condition(KeyB),
           ConditionsContradict(show, hide),
           NEW v, v \in Value, NEW score \in Int, Holds(show, v, score)
    PROVE  Holds(hide, v, score)
  <1>0. show.field = hide.field
    BY DEF ConditionsContradict
  <1>1. CASE show.op = "in" /\ hide.op = "in" /\ ChoiceSubset(show, hide)
    BY <1>0, <1>1 DEF Holds, ChoiceSubset, IsScore
  <1>2. CASE \E s \in NumInterval(show), h \in NumInterval(hide) : IntervalSubset(s, h)
    <2>1. PICK s \in NumInterval(show), h \in NumInterval(hide) : IntervalSubset(s, h)
      BY <1>2
    <2>2. show.op # "in" /\ hide.op # "in"
      BY IntervalType
    <2>3. PICK n \in Numbers(show, v, score), i \in NumInterval(show) : In(n, i)
      BY <2>2, IntervalIsMeant
    <2>4. i = s
      BY <2>1, IntervalType
    <2>5. n \in Int
      BY NumbersType
    <2>6. In(n, h)
      BY <2>1, <2>3, <2>4, <2>5, SubsetIsInclusion
    <2>7. n \in Numbers(hide, v, score)
      BY <1>0, <2>3, SameNumbers
    <2> QED
      BY <2>1, <2>2, <2>6, <2>7, IntervalIsMeant
  <1> QED
    BY <1>1, <1>2 DEF ConditionsContradict

\* conditionNeverHolds: "a rule that can never hold", for every answer and score.
THEOREM BrokenRuleNeverHolds ==
    ASSUME NEW Key, NEW c \in Condition(Key), ConditionNeverHolds(c),
           NEW v, v \in Value, NEW score \in Int
    PROVE  ~Holds(c, v, score)
  <1>0. /\ c.value \subseteq Int /\ c.min \subseteq Int /\ c.max \subseteq Int
    BY RuleFields
  <1>1. Numbers(c, v, score) \subseteq Int
    BY NumbersType
  <1>2. CASE c.op \in {"eq", "gt", "lt"} /\ c.value = {}
    BY <1>2 DEF Holds
  <1>3. CASE c.op = "between" /\ \A x \in c.min, y \in c.max : x > y
    BY <1>0, <1>1, <1>3 DEF Holds
  <1>4. CASE c.op = "in" /\ (IsScore(c) \/ c.values = {})
    BY <1>4 DEF Holds
  <1> QED
    BY <1>2, <1>3, <1>4 DEF ConditionNeverHolds

\* ... and only such rules: one the editor does not flag holds of some answer,
\* or of some score.
THEOREM SoundRuleCanHold ==
    ASSUME NEW Key, NEW c \in Condition(Key), ~ConditionNeverHolds(c)
    PROVE  \E v \in Value, score \in Int : WellFormed(v) /\ Holds(c, v, score)
  <1>0. /\ c.op \in Operators
        /\ c.value \subseteq Int /\ c.min \subseteq Int /\ c.max \subseteq Int
        /\ c.values \subseteq Int
    BY RuleFields
  <1> DEFINE One(n) == [list |-> FALSE, picks |-> {n}]
  <1>1. \A n \in Int : WellFormed(One(n)) /\ One(n) \in Value
    BY DEF WellFormed, Value
  <1>2. \A n \in Int : Numbers(c, One(n), n) = {n}
    BY DEF Numbers
  <1>3. ASSUME NEW n \in Int, Holds(c, One(n), n)
        PROVE  \E v \in Value, score \in Int : WellFormed(v) /\ Holds(c, v, score)
    BY <1>1, <1>3
  <1>4. CASE c.op = "in"
    <2>1. PICK n \in c.values : ~IsScore(c)
      BY <1>4 DEF ConditionNeverHolds
    <2>2. Holds(c, One(n), n)
      BY <1>4, <2>1 DEF Holds
    <2> QED
      BY <1>0, <1>3, <2>1, <2>2
  <1>5. CASE c.op \in {"eq", "gt", "lt"}
    <2>1. PICK x \in c.value : TRUE
      BY <1>5 DEF ConditionNeverHolds
    <2>2. x \in Int /\ x + 1 \in Int /\ x - 1 \in Int /\ x + 1 > x /\ x - 1 < x
      BY <1>0
    <2>3. CASE c.op = "eq"
      <3>1. Holds(c, One(x), x)
        BY <1>2, <2>1, <2>2, <2>3 DEF Holds
      <3> QED
        BY <1>3, <2>2, <3>1
    <2>4. CASE c.op = "gt"
      <3>1. Holds(c, One(x + 1), x + 1)
        <4>1. Numbers(c, One(x + 1), x + 1) = {x + 1}
          BY <1>2, <2>2
        <4> QED
          BY <4>1, <2>1, <2>2, <2>4 DEF Holds
      <3> QED
        BY <1>3, <2>2, <3>1
    <2>5. CASE c.op = "lt"
      <3>1. Holds(c, One(x - 1), x - 1)
        <4>1. Numbers(c, One(x - 1), x - 1) = {x - 1}
          BY <1>2, <2>2
        <4> QED
          BY <4>1, <2>1, <2>2, <2>5 DEF Holds
      <3> QED
        BY <1>3, <2>2, <3>1
    <2> QED
      BY <1>5, <2>3, <2>4, <2>5
  <1>6. CASE c.op = "between"
    <2>1. PICK x \in c.min, y \in c.max : ~(x > y)
      BY <1>6 DEF ConditionNeverHolds
    <2>2. x \in Int /\ y \in Int /\ x <= x /\ x <= y
      BY <1>0, <2>1
    <2>3. Holds(c, One(x), x)
      BY <1>2, <1>6, <2>1, <2>2 DEF Holds
    <2> QED
      BY <1>3, <2>2, <2>3
  <1> QED
    BY <1>0, <1>4, <1>5, <1>6 DEF Operators

\* conditionsNarrow: the window it names is exactly where the step still shows.
THEOREM WindowIsExact ==
    ASSUME NEW KeyA, NEW KeyB, NEW show \in Condition(KeyA), NEW hide \in Condition(KeyB),
           NEW w \in ConditionsNarrow(show, hide),
           NEW v, v \in Value, WellFormed(v), NEW score \in Int
    PROVE  Holds(show, v, score) /\ ~Holds(hide, v, score)
             <=> \E x \in Numbers(show, v, score) : w.lo <= x /\ x <= w.hi
  <1>0. show.field = hide.field
    BY DEF ConditionsNarrow
  <1>1. PICK s \in NumInterval(show), h \in NumInterval(hide) : w \in Windows(s, h)
    BY <1>0 DEF ConditionsNarrow
  <1>2. show.op # "in" /\ hide.op # "in"
    BY IntervalType
  <1>3. /\ \A i \in NumInterval(show) : i = s
        /\ \A i \in NumInterval(hide) : i = h
    BY <1>1, IntervalType
  <1>4. Numbers(hide, v, score) = Numbers(show, v, score)
    BY <1>0, SameNumbers
  <1>5. \A x, y \in Numbers(show, v, score) : x = y
    BY DEF Numbers, WellFormed
  <1>6. /\ Holds(show, v, score) <=> \E n \in Numbers(show, v, score) : In(n, s)
        /\ Holds(hide, v, score) <=> \E n \in Numbers(show, v, score) : In(n, h)
    BY <1>1, <1>2, <1>3, <1>4, IntervalIsMeant
  <1>7. Numbers(show, v, score) \subseteq Int
    BY NumbersType
  <1>8. ASSUME NEW n \in Int
        PROVE  In(n, s) /\ ~In(n, h) <=> w.lo <= n /\ n <= w.hi
    <2>1. /\ s.lo \subseteq Int /\ s.hi \subseteq Int /\ h.lo \subseteq Int /\ h.hi \subseteq Int
          /\ s.loInc \in BOOLEAN /\ s.hiInc \in BOOLEAN
          /\ h.loInc \in BOOLEAN /\ h.hiInc \in BOOLEAN
          /\ \A x, y \in s.lo : x = y
          /\ \A x, y \in s.hi : x = y
          /\ \A x, y \in h.lo : x = y
          /\ \A x, y \in h.hi : x = y
          /\ s.lo = {} \/ s.hi = {} \/ (s.loInc /\ s.hiInc)
          /\ h.lo = {} \/ h.hi = {} \/ (h.loInc /\ h.hiInc)
      BY <1>1, IntervalType
    <2>2. /\ w.lo \in IF ClipsLow(s, h) THEN h.hi ELSE s.lo
          /\ w.hi \in IF ClipsHigh(s, h) THEN h.lo ELSE s.hi
          /\ \A x \in s.lo \cup h.lo, y \in s.hi \cup h.hi : x <= y
          /\ ClipsLow(s, h) \/ ClipsHigh(s, h)
          /\ Nameable(s, h)
          /\ w.lo <= w.hi
      BY <1>1 DEF Windows
    <2>3. w.lo \in Int /\ w.hi \in Int
      BY <2>1, <2>2
    <2>4. ~(ClipsLow(s, h) /\ ClipsHigh(s, h))
      BY <2>1, <2>2 DEF Nameable
    <2>5. CASE ClipsLow(s, h) /\ ~ClipsHigh(s, h)
      <3>1. h.hi = {w.lo} /\ s.hi = {w.hi} /\ ~h.hiInc /\ s.hiInc
        BY <2>1, <2>2, <2>5 DEF Nameable
      <3>2. h.lo = {}
        BY <2>1, <3>1
      <3>3. In(n, h) <=> n < w.lo
        BY <3>1, <3>2 DEF In
      <3>4. In(n, s) => n <= w.hi
        BY <2>3, <3>1 DEF In
      <3>5. \A x \in s.lo : x <= w.lo /\ s.loInc
        BY <2>1, <2>2, <3>1
      <3>6. w.lo <= n /\ n <= w.hi => In(n, s)
        BY <2>1, <2>3, <3>1, <3>5 DEF In
      <3> QED
        BY <2>3, <3>3, <3>4, <3>6
    <2>6. CASE ~ClipsLow(s, h) /\ ClipsHigh(s, h)
      <3>1. h.lo = {w.hi} /\ s.lo = {w.lo} /\ ~h.loInc /\ s.loInc
        BY <2>1, <2>2, <2>6 DEF Nameable
      <3>2. h.hi = {}
        BY <2>1, <3>1
      <3>3. In(n, h) <=> w.hi < n
        BY <3>1, <3>2 DEF In
      <3>4. In(n, s) => w.lo <= n
        BY <2>3, <3>1 DEF In
      <3>5. \A x \in s.hi : w.hi <= x /\ s.hiInc
        BY <2>1, <2>2, <3>1
      <3>6. w.lo <= n /\ n <= w.hi => In(n, s)
        BY <2>1, <2>3, <3>1, <3>5 DEF In
      <3> QED
        BY <2>3, <3>3, <3>4, <3>6
    <2> QED
      BY <2>2, <2>4, <2>5, <2>6
  <1> QED
    BY <1>5, <1>6, <1>7, <1>8

=============================================================================
