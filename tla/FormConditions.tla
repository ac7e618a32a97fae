--------------------------- MODULE FormConditions ---------------------------
(***************************************************************************)
(* The visibility conditions of a form and the checks the editor makes of   *)
(* them without any answer: packages/engine/src/form-logic.ts.              *)
(*                                                                          *)
(* What the source marks as optional (`?`, `null`) is a set with at most    *)
(* one member here: an operand not typed yet, a rule not set, an interval's *)
(* infinite end.  An answer is a list or a single value with its tokens,    *)
(* which are integers: a token of a single value is also its number.        *)
(* Numbers are integers although the source has doubles.                    *)
(***************************************************************************)
EXTENDS Integers

CONSTANT ScoreField     \* SCORE_FIELD: the running score as a condition's source

Operators == {"in", "eq", "gt", "lt", "between"}

Optional(S) == {T \in SUBSET S : \A x, y \in T : x = y}

Condition(Key) ==
    [field: Key \cup {ScoreField}, op: Operators, values: SUBSET Int,
     value: Optional(Int), min: Optional(Int), max: Optional(Int)]

Value == [list: BOOLEAN, picks: SUBSET Int]

NoAnswer == [list |-> FALSE, picks |-> {}]

\* A value that the page can hold: only a list has several tokens.
WellFormed(v) == v \in Value /\ (v.list \/ \A x, y \in v.picks : x = y)

IsScore(cond) == cond.field = ScoreField

\* numericAnswer, or the running score: the numbers a condition compares.
Numbers(cond, v, score) ==
    IF IsScore(cond) THEN {score} ELSE IF v.list THEN {} ELSE v.picks

\* conditionHolds, v the answer to the condition's field.
Holds(cond, v, score) ==
    LET n == Numbers(cond, v, score) IN
    \/ cond.op = "in" /\ ~IsScore(cond) /\ cond.values \cap v.picks # {}
    \/ cond.op = "eq" /\ \E x \in n, y \in cond.value : x = y
    \/ cond.op = "gt" /\ \E x \in n, y \in cond.value : x > y
    \/ cond.op = "lt" /\ \E x \in n, y \in cond.value : x < y
    \/ cond.op = "between" /\ \E x \in n, y \in cond.min, z \in cond.max : y <= x /\ x <= z

-----------------------------------------------------------------------------
(* Intervals.                                                               *)

Interval(lo, loInc, hi, hiInc) == [lo |-> lo, loInc |-> loInc, hi |-> hi, hiInc |-> hiInc]

\* numInterval: of a rule with its operands; an operand is its own end.
NumInterval(cond) ==
    LET v == cond.value IN
    {i \in {Interval(v, TRUE, v, TRUE)} : cond.op = "eq" /\ v # {}}
    \cup {i \in {Interval(v, FALSE, {}, FALSE)} : cond.op = "gt" /\ v # {}}
    \cup {i \in {Interval({}, FALSE, v, FALSE)} : cond.op = "lt" /\ v # {}}
    \cup {i \in {Interval(cond.min, TRUE, cond.max, TRUE)} :
            cond.op = "between" /\ cond.min # {} /\ cond.max # {}}

\* Mutant: equal bounds are always as good.
IntervalSubsetLoose(a, b) ==
    /\ \A x \in b.lo : \E y \in a.lo : x <= y
    /\ \A x \in b.hi : \E y \in a.hi : x >= y

IntervalSubset(a, b) ==
    /\ \A x \in b.lo : \E y \in a.lo : x < y \/ (x = y /\ (b.loInc \/ ~a.loInc))
    /\ \A x \in b.hi : \E y \in a.hi : x > y \/ (x = y /\ (b.hiInc \/ ~a.hiInc))

ChoiceSubset(a, b) == a.values # {} /\ a.values \subseteq b.values

-----------------------------------------------------------------------------
(* The editor's checks of a step's show and hide rules.                     *)

\* conditionsContradict: hide holds whenever show does.
ConditionsContradict(show, hide) ==
    /\ show.field = hide.field
    /\ \/ show.op = "in" /\ hide.op = "in" /\ ChoiceSubset(show, hide)
       \/ \E s \in NumInterval(show), h \in NumInterval(hide) : IntervalSubset(s, h)

\* conditionNeverHolds: a rule no answer satisfies.
ConditionNeverHolds(cond) ==
    \/ cond.op \in {"eq", "gt", "lt"} /\ cond.value = {}
    \/ cond.op = "between" /\ \A x \in cond.min, y \in cond.max : x > y
    \/ cond.op = "in" /\ (IsScore(cond) \/ cond.values = {})

ClipsLow(s, h) == h.lo = {} \/ \E x \in h.lo, y \in s.lo : x <= y
ClipsHigh(s, h) == h.hi = {} \/ \E x \in h.hi, y \in s.hi : x >= y

\* The bounds that remain can be named as inclusive ones.
Nameable(s, h) ==
    /\ ClipsLow(s, h) => ~h.hiInc /\ s.hiInc
    /\ ClipsHigh(s, h) => ~h.loInc /\ s.loInc

\* conditionsNarrow: what hide leaves of show, as [lo, hi], when that is one
\* interval with bounds to name; nothing otherwise.
Windows(s, h) ==
    LET low == IF ClipsLow(s, h) THEN h.hi ELSE s.lo
        high == IF ClipsHigh(s, h) THEN h.lo ELSE s.hi
    IN {w \in [lo: low, hi: high] :
          /\ ~IntervalSubset(s, h)
          /\ \A x \in s.lo \cup h.lo, y \in s.hi \cup h.hi : x <= y
          /\ ClipsLow(s, h) \/ ClipsHigh(s, h)
          /\ Nameable(s, h)
          /\ w.lo <= w.hi
          /\ ~(low = s.lo /\ high = s.hi)}

ConditionsNarrow(show, hide) ==
    IF show.field = hide.field
    THEN UNION {Windows(s, h) : s \in NumInterval(show), h \in NumInterval(hide)}
    ELSE {}

=============================================================================
