------------------------------ MODULE FormLogic ------------------------------
(***************************************************************************)
(* What a respondent sees of a form, what counts, and what the API accepts: *)
(* the pure functions of packages/engine/src/form-logic.ts that the public  *)
(* page, the editor's preview and the API share.                            *)
(*                                                                          *)
(* A step is named by its position in the form, so a walk through the form  *)
(* is a set of positions: every jump goes forward and the order is the      *)
(* authored one.  A step's points are a function of the answer's tokens     *)
(* (the options' points, or a slider's ranges), and so are the answers its  *)
(* field takes (`accepts`: the options, or what the field's pattern         *)
(* matches).  Texts, variants and styling are left out.                     *)
(***************************************************************************)
EXTENDS FormConditions, Sequences, SequencesExt

CONSTANTS
    Tokens,         \* what answers are made of
    Personal        \* isPersonalEmail: the tokens that are free-mail addresses

\* Texts are bounded, so there are finitely many.
ASSUME TokensAssumption ==
    Tokens \subseteq Int /\ IsFiniteSet(Tokens) /\ Personal \subseteq Tokens

Kinds == {"choice", "multi", "slider", "text", "email", "checkbox",
          "message", "reveal", "scheduler"}

Inputless == {"message", "reveal"}
SoloScreenKinds == {"reveal", "scheduler"}
ScoringKinds == {"choice", "multi", "slider"}

\* A goto rule; `*` makes it match any answer.  Target 0 is the end.
Rule == [any: BOOLEAN, values: SUBSET Tokens, target: Nat]

Step ==
    [kind: Kinds, hidden: BOOLEAN, required: BOOLEAN, terminal: BOOLEAN,
     show: Optional(Condition(Nat)), hide: Optional(Condition(Nat)),
     personalOnly: BOOLEAN, goto: Seq(Rule), screenGroup: Optional(Nat),
     scores: BOOLEAN, accepts: SUBSET Tokens, points: [Tokens -> Int]]

Positions(form) == 1..Len(form.steps)

Answers(form) ==
    {a \in [Positions(form) -> [list: BOOLEAN, picks: SUBSET Tokens]] :
        \A n \in Positions(form) : WellFormed(a[n])}

-----------------------------------------------------------------------------
(* Visibility and the running score.                                        *)

IsHidden(step) == step.hidden /\ step.kind # "checkbox"

StepScore(step, v) ==
    IF step.scores /\ step.kind \in ScoringKinds /\ (v.list => step.kind = "multi")
    THEN MapThenSumSet(LAMBDA t : step.points[t], v.picks)
    ELSE 0

Total(form, answers, S) ==
    IF form.scoring
    THEN MapThenSumSet(LAMBDA n : StepScore(form.steps[n], answers[n]), S)
    ELSE 0

\* A rule may name a step that is no longer there: it has no answer.
AnswerTo(answers, field) == IF field \in DOMAIN answers THEN answers[field] ELSE NoAnswer

\* conditionHolds, over all the answers.
HoldsFor(cond, answers, score) == Holds(cond, AnswerTo(answers, cond.field), score)

EmailSteps(form) == {n \in Positions(form) : form.steps[n].kind = "email"}

PersonalEmail(form, answers) ==
    /\ EmailSteps(form) # {}
    /\ LET v == answers[Min(EmailSteps(form))] IN ~v.list /\ v.picks \cap Personal # {}

\* Whether a step is admitted, given the score of those admitted before it.
Appears(form, answers, n, score) ==
    LET step == form.steps[n] IN
    /\ ~IsHidden(step)
    /\ \A c \in step.show : HoldsFor(c, answers, score)
    /\ \A c \in step.hide : ~HoldsFor(c, answers, score)
    /\ step.personalOnly => PersonalEmail(form, answers)

VisibleSteps(form, answers) ==
    LET seen[n \in 0..Len(form.steps)] ==
          IF n = 0 THEN {}
          ELSE IF Appears(form, answers, n, Total(form, answers, seen[n - 1]))
               THEN seen[n - 1] \cup {n}
               ELSE seen[n - 1]
    IN seen[Len(form.steps)]

-----------------------------------------------------------------------------
(* Screens of several questions (slides layout only).                       *)

CanShareScreen(step) == step.kind \notin SoloScreenKinds /\ ~IsHidden(step)

\* On one screen: the same id, and no step between them that is shown and
\* not on it.
SameScreen(form, m, n) ==
    /\ form.layout = "slides"
    /\ CanShareScreen(form.steps[m]) /\ CanShareScreen(form.steps[n])
    /\ form.steps[n].screenGroup # {}
    /\ \A k \in Min({m, n})..Max({m, n}) :
          \/ IsHidden(form.steps[k])
          \/ CanShareScreen(form.steps[k])
             /\ form.steps[k].screenGroup = form.steps[n].screenGroup

ScreenOf(form, n) == {n} \cup {m \in Positions(form) : SameScreen(form, m, n)}

-----------------------------------------------------------------------------
(* Jumps.                                                                   *)

Matches(rule, v) == IF rule.any THEN v.picks # {} ELSE rule.values \cap v.picks # {}

\* resolveGoto: the first matching rule, if any.
ResolveGoto(step, v) ==
    LET matching == {i \in DOMAIN step.goto : Matches(step.goto[i], v)} IN
    IF step.kind = "checkbox" \/ matching = {} THEN {} ELSE {step.goto[Min(matching)]}

\* Mutant: a jump lands on the very step it names.
LandOnTarget(form, visible, t) == {t} \cap visible

\* Where a jump to step t lands among the visible steps: its screen's first.
LandOn(form, visible, t) ==
    IF t \in Positions(form) /\ ScreenOf(form, t) \cap visible # {}
    THEN {Min(ScreenOf(form, t) \cap visible)}
    ELSE {}

\* Where the rule of step k takes who leaves a screen that ends at `end`: past
\* the last step, forward, or nowhere.
GoesTo(form, answers, visible, k, end) ==
    UNION {IF r.target = 0
           THEN {Len(form.steps) + 1}
           ELSE {n \in LandOn(form, visible, r.target) : n > end}
             : r \in ResolveGoto(form.steps[k], answers[k])}

\* The step after a screen: the first member whose rule goes somewhere decides.
NextStop(form, answers, visible, members) ==
    LET end == Max(members)
        movers == {k \in members : GoesTo(form, answers, visible, k, end) # {}}
    IN IF movers = {} THEN end + 1
       ELSE Min(GoesTo(form, answers, visible, Min(movers), end))

ApplyGoto(form, answers, visible) ==
    LET from[n \in 1..Len(form.steps) + 1] ==
          IF n > Len(form.steps) THEN {}
          ELSE IF n \notin visible THEN from[n + 1]
          ELSE LET members == {m \in ScreenOf(form, n) \cap visible : m >= n} IN
               members \cup from[NextStop(form, answers, visible, members)]
    IN from[1]

RuntimeSteps(form, answers) == ApplyGoto(form, answers, VisibleSteps(form, answers))

-----------------------------------------------------------------------------
(* Validation.                                                              *)

\* validateAnswerCode.  What a booking left as its answer is not looked at.
ValidAnswer(step, v) ==
    \/ step.kind \in Inputless
    \/ v.picks = {} /\ ~step.required
    \/ v.picks # {} /\ (step.kind = "scheduler" \/ v.picks \subseteq step.accepts)

\* What ends the form where it stands; a checkbox never does.
IsTerminal(step) == step.terminal /\ step.kind # "checkbox"

CutAt(S, stops) == IF stops = {} THEN S ELSE {n \in S : n <= Min(stops)}

AnsweredPath(form, answers) ==
    LET path == RuntimeSteps(form, answers) IN
    CutAt(path, {n \in path : IsTerminal(form.steps[n])})

ValidateSubmission(form, answers) ==
    \A n \in AnsweredPath(form, answers) : ValidAnswer(form.steps[n], answers[n])

-----------------------------------------------------------------------------
(* What the form's logic reads.                                             *)

\* Rules that only look at what comes before the step they are about: what the
\* editor offers, but a step moved afterwards keeps its rule.
Forward(form) ==
    \A n \in Positions(form) :
       /\ \A c \in form.steps[n].show \cup form.steps[n].hide : IsScore(c) \/ c.field < n
       /\ form.steps[n].personalOnly => \E m \in EmailSteps(form) : m < n

\* Jumps whose landing is settled when they are taken: no rule about the screen
\* they lead to reads the score, or an answer below the jump.
JumpsSettled(form) ==
    \A k \in Positions(form) : \A i \in DOMAIN form.steps[k].goto :
       LET t == form.steps[k].goto[i].target IN
       t \in Positions(form) /\ t > k =>
          \A m \in ScreenOf(form, t) :
             /\ \A c \in form.steps[m].show \cup form.steps[m].hide : ~IsScore(c) /\ c.field <= k
             /\ form.steps[m].personalOnly => \E e \in EmailSteps(form) : e <= k

=============================================================================
