------------------------------- MODULE FormWalk -------------------------------
(***************************************************************************)
(* A respondent's way through a published form: the slides layout           *)
(* (form-renderer.tsx) and the one-page layout (vertical-form-renderer.tsx) *)
(* of the public page, over the engine of module FormLogic.  The page       *)
(* decides with the engine which steps to show and when to submit; the API  *)
(* validates the submitted answers with the same engine and may refuse.     *)
(*                                                                          *)
(* One form per behaviour.  Left out: spam protection's check (module       *)
(* Intake), the partial save at the threshold step (module Submission), a   *)
(* booking after the outcome, a scheduler's booking that is recorded only   *)
(* once the form was submitted without it, and what is sent to analytics.   *)
(***************************************************************************)
EXTENDS FormLogic

CONSTANTS
    Forms,      \* the published forms considered
    SeededAt    \* the steps a link or a default prefills; 0: none

ASSUME FormsAssumption == \A f \in Forms : f.steps \in Seq(Step)

VARIABLES
    form,
    answers,    \* step -> answer
    touched,    \* one page: the steps the person answered (not seededKeys)
    path,       \* the steps rendered: the engine's path for the answers
    phase,
    index,      \* slides: the place on the path of the screen's first step
    afterReveal, \* submitAfterReveal
    booked,     \* schedulerBooked
    recording,  \* slides: the booking being recorded, with the index it began at
    strayed,    \* history: a booking was recorded when its step had been left
    draft,      \* what a reload restores
    pressed     \* history: the person did something since the last refusal, if any

vars == <<form, answers, touched, path, phase, index, afterReveal, booked, recording,
          strayed, draft, pressed>>

calendar == <<booked, recording, strayed>>

Phases == {"cover", "steps", "reveal", "submitting", "failed", "done"}

Slides == form.layout = "slides"
Kind(n) == form.steps[n].kind

One(t) == [list |-> FALSE, picks |-> {t}]
Many(S) == [list |-> TRUE, picks |-> S]

\* What a field can be given by the person.
Replies(step) ==
    CASE step.kind \in {"choice", "slider", "scheduler"} -> {One(t) : t \in step.accepts}
      [] step.kind = "multi" -> {Many(S) : S \in SUBSET step.accepts}
      [] step.kind \in {"text", "email"} -> {NoAnswer} \cup {One(t) : t \in Tokens}
      [] step.kind = "checkbox" -> {NoAnswer} \cup {One(t) : t \in step.accepts}
      [] OTHER -> {}

\* captureDefaults and capturePrefill: a default or a link seeds any value.
Seeded(f, at, t) ==
    [n \in Positions(f) |->
        IF n = at /\ f.steps[n].kind \notin {"message", "checkbox"}
        THEN One(t) ELSE NoAnswer]

FirstPhase(f) == IF f.layout = "slides" /\ f.cover THEN "cover" ELSE "steps"

-----------------------------------------------------------------------------
(* Places on the path.                                                      *)

IndexOf(S, n) == Cardinality({m \in S : m < n})

StepAt(S, i) == CHOOSE n \in S : IndexOf(S, n) = i

\* Where the effect that watches the index puts it: the first question of the
\* screen it is on, or of the last one.
Clamp(f, S, i) ==
    IF S = {} THEN i
    ELSE LET n == IF i >= Cardinality(S) THEN Max(S) ELSE StepAt(S, i)
         IN IndexOf(S, Min(ScreenOf(f, n) \cap S))

Here == StepAt(path, index)
Screen == ScreenOf(form, Here) \cap path

\* On a question (slides); `Grouped`: on a card of several, which has a button.
Asking == Slides /\ phase = "steps" /\ path # {}
Grouped == Cardinality(ScreenOf(form, Here)) > 1

\* One page: what is on the page; it ends at the first terminal step the
\* person answered.
Walk == CutAt(path, {n \in path : /\ IsTerminal(form.steps[n])
                                  /\ answers[n].picks # {}
                                  /\ n \in touched})

Snapshot(f, a, t, p, i) == [answers |-> a, touched |-> t, phase |-> p, index |-> i]

Init ==
    /\ form \in Forms
    /\ \E at \in SeededAt, t \in Tokens : answers = Seeded(form, at, t)
    /\ touched = {}
    /\ path = RuntimeSteps(form, answers)
    /\ phase = FirstPhase(form)
    /\ index = 0
    /\ afterReveal = FALSE
    /\ booked = {}
    /\ recording = {}
    /\ strayed = FALSE
    /\ draft = Snapshot(form, answers, touched, phase, index)
    /\ pressed = TRUE

\* The page with other answers, in another phase, at another place.  The draft
\* follows while the page shows the cover or the questions.
Show(a, t, p, i) ==
    LET steps == IF a = answers THEN path ELSE RuntimeSteps(form, a)
        at == IF Slides /\ p = "steps" THEN Clamp(form, steps, i) ELSE i
    IN
    /\ answers' = a
    /\ touched' = t
    /\ path' = steps
    /\ phase' = p
    /\ index' = at
    /\ draft' = IF p \in {"cover", "steps"} THEN Snapshot(form, a, t, p, at) ELSE draft
    /\ UNCHANGED form

-----------------------------------------------------------------------------
(* Slides.                                                                  *)

\* Mutant: the path is the one rendered, not the one of the new answers.
NextPathRendered(a) == path

NextPath(a) == RuntimeSteps(form, a)

\* advance, begun at index at: the screen `members` is completed with the
\* answers a.
Advance(a, members, at) ==
    LET next == NextPath(a)
        last == Max(members)
        onpath == last \in next
        isLast == IF onpath THEN last = Max(next) ELSE at >= Cardinality(next) - 1
        terminal == \E n \in members : IsTerminal(form.steps[n])
        reveals == ~terminal /\ form.reveal \in members
        following ==
            IF onpath THEN IndexOf(next, last) + 1
            ELSE Min({at + Cardinality(members), Cardinality(next) - 1})
        revealed == IF onpath THEN IndexOf(next, last) + 1 ELSE 0
    IN \/ /\ terminal \/ (isLast /\ ~reveals)
          /\ Show(a, touched, "submitting", index)
          /\ UNCHANGED afterReveal
       \/ /\ reveals
          /\ afterReveal' = isLast
          /\ Show(a, touched, "reveal", IF isLast THEN index ELSE revealed)
       \/ /\ ~terminal /\ ~reveals /\ ~isLast
          /\ Show(a, touched, "steps", following)
          /\ UNCHANGED afterReveal

\* start.
Start ==
    /\ phase = "cover"
    /\ Show(answers, touched, "steps", 0)
    /\ pressed' = TRUE
    /\ UNCHANGED <<afterReveal, calendar>>

\* answerOnScreen, or the lone field's onChange: no move.
Answer ==
    /\ Asking
    /\ \E n \in Screen : \E v \in Replies(form.steps[n]) :
          /\ Kind(n) # "scheduler"
          /\ ~Grouped => Kind(n) # "choice"
          /\ Show([answers EXCEPT ![n] = v], touched, "steps", index)
    /\ pressed' = TRUE
    /\ UNCHANGED <<afterReveal, calendar>>

\* select: a lone single choice is answered and left at once.
Select ==
    /\ Asking
    /\ ~Grouped /\ Kind(Here) = "choice"
    /\ \E v \in Replies(form.steps[Here]) : Advance([answers EXCEPT ![Here] = v], {Here}, index)
    /\ pressed' = TRUE
    /\ UNCHANGED calendar

\* Mutant: the button checks the question the screen begins with.
ScreenTakenFirst == ValidAnswer(form.steps[Here], answers[Here])

\* Every question of the screen passes at once.
ScreenTaken == \A n \in Screen : ValidAnswer(form.steps[n], answers[n])

\* submitCurrent and submitScreen: the button of the screen.
Submit ==
    /\ Asking
    /\ Grouped \/ Kind(Here) \notin {"choice", "reveal", "scheduler"}
    /\ ScreenTaken
    /\ Advance(answers, Screen, index)
    /\ pressed' = TRUE
    /\ UNCHANGED calendar

\* A reveal step's timer ends.
PlayReveal ==
    /\ Asking
    /\ Kind(Here) = "reveal"
    /\ Advance(answers, {Here}, index)
    /\ UNCHANGED <<calendar, pressed>>

\* handleSchedulerBooked: a booking is recorded first; the page stays as it is.
Book ==
    /\ Asking
    /\ Kind(Here) = "scheduler"
    /\ Here \notin booked
    /\ booked' = booked \cup {Here}
    /\ recording' = {[step |-> Here, at |-> index]}
    /\ pressed' = TRUE
    /\ UNCHANGED <<form, answers, touched, path, phase, index, afterReveal, strayed, draft>>

\* ... and then answers its step and completes it, wherever the person is.
Recorded ==
    /\ phase \in {"cover", "steps", "reveal"}
    /\ \E r \in recording : \E v \in Replies(form.steps[r.step]) :
          /\ Advance([answers EXCEPT ![r.step] = v], {r.step}, r.at)
          /\ strayed' = (strayed \/ ~Asking \/ Here # r.step)
    /\ recording' = {}
    /\ pressed' = TRUE
    /\ UNCHANGED booked

\* The way past an optional scheduler.
SkipBooking ==
    /\ Asking
    /\ Kind(Here) = "scheduler"
    /\ ~form.steps[Here].required
    /\ Advance(answers, {Here}, index)
    /\ pressed' = TRUE
    /\ UNCHANGED calendar

\* back: to the previous screen, or the cover; a reveal step has no button.
Back ==
    /\ Asking
    /\ Kind(Here) # "reveal"
    /\ \/ /\ index > 0
          /\ Show(answers, touched, "steps",
                  IndexOf(path, Min(ScreenOf(form, StepAt(path, index - 1)) \cap path)))
       \/ /\ index = 0 /\ form.cover
          /\ Show(answers, touched, "cover", index)
    /\ pressed' = TRUE
    /\ UNCHANGED <<afterReveal, calendar>>

-----------------------------------------------------------------------------
(* One page.                                                                *)

\* setAnswer.
Fill ==
    /\ ~Slides /\ phase = "steps"
    /\ \E n \in Walk : \E v \in Replies(form.steps[n]) :
          /\ Kind(n) = "scheduler" => n \notin booked
          /\ Show([answers EXCEPT ![n] = v], touched \cup {n}, "steps", index)
          /\ booked' = IF Kind(n) = "scheduler" THEN booked \cup {n} ELSE booked
    /\ pressed' = TRUE
    /\ UNCHANGED <<afterReveal, recording, strayed>>

\* submitAll.
SubmitAll ==
    /\ ~Slides /\ phase = "steps"
    /\ \A n \in Walk : ValidAnswer(form.steps[n], answers[n])
    /\ LET reveals == form.reveal # 0 \/ \E n \in path : Kind(n) = "reveal"
       IN Show(answers, touched, IF reveals THEN "reveal" ELSE "submitting", index)
    /\ pressed' = TRUE
    /\ UNCHANGED <<afterReveal, calendar>>

-----------------------------------------------------------------------------
(* Both.                                                                    *)

\* onRevealComplete: the interstitial's timer ends.
RevealDone ==
    /\ phase = "reveal"
    /\ \/ /\ afterReveal \/ ~Slides
          /\ Show(answers, touched, "submitting", index)
          /\ afterReveal' = FALSE
       \/ /\ Slides /\ ~afterReveal
          /\ Show(answers, touched, "steps", index)
          /\ UNCHANGED afterReveal
    /\ UNCHANGED <<calendar, pressed>>

\* The API takes the submission, which it does only when it validates.
Accept ==
    /\ phase = "submitting"
    /\ ValidateSubmission(form, answers)
    /\ Show(answers, touched, "done", index)
    /\ UNCHANGED <<afterReveal, calendar, pressed>>

\* Mutant: back to the step, whatever it is.
HasButtonAlways == TRUE

\* Whether a refusal can go back to the step: one that would not submit again
\* by itself, nor one already booked.
HasButton ==
    ~Slides \/ (index < Cardinality(path) /\ Kind(Here) \notin {"reveal", "scheduler"})

\* finalize's refused branch: the API's validation, a limit, or no answer.
Refuse ==
    /\ phase = "submitting"
    /\ Show(answers, touched, IF HasButton THEN "steps" ELSE "failed", index)
    /\ pressed' = FALSE
    /\ UNCHANGED <<afterReveal, calendar>>

TryAgain ==
    /\ phase = "failed"
    /\ Show(answers, touched, "submitting", index)
    /\ pressed' = TRUE
    /\ UNCHANGED <<afterReveal, calendar>>

\* The page is loaded again before the submission is confirmed.
Reload ==
    /\ phase # "done"
    /\ IF draft.phase = "steps"
       THEN Show(draft.answers, draft.touched, "steps", draft.index)
       ELSE Show(draft.answers, draft.touched, FirstPhase(form), 0)
    /\ afterReveal' = FALSE
    /\ booked' = {}
    /\ recording' = {}
    /\ pressed' = TRUE
    /\ UNCHANGED strayed

Next ==
    \/ Start \/ Answer \/ Select \/ Submit \/ PlayReveal \/ Book \/ Recorded
    \/ SkipBooking \/ Back
    \/ Fill \/ SubmitAll
    \/ RevealDone \/ Accept \/ Refuse \/ TryAgain \/ Reload

Spec == Init /\ [][Next]_vars

-----------------------------------------------------------------------------
(* Properties.                                                              *)

\* Types; a booking being recorded is of the scheduler it was made at.
TypeOK ==
    /\ answers \in Answers(form) /\ draft.answers \in Answers(form)
    /\ touched \subseteq Positions(form) /\ draft.touched \subseteq Positions(form)
    /\ path = RuntimeSteps(form, answers)
    /\ phase \in Phases /\ draft.phase \in {"cover", "steps"}
    /\ index \in 0..Len(form.steps) /\ draft.index \in 0..Len(form.steps)
    /\ afterReveal \in BOOLEAN /\ strayed \in BOOLEAN /\ pressed \in BOOLEAN
    /\ booked \subseteq Positions(form)
    /\ \A r \in recording : /\ Slides
                            /\ r.step \in booked /\ Kind(r.step) = "scheduler"
                            /\ r.at \in 0..Len(form.steps)

\* What the walk through the slides relies on: the answers given on a screen
\* change nothing above it.
Settled == Forward(form) /\ JumpsSettled(form) /\ ~strayed

\* Every question the answers a lead to before the place i holds an answer its
\* button took, or needs none.
Passed(a, i) ==
    LET steps == RuntimeSteps(form, a) IN
    \A n \in steps : IndexOf(steps, n) < i => ValidAnswer(form.steps[n], a[n])

\* The person has walked through the steps in order, before a reload as well,
\* when no rule reads an answer below it, no answer moves a jump already taken
\* and no late booking moved the page.
PassedAreValid ==
    Slides /\ Settled => Passed(answers, index) /\ Passed(draft.answers, draft.index)

\* The page stands on the first question of a screen of its path.
StartsScreen == Asking => index < Cardinality(path) /\ Clamp(form, path, index) = index

\* Past the last question: the submission, and the interstitial before it.
Completed ==
    \/ phase \in {"submitting", "failed"}
    \/ phase = "reveal" /\ (afterReveal \/ ~Slides)

\* What is completed passes the API's validation.
CompletedIsValid ==
    Completed /\ (Slides => Settled) => ValidateSubmission(form, answers)

\* A page that a refusal left alone does not go on by itself.
WaitsForThePerson ==
    ~pressed => phase \in {"steps", "failed"} /\ (Asking => Kind(Here) # "reveal")

\* Types, and what the walk relies on.
WalkInv ==
    TypeOK /\ PassedAreValid /\ StartsScreen /\ CompletedIsValid /\ WaitsForThePerson

\* "The way the renderers did on the way through" (validateSubmission): what a
\* page submits is an answer to every step the API reads, so the API never
\* refuses the answers themselves.  On one page whatever the rules; on slides
\* when the answers given on a screen change nothing above it.
ServerAccepts ==
    phase = "submitting" /\ (Slides => Settled) =>
        ValidateSubmission(form, answers)

\* A screen is on the path with every question of it that is visible, or not
\* at all, whatever jumps lead to it or leave it (applyGoto).
WholeScreens ==
    LET visible == VisibleSteps(form, answers) IN
    \A n \in path : ScreenOf(form, n) \cap visible \subseteq path

\* After a refused submission the page waits for the person: an interstitial
\* that plays again never submits by itself, over and over.
NeverResubmitsAlone == phase = "submitting" => pressed

\* What the editor says of a step's rules is what respondents see: a rule it
\* calls impossible or contradictory never shows the step, and the window it
\* names is exactly where the step shows.
StaticChecksTrue ==
    LET visible == VisibleSteps(form, answers) IN
    \A n \in Positions(form) :
       LET step == form.steps[n]
           score == Total(form, answers, {m \in visible : m < n})
       IN /\ \A s \in step.show : ConditionNeverHolds(s) => n \notin visible
          /\ \A s \in step.show, h \in step.hide :
                /\ ConditionsContradict(s, h) => n \notin visible
                /\ \A w \in ConditionsNarrow(s, h) :
                      ~IsHidden(step) /\ ~step.personalOnly =>
                      LET v == AnswerTo(answers, s.field)
                      IN n \in visible
                           <=> \E x \in Numbers(s, v, score) : w.lo <= x /\ x <= w.hi

=============================================================================
