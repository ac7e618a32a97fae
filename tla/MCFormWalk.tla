------------------------------ MODULE MCFormWalk ------------------------------
(***************************************************************************)
(* Small forms of three steps for FormWalk, in both layouts.                *)
(***************************************************************************)
EXTENDS FormWalk

On(field, op, vals, val, min, max) ==
    [field |-> field, op |-> op, values |-> vals, value |-> val, min |-> min, max |-> max]
Answered(field, t) == On(field, "in", {t}, {}, {}, {})
Above(field, t) == On(field, "gt", {}, {t}, {}, {})
Within(field, a, b) == On(field, "between", {}, {}, {a}, {b})

To(t, target) == [any |-> FALSE, values |-> {t}, target |-> target]
Anything(target) == [any |-> TRUE, values |-> {}, target |-> target]

\* A required question that takes the answers 1 and 2, worth as many points.
Plain(kind) ==
    [kind |-> kind, hidden |-> FALSE, required |-> TRUE, terminal |-> FALSE,
     show |-> {}, hide |-> {}, personalOnly |-> FALSE, goto |-> <<>>,
     screenGroup |-> {}, scores |-> TRUE,
     accepts |-> IF kind \in {"text", "email", "checkbox", "scheduler"} THEN {1} ELSE {1, 2},
     points |-> [t \in Tokens |-> t]]

Group(S, steps) == [n \in DOMAIN steps |->
    IF n \in S THEN [steps[n] EXCEPT !.screenGroup = {1}] ELSE steps[n]]

\* The logic of a form: a change of its three plain steps.
Shape(kinds) == [n \in DOMAIN kinds |-> Plain(kinds[n])]

Jumps == {<<>>, <<To(1, 3)>>, <<To(1, 0)>>, <<To(1, 1), Anything(3)>>, <<To(2, 4), To(2, 3)>>}

Shows ==
    {{}, {Answered(1, 1)}, {Above(1, 1)}, {Above(ScoreField, 1)}, {Within(ScoreField, 1, 2)},
     {Within(1, 2, 1)}}
Hides == {{}, {Above(1, 1)}, {Above(ScoreField, 1)}, {Above(ScoreField, 2)}, {Answered(1, 2)}}

Kinded ==
    {Shape(k) : k \in {<<"choice", "text", "choice">>, <<"slider", "choice", "text">>,
                       <<"multi", "email", "choice">>, <<"choice", "scheduler", "text">>}}

\* Jumps out of and into screens.
Jumping ==
    {Group(g, [s EXCEPT ![1].goto = j, ![2].terminal = t]) :
        s \in Kinded, j \in Jumps, g \in {{}, {1, 2}, {2, 3}}, t \in BOOLEAN}

\* Rules on the last step, on a step of a screen, one that reads below, one on
\* the step a jump leads to and one about a step that is gone.
Ruled ==
    {Group(g, [Shape(<<"slider", "multi", "text">>) EXCEPT ![3].show = s, ![3].hide = h]) :
        s \in Shows, h \in Hides, g \in {{}, {2, 3}}}
    \cup
    {[Shape(<<"choice", "text", "choice">>) EXCEPT ![n].show = {Answered(4 - n, 1)},
                                                  ![2].hidden = d] :
        n \in {1, 3}, d \in BOOLEAN}
    \cup
    {[Shape(<<"choice", "choice", "text">>) EXCEPT ![1].goto = <<To(1, 3)>>,
                                                  ![3].show = {Answered(m, 1)}] :
        m \in {1, 9}}
    \cup
    {[Shape(<<"email", "text", "checkbox">>) EXCEPT ![2].personalOnly = TRUE,
                                                   ![3].terminal = TRUE, ![3].required = r] :
        r \in BOOLEAN}

\* Interstitials.
Revealing ==
    {Group({1, 3}, [Shape(<<"choice", k, "text">>) EXCEPT ![1].goto = j, ![3].hidden = d,
                                                         ![3].required = FALSE]) :
        k \in {"reveal", "message", "scheduler"}, j \in {<<>>, <<To(1, 0)>>}, d \in BOOLEAN}
    \cup
    {[Shape(<<"text", k, "reveal">>) EXCEPT ![2].required = r, ![2].terminal = t] :
        k \in {"choice", "scheduler", "message"}, r \in BOOLEAN, t \in BOOLEAN}

MCForms ==
    {[layout |-> "slides", cover |-> FALSE, scoring |-> TRUE, reveal |-> 0, steps |-> s] :
        s \in Jumping \cup Ruled \cup Revealing}
    \cup
    {[layout |-> "vertical", cover |-> FALSE, scoring |-> p, reveal |-> 0, steps |-> s] :
        p \in BOOLEAN, s \in Ruled \cup Revealing}
    \cup
    {[layout |-> l, cover |-> TRUE, scoring |-> TRUE, reveal |-> r, steps |-> s] :
        l \in {"slides", "vertical"}, r \in {2, 3},
        s \in {t \in Jumping : t[1].kind = "choice" /\ t[1].goto \in {<<>>, <<To(1, 3)>>}}}

=============================================================================
