------------------------------ MODULE MCIntake ------------------------------
(***************************************************************************)
(* Small instances of Intake for TLC: one webhook on both phases, or that   *)
(* one and a second on completion only.                                     *)
(***************************************************************************)
EXTENDS Intake, TLC

Symmetry == Permutations(Requests)

OneWebhook == {1}
TwoWebhooks == {1, 2}
Webhook == [d \in Dests |-> "webhook"]
BothPhasesFirst ==
    [d \in Dests |-> IF d = 1 THEN {"partial", "complete"} ELSE {"complete"}]
=============================================================================
