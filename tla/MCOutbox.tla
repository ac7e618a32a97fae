------------------------------ MODULE MCOutbox ------------------------------
(***************************************************************************)
(* Small instances of Outbox, and of its refinement, for TLC.               *)
(***************************************************************************)
EXTENDS OutboxRefinement, TLC

\* Workers are interchangeable, and so are rows.  Not used for liveness.
Symmetry == Permutations(Workers) \cup Permutations(Rows)

MCDelays == {0, 1}
=============================================================================
