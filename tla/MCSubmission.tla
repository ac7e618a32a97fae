---------------------------- MODULE MCSubmission ----------------------------
(***************************************************************************)
(* Small instances of Submission for TLC.                                   *)
(***************************************************************************)
EXTENDS SubmissionRefinement, TLC

\* Requests differ only in what Arrive chooses for them.
Symmetry == Permutations(Requests)
=============================================================================
