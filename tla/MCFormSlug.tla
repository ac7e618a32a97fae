----------------------------- MODULE MCFormSlug -----------------------------
(***************************************************************************)
(* Small instances of FormSlug for TLC.                                     *)
(***************************************************************************)
EXTENDS FormSlug, TLC

Symmetry == Permutations(Forms) \cup Permutations(Slugs) \cup Permutations(Calls)
=============================================================================
