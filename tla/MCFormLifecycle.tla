-------------------------- MODULE MCFormLifecycle --------------------------
(* Instances of FormLifecycle for TLC. *)
EXTENDS FormLifecycle, TLC

Symmetry == Permutations(Clients) \cup Permutations(Edits)
            \cup Permutations(Stamps) \cup Permutations(Dests)

\* A behaviour in which something slipped promises nothing more.
NoSlip == slips = {}
OnlyAdopted == slips \subseteq {"adopted"}

=============================================================================
