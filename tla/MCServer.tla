------------------------------ MODULE MCServer ------------------------------
(* Model-checking instances of Server. *)
EXTENDS Server, TLC

Symmetry ==
  Permutations(Starts) \cup Permutations(Waits) \cup Permutations(Stoppers)

=============================================================================
