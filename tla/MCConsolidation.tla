--------------------------- MODULE MCConsolidation ---------------------------
(* TLC instances of Consolidation. *)
EXTENDS Consolidation, TLC

RunSymmetry == Permutations(Runs) \cup Permutations(Observations)
==============================================================================
