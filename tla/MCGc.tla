-------------------------------- MODULE MCGc --------------------------------
(* TLC instances of Gc. *)
EXTENDS Gc, TLC

GcSymmetry == Permutations(Observations) \cup Permutations(Memories)
=============================================================================
