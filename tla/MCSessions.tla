------------------------------ MODULE MCSessions ------------------------------
(* TLC instances of Sessions. *)
EXTENDS Sessions, TLC

SessionsSymmetry == Permutations(Procs) \cup Permutations(Agents) \cup Permutations(Tasks)
=============================================================================
