---------------------------- MODULE MCWorkspace ----------------------------
(* TLC instances of Workspace. *)
EXTENDS Workspace, TLC

Symmetry == Permutations(Commands) \cup Permutations(Minted)
==============================================================================
