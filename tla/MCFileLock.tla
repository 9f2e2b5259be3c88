---------------------------- MODULE MCFileLock ----------------------------
(* TLC instances of FileLock. *)
EXTENDS FileLock, TLC

ProcSymmetry == Permutations(Procs)
===========================================================================
