---------------------------- MODULE MCSyncService ----------------------------
(* TLC instances of SyncService. *)
EXTENDS SyncService, TLC

CONSTANTS a, b, pusha, pulla, pushb, pullb

\* One pushing and one pulling process on each replica.
MCHome ==
  [p \in Procs |-> IF p \in {pusha, pulla} THEN a ELSE b]

\* Two pushing processes and a pulling one on replica a.
MCOverlap ==
  [p \in Procs |-> IF p = pullb THEN b ELSE a]

EventSymmetry == Permutations(Events)
==============================================================================
