------------------------------ MODULE MCWatcher ------------------------------
(* TLC instances of Watcher. *)
EXTENDS Watcher, TLC

WatcherSymmetry == Permutations(Watchers)
==============================================================================
