------------------------------ MODULE MCInstall ------------------------------
(* TLC instances of Install. *)
EXTENDS Install, TLC

MCMachines ==
  {{"claude", "codex", "hermes"}, {"gemini", "opencode", "pi", "cursor"}}

InstallSymmetry == Permutations(Commands) \cup Permutations(Projects)
==============================================================================
