---------------------------- MODULE MCProjection ----------------------------
(* TLC instances of Projection. *)
EXTENDS Projection

\* a1 and a2 are clones of one project, b is another member of the workspace;
\* two sessions work side by side in a1.
MCHome == [s \in Stores |-> IF s = "b" THEN "Q" ELSE "P"]
MCAt == [x \in Sessions |-> "a1"]
Mix(commands, stores, runs, killed, drafts) ==
  [commands |-> commands, stores |-> stores, runs |-> runs, kills |-> killed,
   drafts |-> drafts]

Clones == {"a1", "a2"}
MCMixes ==
  {Mix({"CreateTask", "StartTask", "DoneTask", "CancelTask"}, Clones, 3, 0, <<>>),
   Mix({"CreateTask", "StartTask", "Handoff", "AppendItems", "Checkpoint"}, {"a1"}, 3, 0, <<>>),
   Mix({"RequestTask", "Accept", "Decline"}, {"a1", "b"}, 3, 1, <<>>),
   Mix({"RecordDecision", "SupersedeDecision"}, Clones, 3, 0, <<>>),
   Mix({"DetectContradictions"}, Clones, 2, 0, <<"a1", "a2">>),
   Mix({"Consolidate", "DetectContradictions", "ResolveConflict"}, {"a1"}, 3, 0, <<>>),
   Mix({"Consolidate", "RetractMemory"}, {"a1", "b"}, 2, 0, <<>>),
   Mix({"Consolidate", "RevertSession"}, Clones, 3, 0, <<>>),
   Mix({"Hook"}, {"a1"}, 3, 1, <<>>),
   Mix({"Hook", "Consolidate"}, {"a1"}, 3, 0, <<>>)}

Symmetry == Permutations(Commands) \cup Permutations(Sessions)
==============================================================================
