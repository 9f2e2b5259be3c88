----------------------------- MODULE MCProjects -----------------------------
(* TLC instances of Projects. *)
EXTENDS Projects, TLC

CONSTANTS a, b, c, d, plain, repo, fork, twin

\* Folder d is inside folder a; a and c have the same name.
MCParent == [p \in Paths |-> IF p = d THEN a ELSE p]
MCBase == [p \in Paths |-> IF p \in {a, c} THEN "work" ELSE "other"]

\* Folder c is free, and so is d unless there is a third checkout.
MCStart == [r \in Repos |-> CASE r = plain -> a [] r = repo -> b
                              [] OTHER -> d]

\* The fork shares its first commit with the repository, and not its origin.
MCCommit == [r \in {NoRepo, plain, repo, fork, twin} |->
               IF r \in {repo, fork, twin} THEN "root" ELSE ""]
MCOrigin == [r \in {NoRepo, plain, repo, fork, twin} |->
               CASE r \in {repo, twin} -> "upstream" [] r = fork -> "fork" [] OTHER -> ""]

CommandSymmetry == Permutations(Commands)
==============================================================================
