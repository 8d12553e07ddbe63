------------------------ MODULE MCWorkspaceJournal --------------------------
(* TLC instances of WorkspaceJournal. *)
EXTENDS WorkspaceJournal, TLC

Symmetric == Permutations(Ops) \cup Permutations(FileIds)
             \cup Permutations(Paths) \cup Permutations(Contents)
=============================================================================
