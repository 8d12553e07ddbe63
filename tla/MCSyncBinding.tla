--------------------------- MODULE MCSyncBinding ---------------------------
EXTENDS SyncBinding, TLC

Symmetry == Permutations(Contents) \cup Permutations(Remotes)
=============================================================================
