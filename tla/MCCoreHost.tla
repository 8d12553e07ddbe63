----------------------------- MODULE MCCoreHost -----------------------------
EXTENDS CoreHost, TLC

Symmetry == Permutations(Vaults) \cup Permutations(Requests \ Streams)
=============================================================================
