------------------------- MODULE MCExtensionRuntime -------------------------
EXTENDS ExtensionRuntime, TLC

Symmetry == Permutations(Contracts)
=============================================================================
