-------------------------- MODULE MCCredentialVault --------------------------
EXTENDS CredentialVault, TLC

Symmetry == Permutations(Hosts) \cup Permutations(Ids) \cup Permutations(Values)
=============================================================================
