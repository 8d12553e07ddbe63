--------------------------- MODULE MCMobileDrafts ---------------------------
EXTENDS MobileDrafts, TLC

Symmetry == Permutations(DraftIds) \cup Permutations(Views) \cup Permutations(IntentIds)
=============================================================================
