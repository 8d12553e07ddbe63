-------------------------- MODULE MCExperimentRun --------------------------
EXTENDS ExperimentRun, TLC

Symmetry == Permutations(Ops)
=============================================================================
