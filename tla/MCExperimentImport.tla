------------------------- MODULE MCExperimentImport -------------------------
(* Two imports of two outputs; the first destination in the plan's order is *)
(* `pa'.                                                                    *)
EXTENDS ExperimentImport, TLC

CONSTANTS i1, i2, pa, pb

Order == (pa :> 1) @@ (pb :> 2)
=============================================================================
