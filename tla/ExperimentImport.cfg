CONSTANTS
    i1 = i1
    i2 = i2
    pa = pa
    pb = pb
    Nil = Nil
    Imports = {i1, i2}
    Paths = {pa, pb}
    Rank <- Order
    FreshPaths = {pb}
    FaultPaths = {pa}
    MaxIncidents = 2
SPECIFICATION ImportingSpec
INVARIANTS
    RecoverySucceeds
    OutcomeTold
PROPERTIES
    ReplacesOnlyReviewed
CHECK_DEADLOCK FALSE
