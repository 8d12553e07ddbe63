SPECIFICATION Spec
CONSTANTS
    Ops = {o1, o2}
    None = None
    MaxEvents = 2
    MaxApprovals = 2
INVARIANTS
    ExecutionIsApproved
    ResourcesAreOwed
PROPERTIES
    RunsSettle
CHECK_DEADLOCK FALSE
