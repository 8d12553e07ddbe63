SPECIFICATION Spec
CONSTANTS
    Ops = {o1, o2}
    FileIds = {f1, f2, f3}
    Paths = {p1, p2}
    Contents = {c1, c2}
    Absent = Absent
    NoPath = NoPath
    Retired = Retired
    NoId = NoId
    NoOp = NoOp
    MaxCrashes = 1
    MaxFaults = 1
    MaxEdits = 1
SYMMETRY Symmetric
INVARIANTS
    OutboxMatchesReceipts
    CatalogueMatchesDisk
    DeletedContentKept
PROPERTY ImplementsLedger

CHECK_DEADLOCK FALSE
