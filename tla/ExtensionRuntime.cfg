SPECIFICATION InstanceSpec
CONSTANTS
    Contracts = {c1}
    Nil = Nil
    QueuedCommands = 1
    QueuedFrames = 1
    MaxPending = 1
    MaxTickets = 2
    MaxFrames = 1
    MaxIncidents = 2
INVARIANTS
    LeasesMeanUnlocked
    CallsWereReviewed
PROPERTIES
    RevokedProcessEnds
    LockCompletes
CHECK_DEADLOCK FALSE
