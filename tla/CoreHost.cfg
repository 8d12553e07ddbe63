SPECIFICATION Spec
CONSTANTS
    Vaults = {a, b}
    Requests = {r1, r2, s}
    Streams = {s}
    Puts = {put}
    Deletes = {del}
    Preferences = {layout}
    Malformed = {}
    Absent = Absent
    None = None
    RequestLimit = 1
    RestartLimit = 1
    MaxStarts = 2
    MaxEvents = 2
SYMMETRY Symmetry
INVARIANTS StaysInVault ExactlyOnce CancelledNeverRuns OneCore
CHECK_DEADLOCK FALSE
