SPECIFICATION Spec
CONSTANTS
    Files = {f1, f2}
    RemoteBorn = {f2}
    Contents = {c1, c2}
    Absent = Absent
    PageSize = 1
    MaxEdits = 1
    MaxExternals = 1
    MaxOthers = 2
    MaxLosses = 1
    MaxCrashes = 1
    Choices = {"local", "remote", "copy"}
SYMMETRY SymmetricContents
INVARIANTS
    HeadsTrackLog
    BasesReviewed
    NoSelfConflict
PROPERTIES
    NeverOverwritesUnsynced
    DecisionsDone
