SPECIFICATION FairSpec
CONSTANTS
    Files = {f1, f2}
    RemoteBorn = {f2}
    Contents = {c1, c2}
    Absent = Absent
    PageSize = 2
    MaxEdits = 2
    MaxExternals = 0
    MaxOthers = 2
    MaxLosses = 0
    MaxCrashes = 0
    Choices = {"local", "remote", "copy"}
INVARIANT EditsAccountedFor
PROPERTY Converges
