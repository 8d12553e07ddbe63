SPECIFICATION DraftingSpec
CONSTANTS
    DraftIds = {d1, d2}
    Views = {v1, v2}
    IntentIds = {o1, o2}
    FileIds = {f1, f2}
    Paths = {p1, p2}
    Images = {i1}
    None = None
    First = f1
    Home = p1
    MaxTexts = 3
    MaxMishaps = 2
SYMMETRY Symmetry
INVARIANTS
    SavedMeansStored
    IntentsTellTheTruth
PROPERTIES
    TextsSurvive
    NoSilentOverwrite
CHECK_DEADLOCK FALSE
