SPECIFICATION Spec
CONSTANTS
    None = None
    s1 = s1
    s2 = s2
    a1 = a1
    a2 = a2
    b1 = b1
    Slots = {s1, s2}
    Packages = {a1, a2, b1}
    Roots = {a2}
    SlotOf <- MCSlotOf
    Version <- MCVersion
    Needs <- MCNeeds
    Accepts <- MCAccepts
    Programs = {a1, a2}
    Ops = {o1, o2}
    Ids = {i1, i2}
    Shipped = {a1, b1}
    Installed = {a1, b1}
    MaxEvents = 1
SYMMETRY Symmetry
INVARIANTS
    ExecutingIsInstalled
    PointersAreBacked
PROPERTIES
    AtomicGroups
CHECK_DEADLOCK FALSE
