CONSTANTS
    a = a
    b = b
    o1 = o1
    o2 = o2
    o3 = o3
    c1 = c1
    Scopes = {a, b}
    Ops = {o1, o2, o3}
    NoOp = NoOp
    ChoiceIds = {c1}
    MaxWaiting = 1
    MaxEvents = 5
SPECIFICATION Spec
SYMMETRY Symmetry
INVARIANTS
    ActiveIsLatest
    DisconnectedIsErased
PROPERTIES
    NewestRequestWins
CHECK_DEADLOCK FALSE
