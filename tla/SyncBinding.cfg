SPECIFICATION Spec
CONSTANTS
    Paths = {p, q}
    Optional = {q}
    Contents = {u, v}
    Absent = Absent
    Remotes = {r1, r2}
    Here = Here
    PageSize = 1
    None = None
    MaxBindings = 2
    MaxEvents = 3
SYMMETRY Symmetry
INVARIANTS CursorAndHeads LocalWorkKept
CHECK_DEADLOCK FALSE
