SPECIFICATION Spec
CONSTANTS
    Handles = {h1,h2}
    Plain = {}
    Immediate = {i1}
    Deferred = {d1,d2}
    Events = {e1}
    Watches = {}
    Capacity = 2
    None = None
    Awaited = FALSE
    MayPanic = TRUE
INVARIANTS StopsForCause ConcludedShown OpsAccounted DepthConserved NoLateInsert
SYMMETRY Symmetry
CHECK_DEADLOCK FALSE
