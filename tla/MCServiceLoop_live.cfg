SPECIFICATION FairSpec
CONSTANTS
    Handles = {h1}
    Plain = {c1}
    Immediate = {i1}
    Deferred = {}
    Events = {e1}
    Watches = {}
    Capacity = 1
    None = None
    Awaited = FALSE
    MayPanic = TRUE
PROPERTIES DeliveredIsExecuted CancelStops UnreachableStops
CHECK_DEADLOCK FALSE
