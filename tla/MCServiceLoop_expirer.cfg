SPECIFICATION FairSpec
CONSTANTS
    Handles = {h1}
    Plain = {}
    Immediate = {}
    Deferred = {d1}
    Events = {}
    Watches = {}
    Capacity = 1
    None = None
    Awaited = TRUE
    MayPanic = FALSE
PROPERTIES StopCompletes
CHECK_DEADLOCK FALSE
