SPECIFICATION FairSpec
CONSTANTS
    Handles = {h1}
    Plain = {}
    Immediate = {i1}
    Deferred = {}
    Events = {}
    Watches = {}
    Capacity = 1
    None = None
    Awaited = FALSE
    MayPanic = FALSE
PROPERTIES OpsNeverHang
CHECK_DEADLOCK FALSE
