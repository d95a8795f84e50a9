SPECIFICATION FairSpec
CONSTANTS
    Ops = {o1,o2}
    NoOp = NoOp
    Methods = {m1}
    Keys = {k1,k2}
    NoDeadline = NoDeadline
    MaxTime = 1
    MayPanic = FALSE
    MayClaimInDirect = FALSE
PROPERTIES DeadlineConcludes
CHECK_DEADLOCK FALSE
