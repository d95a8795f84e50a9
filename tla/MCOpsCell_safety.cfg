SPECIFICATION Spec
CONSTANTS
    Ops = {o1,o2,o3}
    NoOp = NoOp
    Methods = {m1,m2}
    Keys = {k1}
    NoDeadline = NoDeadline
    MaxTime = 1
    MayPanic = TRUE
    MayClaimInDirect = TRUE
INVARIANTS OneResolver IndexConsistent NoLostWakeup ClosedIsEmpty
PROPERTIES ClaimWins LostForCause Lifecycle
SYMMETRY Symmetry
CHECK_DEADLOCK FALSE
