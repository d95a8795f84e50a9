SPECIFICATION FairSpec
CONSTANTS
    Cancellers = {c1,c2}
    Futures = {f1,f2,f3}
INVARIANTS NoLostCancel NothingRegistered
PROPERTIES CancelWakes
CHECK_DEADLOCK FALSE
