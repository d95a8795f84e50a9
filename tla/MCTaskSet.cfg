SPECIFICATION FairSpec
CONSTANTS
    Sets = {s1,s2}
    Tasks = {t1,t2,t3}
    Waiters = {w1,w2}
    NoSet = NoSet
INVARIANTS DoneMeansEnded PanicsPropagate
PROPERTIES WaitsEnd
CHECK_DEADLOCK FALSE
