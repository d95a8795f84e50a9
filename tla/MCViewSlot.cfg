SPECIFICATION FairSpec
CONSTANTS
    Values = {a,b}
    Initial = a
    Watchers = {w1,w2}
    Waiters = {q1}
    MaxStores = 2
INVARIANTS TypeOK SleepersAreCurrent SleepersWait NeverStale
PROPERTIES WatchersCatchUp CancelledWaitsEnd
CHECK_DEADLOCK FALSE
