SPECIFICATION FairSpec
CONSTANTS
    N = 2
    Subs = {s1, s2}
    Handles = {h1}
    Capacity = 2
    MaxTurns = 2
    MaxEvents = 3
    None = None
INVARIANTS ReceivesAll TurnsWhole StopsUnobserved
PROPERTIES OverflowForCause SubscribersEnd
CHECK_DEADLOCK FALSE
