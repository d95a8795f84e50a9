SPECIFICATION Spec
CONSTANTS
    c1 = c1
    c2 = c2
    c3 = c3
    N = 2
    Commands = {c1,c2,c3}
    IndexOf <- MCIndexOf
    Readers = {r1}
    Loop = Loop
    Capacity = 2
    CommandInterval = 2
    TimeInterval = 1
    MaxTime = 3
SYMMETRY MCSymmetry
INVARIANTS DepthBounded RingExact SamplesPaced
CHECK_DEADLOCK FALSE
