SPECIFICATION Spec
CONSTANTS
    WordBits = 4
    Programs <- MCPrograms
    Arguments = {a1, a2}
    NoArgument = None
    MaxCells = 3
    MaxSends = 2
INVARIANTS RefusedIffIllegal CountedByName SampleIsLatest SpawnIsWhole
CHECK_DEADLOCK FALSE
