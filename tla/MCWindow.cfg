SPECIFICATION FairSpec
CONSTANTS
    Streams = {"out", "err"}
    Parsed = {"err"}
    Images = {"image"}
    Nothing = Nothing
    MaxRuns = 2
    MaxLines <- MCMaxLines
    PipeCap = 1
INVARIANTS
    WindowTypeOK
    NothingStale
    InOrder
    CompleteWhenFinished
    OneLoad
PROPERTIES
    RunEnds
    NeverStuckOnAPipe
    LoadEnds
CHECK_DEADLOCK FALSE
