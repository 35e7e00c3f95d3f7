SPECIFICATION Spec
CONSTANTS
    Arrays <- MCArrays
    Devices = {1, 2, 3, 4}
    MaxEvents <- MCMaxEvents
    MaxWrites = 1
    MaxFaults = 1
VIEW MCView
INVARIANTS
    TypeOK
    NothingStale
    NothingMadeUp
    AllThereIsIsRead
    IncompleteIsRefused
CHECK_DEADLOCK FALSE
