SPECIFICATION Spec
CONSTANTS
    Formats = {"XFS", "through", "back"}
    Stripes = {"s1", "s2"}
    XfsRing = 18
    MdRing = 12
    Spare = 6
    MaxRecords = 6
    MaxFlying = 2
    MaxCrashes = 1
INVARIANTS
    QuietOwesNothing
    StoppedIsQuiet
CHECK_DEADLOCK FALSE
