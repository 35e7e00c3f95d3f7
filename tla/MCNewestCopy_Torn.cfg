SPECIFICATION Spec
CONSTANTS
    Formats = {"F2FS"}
    Untorn = {}
    MaxStates = 4
    MaxCrashes = 2
INVARIANT
    PackWrittenWhole
CHECK_DEADLOCK FALSE
