SPECIFICATION EitherSpec
CONSTANTS
    Kinds = {"VHD", "VHDX", "VMDK", "QCOW", "QCOWX"}
    Sectors = {s1, s2}
    MaxBlocks = 2
    MaxDisks = 3
    MaxWrites = 2
    MaxFiles = 3
    MaxFaults = 1
    MaxParents = 2
    Blocks = {1, 2}
    LogSectors = 4
    MaxPlaces = 2
    MaxEntries = 4
    MaxSessions = 2
SYMMETRY Alike
INVARIANTS
    ReadsAsTheGuestLeft
    WhatIsThereIsRead
    RefusedOnlyBeforeFirstEntry
PROPERTY
    IsAtomic
CHECK_DEADLOCK FALSE
