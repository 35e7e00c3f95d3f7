SPECIFICATION Spec
CONSTANTS
    Formats = {"QNX6", "ReFS", "F2FS", "APFS", "Btrfs", "LUKS2", "GPT", "LVM", "UBI", "UBItable", "UBIFS"}
    Untorn = {"F2FS"}
    MaxStates = 6
    MaxCrashes = 3
INVARIANT
    IsAlwaysFound
PROPERTY
    IsAtomic
CHECK_DEADLOCK FALSE
