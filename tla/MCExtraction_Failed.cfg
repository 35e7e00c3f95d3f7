SPECIFICATION Spec
CONSTANTS
    BS = 2
    Blocks = {0, 1, 2, 3, 4, 5, 6}
    Hole = Hole
    a = a
    b = b
    c = c
    s = s
    Nodes = {a, b, c, s}
    Layout <- MCLayout
    Listing <- MCListing
    Kinds = {"qnx6", "f2fs"}
    CacheMax = 4
    MaxBad = 2
INVARIANT FailedAreLeftOut
CHECK_DEADLOCK FALSE
