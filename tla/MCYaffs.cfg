SPECIFICATION Spec
CONSTANTS
    Blocks = 4
    BlockPages = 2
    FilePages = 2
    MaxSeq = 5
    MaxLives = 2
    MaxWrites = 2
INVARIANTS
    TypeOK
    ReadsAsHeld
    OneLifeEach
    WholeIsGivenBack
CHECK_DEADLOCK FALSE
