SPECIFICATION Spec
CONSTANTS
    Names = {"a", "b"}
    FilePages = 2
    MaxNodes = 6
    MaxLives = 2
INVARIANTS
    ReadsAsHeld
    WholeIsGivenBack
    OneFileEach
CHECK_DEADLOCK FALSE
