SPECIFICATION ExportSpec
CONSTANTS
    Geometries <- MCGeometries
    Page = 1
    Chunk = 2
    Ends = {16, 6}
    FreeRuns <- MCFreeRuns
INVARIANTS
    NoByteTwice
    PiecesAreStraight
    StripesAreWhole
    CandidatesSuffice
    EnoughCopies
    ReadWhereMapped
    GroupIsAccountedFor
CHECK_DEADLOCK FALSE
