SPECIFICATION Spec
CONSTANTS
    SCALE = 1
    Snapshots <- MC_Snapshots
    Times <- MC_Times
    Updates <- MC_Updates
    MaxEvents = 4
CHECK_DEADLOCK FALSE
INVARIANTS
    LaddersSorted
    BooksAgree
PROPERTIES
    RepairsAreCounted
