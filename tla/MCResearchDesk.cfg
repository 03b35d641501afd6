\* Scripts and days run out at their bounds: the system may stop.
SPECIFICATION Spec
CHECK_DEADLOCK FALSE
CONSTANTS
    SealedDays = 9
    HoldoutNum = 1
    HoldoutDen = 3
    VolWindow = 1
    MaxDays = 11
    Restated = {2, 9}
    RegimeGrid <- MCRegimeGrid
    ShortGrid <- MCShortGrid
    OverlayGrid <- MCOverlayGrid
    SizingGrid <- MCSizingGrid
    SlicePad = 1
    TrainMin = 4
    TestWindow = 3
    WalkStep = 1
    MinOos = 1
    MaxJobs = 2
    MaxDeaths = 1
CONSTRAINT OneAtATime
INVARIANTS
    OneRowPerBar
    TrackRecordHonest
    HoldoutKept
    ArtifactsSound
    ReportCountsEveryTrial
PROPERTIES
    ChartNeverDrifts
