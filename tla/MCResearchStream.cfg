\* A task ends: the system may stop.
SPECIFICATION Spec
CHECK_DEADLOCK FALSE
CONSTANTS
    VolWindow = 2
    MinRunLength = 2
    TargetVol = 4
    MaxLeverage = 2
    KellyFraction = 2
    KellyCap = 2
    CostRate = 1
    Scale = 4
    HazardLambda = 4
    MaxRunLength = 3
    MinOos = 1
    NBlocks = 4
    NBootstrap = 2
    ThresholdNum = 1464
    ThresholdDen = 1000
    MaxTrials = 3
    MaxBars = 6
    MaxLength = 10
    Steps <- MCSteps
    LabelSpans = {0, 1, 3}
    Models <- MCModels
    Specs <- MCSpecs
    WalkPlans <- MCWalkPlans
    Columns <- MCColumns
    Resamples <- MCResamples
INVARIANTS
    InferenceExact
    StrategiesAgree
    OutOfSample
    SelectionTestsSound
    PositionsFinal
