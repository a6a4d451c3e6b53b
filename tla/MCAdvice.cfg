SPECIFICATION Spec
CONSTANTS
    None = None
    NoHint = NoHint
    Horizon = 4
    HorizontalThreshold = 2
    VerticalThreshold = 2
    CriticalTcpa = 1
    HighTcpa = 3
    BaselineId = 5
    HeadingChange = 90
    AltitudeChange = 2
    SpeedChange = 1
    EntryDelay = 1
    CommandExecution = 2
    MinimumAltitude = 1
    MaxSpeedChange = 1
    MaxRecommendations = 3
    PredictionHorizons = {2}
    Aircraft <- ThreeAircraft
    Recorded = {3}
    Performance <- MixedProfiles
    Templates <- AllSlots
    Traffics <- Crossings
    Hints <- AnyHint
    Events <- NoEvents
    Deviations = {}
    MaxClock = 5
    MaxDeviations = 0
    MaxDelay = 2
INVARIANTS AdviceSound AdviceCheapest OwnEvidenceAccepted LateAdviceKeeps
PROPERTIES ConflictsAnswered
CHECK_DEADLOCK FALSE
