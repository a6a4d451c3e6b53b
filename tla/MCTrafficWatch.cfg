SPECIFICATION Spec
CONSTANTS
    None = None
    NoHint = NoHint
    Horizon = 6
    HorizontalThreshold = 3
    VerticalThreshold = 2
    CriticalTcpa = 1
    HighTcpa = 3
    BaselineId = 5
    HeadingChange = 90
    AltitudeChange = 2
    SpeedChange = 1
    EntryDelay = 1
    CommandExecution = 2
    MinimumAltitude = 1
    MaxSpeedChange = 1
    MaxRecommendations = 3
    PredictionHorizons = {1, 3}
    Aircraft <- TwoAircraft
    Recorded = {2}
    Performance <- SameProfile
    Templates <- OneSlot
    Traffics <- Encounters
    Hints <- NoRequests
    Events <- TwoEvents
    Deviations <- Turns
    MaxClock = 4
    MaxDeviations = 1
    MaxDelay = 0
INVARIANTS TypeOK ClosestIsClosest NoSurpriseLoss PredictionsComeTrue
PROPERTIES RiskEscalates PriorityKept
CHECK_DEADLOCK FALSE
