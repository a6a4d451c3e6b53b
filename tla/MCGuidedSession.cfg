CONSTANTS
    Aircraft          <- MCAircraft
    Scheduled         <- MCScheduled
    Events            <- MCEvents
    Interval          = 5
    Payloads          <- MCManeuvers
    Subjects          = {"CIV-A02/MIL-F01", "MIL-F01"}
    IdOrder           <- MCIdOrder
    Assessments       <- MCAssessments
    NoItem            = NoItem
    Omitted           = Omitted
    Sets              <- MCSets
    Recommendations   = {"CAND-A"}
    Holds             <- MCHolds
    Generated         <- MCGenerated
    Maneuvers         <- MCManeuvers
    Proposed          <- MCProposed
    NoManeuver        = NoManeuver
    NoSet             = NoSet
    Pairs             = {"CIV-A02/MIL-F01"}
    Pair              <- MCPair
    Target            = "MIL-F01"
    RecommendationSet = "REC-T75"
    Primary           = "CAND-A"
    Forecast          <- MCForecast
    Outcome           <- MCOutcome
    Verdict           <- MCVerdict
    MaxResets         = 4
    MaxRevision       = 0
    FacadeTimes       = {}
    CallersReset      = FALSE
SPECIFICATION FairSpec
INVARIANTS
    AtCheckpoint
PROPERTIES
    SessionSettles
