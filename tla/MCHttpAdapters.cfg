CONSTANTS
    Subjects        <- MCSubjects
    IdOrder         <- MCIdOrder
    Assessments     <- MCAssessments
    NoItem          = NoItem
    Omitted         = Omitted
    Sets            <- MCSets
    Holds           <- MCHolds
    Generated       <- MCGenerated
    Proposed        <- MCProposed
    Recommendations = {"REC-A", "REC-B"}
    Maneuvers       = {"climb", "hold"}
    NoManeuver      = NoManeuver
    NoSet           = NoSet
    FlawSets        <- MCFlawSets
    Submissions     <- MCSubmissions
    MaxTime         = 2
    MaxRevision     = 4
SPECIFICATION Spec
INVARIANTS
    ListTellsWhatCanBeAcknowledged
    RetryAcknowledgesNothingNew
    LogTellsWhatIsOpen
    SettledStaysSettled
PROPERTIES
    QueueStepsOnly
    DecisionStepsOnly
