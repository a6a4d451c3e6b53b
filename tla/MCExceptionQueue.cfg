CONSTANTS
    Subjects    <- MCSubjects
    IdOrder     <- MCIdOrder
    Assessments <- MCAssessments
    NoItem      = NoItem
    Omitted     = Omitted
    MaxTime     = 3
    MaxRevision = 5
SPECIFICATION Spec
INVARIANTS
    SeverityFirst
PROPERTIES
    ActiveUntilCleared
    NoInheritedAcknowledgement
