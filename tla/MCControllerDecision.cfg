CONSTANTS
    Sets            <- MCSets
    Holds           <- MCHolds
    Generated       <- MCGenerated
    Proposed        <- MCProposed
    Recommendations = {"REC-A", "REC-B", "REC-C", "REC-D"}
    Maneuvers       = {"climb", "hold"}
    NoManeuver      = NoManeuver
    NoSet           = NoSet
    MaxTime         = 4
SPECIFICATION Spec
INVARIANTS
    OneFinalDecision
    LatestEntryIsNewest
