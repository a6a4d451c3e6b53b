SPECIFICATION Spec
CONSTANTS
    rec = rec
    safe = safe
    unsafe = unsafe
    raising = raising
    NoManeuver = NoManeuver
    Malformed = Malformed
    Tabs = {a}
    Maneuvers <- AllManeuvers
    Recommended = rec
    SafeManeuvers <- OnlySafe
    Raising <- OnlyRaising
    Cues <- DemoCues
    Duration = 300
    Moments <- DemoMoments
    ManifestLoads = TRUE
    MaxRuns = 1
    MaxAbandoned = 0
    MaxReloads = 0
PROPERTIES
    CueCommandsGiven
