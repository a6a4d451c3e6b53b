SPECIFICATION Spec
SYMMETRY TabSymmetry
CONSTANTS
    rec = rec
    safe = safe
    unsafe = unsafe
    raising = raising
    NoManeuver = NoManeuver
    Malformed = Malformed
    Tabs = {a, b}
    Maneuvers <- TwoManeuvers
    Recommended = rec
    SafeManeuvers <- OnlyRecommended
    Raising = {}
    Cues <- DemoCues
    Duration = 300
    Moments <- DemoMoments
    ManifestLoads = FALSE
    MaxRuns = 1
    MaxAbandoned = 0
    MaxReloads = 1
PROPERTIES
    ViewNeverGoesBack
    ActsOnWhatItShows
