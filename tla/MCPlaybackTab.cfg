SPECIFICATION FairSpec
CONSTANTS
    rec = rec
    safe = safe
    unsafe = unsafe
    raising = raising
    NoManeuver = NoManeuver
    Malformed = Malformed
    Tabs = {a}
    Maneuvers <- AllManeuvers
    Recommended = rec
    SafeManeuvers <- OnlySafe
    Raising <- OnlyRaising
    Cues <- DemoCues
    Duration = 300
    Moments <- DemoMoments
    ManifestLoads = TRUE
    MaxRuns = 1
    MaxAbandoned = 1
    MaxReloads = 0
INVARIANTS
    PlaybackHeldBack
    CuesConsumedExactly
PROPERTIES
    Unlocks
    ReadsItsOwnWrites
