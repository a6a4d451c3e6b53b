CONSTANTS
    Aircraft   <- MCAircraft
    Scheduled  <- MCScheduled
    Events     <- MCEvents
    Schedulers <- MCSchedulers
    Payloads   = {climb, descend}
    Interval   = 2
    StepSizes  = {1, 3}
    MaxTick    = 5
    MaxResets  = 2
SPECIFICATION Spec
INVARIANTS
    EventsOncePerRunInOrder
    OneRunPerSlot
    AnchorsUnambiguous
PROPERTIES
    PollCatchesUp
    ResetIsImmediate
