\* Each service, with up to three failures, kills and signals.
SPECIFICATION FairSpec
CONSTANTS
    Services = {"search", "update", "words"}
    Unary = {"call"}
    Streams = {"stream"}
    MaxDisturbances = 3
INVARIANTS
    TypeOK
    CallsAreServed
PROPERTIES
    CutOnlyForCause
    SignalStops
    EventuallyServes
CHECK_DEADLOCK FALSE
