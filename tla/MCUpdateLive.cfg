SPECIFICATION FairSpec
CONSTANTS
    MaxID = 2
    UpdateCalls = {u1, u2}
    DropCalls = {}
    StatsCalls = {s1}
    Concurrency = 2
    Missing = {1}
    TooLong = {}
    Faults = {"db", "xkcd", "words", "nats"}
    MaxCrashes = 1
PROPERTIES
    EveryUpdateReturns
    LatchReleased
    UpdateAdvances
CHECK_DEADLOCK FALSE
