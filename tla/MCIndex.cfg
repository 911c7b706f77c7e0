\* A drop, everything that may fail, and one restart.
SPECIFICATION FairSpec
CONSTANTS
    MaxID = 2
    DropCalls = {d1}
    MayLose = TRUE
    Words <- MCWords
    WordsOf <- MCWordsOf
    ChanCap = 1
    SearchFaults = {"db", "nats"}
    MaxBacklog = 1
    MaxRestarts = 1
INVARIANTS
    TypeOK
    StaleMeansPending
    GhostMeansPending
PROPERTIES
    IndexNeverRegresses
    CatchesUpUnlessRaced
CHECK_DEADLOCK FALSE
