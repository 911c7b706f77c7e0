\* From the boot of the service, without drops or failures.
SPECIFICATION FairSpec
CONSTANTS
    MaxID = 2
    DropCalls = {}
    MayLose = FALSE
    Words <- MCWords
    WordsOf <- MCWordsOf
    ChanCap = 1
    SearchFaults = {}
    MaxBacklog = 2
    MaxRestarts = 0
PROPERTIES
    CatchesUp
CHECK_DEADLOCK FALSE
