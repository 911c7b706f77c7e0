\* A booted service that loses nothing, with a Drop RPC: two goroutines handle the
\* two subjects.
SPECIFICATION BootedSpec
CONSTANTS
    MaxID = 2
    DropCalls = {d1}
    MayLose = FALSE
    Words <- MCWords
    WordsOf <- MCWordsOf
    ChanCap = 1
    SearchFaults = {}
    MaxBacklog = 2
    MaxRestarts = 0
PROPERTIES
    CatchesUp
CHECK_DEADLOCK FALSE
