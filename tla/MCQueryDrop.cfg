\* Queries while updates store comics and the index is rebuilt; one drop.
SPECIFICATION QuerySpec
CONSTANTS
    MaxID = 2
    DropCalls = {d1}
    MayLose = FALSE
    Words <- MCWords
    WordsOf <- MCWordsOf
    ChanCap = 1
    SearchFaults = {"db"}
    MaxBacklog = 0
    MaxRestarts = 1
    MaxLimit = 2
INVARIANTS
    FailsOnlyIfTruncated
CHECK_DEADLOCK FALSE
