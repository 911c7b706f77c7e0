\* Queries while updates store comics and the index is rebuilt; no drops.
SPECIFICATION QuerySpec
CONSTANTS
    MaxID = 3
    DropCalls = {}
    MayLose = FALSE
    Words <- MCWords
    WordsOf <- MCWordsOf
    ChanCap = 1
    SearchFaults = {}
    MaxBacklog = 1
    MaxRestarts = 0
    MaxLimit = 2
INVARIANTS
    QueryTypeOK
    Exact
    ScoresBetween
    NoFewer
CHECK_DEADLOCK FALSE
