\* One update, and an XKCD client whose calls may fail for other reasons than a
\* 404; no cancellation is needed for what this run shows.
SPECIFICATION Spec
CONSTANTS
    MaxID = 2
    UpdateCalls = {u1}
    DropCalls = {}
    StatsCalls = {}
    Concurrency = 2
    Missing = {1}
    TooLong = {}
    Faults = {"xkcd"}
    MaxCrashes = 0
INVARIANTS
    RowsAreGenuine
CHECK_DEADLOCK FALSE
