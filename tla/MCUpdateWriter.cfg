\* Nothing that loses an event may fail, and the service does not crash: every
\* change of the table is announced.  A Stats call reads along.
SPECIFICATION Spec
CONSTANTS
    MaxID = 2
    UpdateCalls = {u1, u2}
    DropCalls = {d1}
    StatsCalls = {s1}
    Concurrency = 2
    Missing = {1}
    TooLong = {}
    Faults = {"xkcd", "words"}
    MaxCrashes = 0
SYMMETRY Symmetry
INVARIANTS
    StatsWithinTotal
PROPERTIES
    ImplementsWriter
CHECK_DEADLOCK FALSE
