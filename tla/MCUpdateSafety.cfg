\* Two updates of two workers over three comics, a drop and a crash, with a
\* failing database and a failing NATS connection.
SPECIFICATION Spec
CONSTANTS
    MaxID = 3
    UpdateCalls = {u1, u2}
    DropCalls = {d1}
    StatsCalls = {}
    Concurrency = 2
    Missing = {1}
    TooLong = {2}
    Faults = {"db", "nats"}
    MaxCrashes = 1
SYMMETRY Symmetry
INVARIANTS
    TypeOK
    SingleFlight
    PublishAfterWorkers
    FetchOnlyAbsent
    RowsAreGenuine
    NothingForgotten
PROPERTIES
    ImplementsLatch
CHECK_DEADLOCK FALSE
