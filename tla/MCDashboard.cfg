\* Every handler under way together with the polling.
SPECIFICATION FairSpec
CONSTANTS
    Updates = {u1}
    Drops = {d1}
    Logins = {l1}
    Polls = {p1, p2}
    Timers = {t1, t2}
    None = None
    MaxChanges = 1
    MaxFailures = 1
INVARIANTS
    TypeOK
    OneTimer
PROPERTIES
    ViewNeverRegresses
    DropResumes
    ViewCatchesUp
