SPECIFICATION FairSpec
CONSTANTS
    t1 = t1
    t2 = t2
    t3 = t3
    Threads = {t1, t2, t3}
    Heartbeat = heartbeat
    MaxOwned = 1
    MaxEpoch = 3
INVARIANTS
    TypeOK
    NoUseAfterDelete
    DeletedMeansShut
    FaultEndsItsConnection
PROPERTIES
    ReleasedIsDeleted
CHECK_DEADLOCK FALSE
