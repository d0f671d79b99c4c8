SPECIFICATION Spec
CONSTANTS
    t1 = t1
    t2 = t2
    Threads = {t1, t2}
    Heartbeat = heartbeat
    MaxOwned = 1
    MaxEpoch = 3
INVARIANTS
    FaultedIsSilent
CHECK_DEADLOCK FALSE
