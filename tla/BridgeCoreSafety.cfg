SPECIFICATION Spec
CONSTANTS
    c1 = c1
    c2 = c2
    c3 = c3
    Callers = {c1, c2, c3}
    Heartbeat = heartbeat
    None = none
    Retries = 1
    ScriptLength = 2
    MaxGeneration = 3
SYMMETRY Symmetry
INVARIANTS
    TypeOK
    NoFrameAfterStop
    IoOnOwnConnection
    SessionBacked
    NothingLeftBehind
    TransactionExclusive
    NoLockWhileWaiting
PROPERTIES
    ImplementsConnection
