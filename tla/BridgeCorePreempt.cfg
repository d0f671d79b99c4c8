SPECIFICATION Spec
CONSTANTS
    c1 = c1
    c2 = c2
    Callers = {c1, c2}
    Heartbeat = heartbeat
    None = none
    Retries = 0
    ScriptLength = 1
    MaxGeneration = 1
SYMMETRY Symmetry
INVARIANTS
    ClosePreemptsReads
