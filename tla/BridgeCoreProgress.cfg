SPECIFICATION FairSpec
CONSTANTS
    c1 = c1
    c2 = c2
    Callers = {c1, c2}
    Heartbeat = heartbeat
    None = none
    Retries = 1
    ScriptLength = 2
    MaxGeneration = 3
PROPERTIES
    CloseCompletes
    CallsReturn
    HeartbeatFlows
