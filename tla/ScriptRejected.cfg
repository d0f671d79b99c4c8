SPECIFICATION Spec
CONSTANTS
    Scripts <- MCScripts
    Commands <- MCCommands
    TimeoutMs = 1000
    MaxMs = 3000
    Retries = 0
    MaxPayload = 2
    LinkCapacity = 2
    MaxCalls = 1
INVARIANTS
    RejectedSendsNothing
CHECK_DEADLOCK FALSE
