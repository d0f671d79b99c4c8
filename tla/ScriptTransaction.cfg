SPECIFICATION Spec
CONSTANTS
    Scripts <- MCScripts
    Commands <- MCCommands
    TimeoutMs = 100
    MaxMs = 3000
    Retries = 1
    MaxPayload = 2
    LinkCapacity = 2
    MaxCalls = 2
INVARIANTS
    TypeOK
    DeadlineCoversBatch
    WholeSegments
    CompletedMeansDone
    CleanedMeansQuiet
PROPERTIES
    NothingOvertakes
    KeepsPromise
CHECK_DEADLOCK FALSE
