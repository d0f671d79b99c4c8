SPECIFICATION FairSpec
CONSTANTS
    Retries = 1
    SequenceModulus = 3
    MaxRequests = 4
    Capacity = 2
INVARIANTS
    TypeOK
    AnswerIsOwn
    NumberNamesRequest
PROPERTIES
    ExchangeEnds
CHECK_DEADLOCK FALSE
