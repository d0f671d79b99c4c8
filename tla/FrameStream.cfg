SPECIFICATION Spec
CONSTANTS
    Byte <- ByteValues
    Magic0 = 2
    Magic1 = 3
    HeaderSize = 4
    Overhead = 5
    MaxPayload = 5
    PayloadLength <- MCLength
    SequenceOf <- MCSequence
    ChecksumFits <- MCChecksumFits
    Sequences = {1, 2}
    ReadLimit = 2
    Pieces <- MCPieces
    MaxBytes = 13
INVARIANTS
    TypeOK
    ScansFromTheLeft
    AnswersOnlyHidden
    BufferBounded
