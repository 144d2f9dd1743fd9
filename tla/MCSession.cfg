CONSTANTS
    CommandLines  <- MCCommandLines
    BodySize      <- MCBodySize
    MaxMessages   = 3
    HeaderSize    = 2
    SocketSize    = 5
    ChunkSize     = 3
    MaxBufferSize = 14
    MaxRequests   = 2
SPECIFICATION Spec
INVARIANTS StreamsAccounted OwnAnswers
PROPERTIES AnswersAreAQueue RcEnds
CHECK_DEADLOCK FALSE
