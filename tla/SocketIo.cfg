\* buffer larger than a message and not a multiple of it, both ends non-blocking
CONSTANTS
    Size = 3
    Cap = 4
    MaxMsg = 3
    SenderBlocking = FALSE
    ReaderBlocking = FALSE
SPECIFICATION FairSpec
INVARIANTS
    Aligned
    ZeroMeansDrained
    IInv
PROPERTIES
    SendReturns
    SentIsReceived
    ImplementsChannel
\* both processes may exit: the connection is then over
CHECK_DEADLOCK FALSE
