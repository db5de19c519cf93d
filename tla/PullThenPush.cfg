\* the device of the examples, which is ready when a command comes; a delay of 0
\* between two commands, an int of 4 bits that wraps; a client that may be
\* killed, and two after it, the last one on TCP
CONSTANTS
    Clients = 3
    Commands = 2
    Killable = {1}
    Tcp = {3}
    Cap = 1
    Active = 0
    Inactive = 5
    Grace = 2
    IntWidth = 4
    AlwaysReady = TRUE
SPECIFICATION FairSpec
INVARIANTS
    TypeOK
    CommandsKept
    OwnAnswers
PROPERTIES
    Settles
    EveryCommandAnswered
