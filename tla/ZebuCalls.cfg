\* a pull and a push module, a count of one bit, which wraps at every other call
CONSTANTS
    pull = pull
    push = push
    Modules <- MCModules
    Namings <- MCNamings
    NameLen = 2
    ServerMax = 2
    CountBits = 1
    Latency = 1
    MaxCalls = 3
SPECIFICATION FairSpec
INVARIANTS
    InStep
    OwnServer
PROPERTIES
    ImplementsCalls
    EveryCallReturns
\* the host may exit, and the modules have made their calls
CHECK_DEADLOCK FALSE
