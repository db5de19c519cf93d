\* two clients, the first on TCP; none is killed
CONSTANTS
    Clients = 2
    Commands = 1
    Killable = {}
    Tcp = {1}
    Cap = 1
    Active = 0
    Inactive = 1
    Grace = 1
    IntWidth = 3
    AlwaysReady = TRUE
SPECIFICATION FairSpec
PROPERTIES
    EveryCommandAnswered
