\* two channels with long names, one client each, servers that may be killed once and started again:
\* the files of killed runs stay
CONSTANTS
    x = x
    y = y
    z = z
    hashA = hashA
    hashB = hashB
    ca = ca
    cb = cb
    Chars <- MCChars
    Channels <- MCChannels
    Clients <- MCClients
    ChannelOf <- MCChannelOf
    Local <- MCLocal
    None = None
    HashOf <- MCHashOf
    InfoMax = 2
    InfoKeep = 2
    UnixMax = 1
    UnixKeep = 1
    MaxCrash = 1
SPECIFICATION FairSpec
INVARIANTS
    RightServerUntilCrash
    FirstTrySucceeds
    FreshWhenStarted
PROPERTIES
    EveryClientConnects
\* every client is connected
CHECK_DEADLOCK FALSE
