\* one server is killed once, its channel has a client on another host
CONSTANTS
    x = x
    y = y
    z = z
    hashA = hashA
    hashB = hashB
    ca = ca
    cb = cb
    Chars <- MCChars
    Channels <- MCChannels
    Clients <- MCOneClient
    ChannelOf <- MCOneChannelOf
    Local <- MCNoLocal
    None = None
    HashOf <- MCHashOf
    InfoMax = 2
    InfoKeep = 2
    UnixMax = 1
    UnixKeep = 1
    MaxCrash = 1
SPECIFICATION Spec
INVARIANTS
    RightServer
\* every client is connected
CHECK_DEADLOCK FALSE
