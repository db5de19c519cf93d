\* three clients, two in the backlog of the Unix socket and one in that of TCP,
\* back-pressure on connections of one message, and both delays of the pull module
CONSTANTS
    c1 = c1
    c2 = c2
    c3 = c3
    Clients <- MCClients
    UnixClients <- MCUnixClients
    None = None
    Items <- MCItems
    Cap = 1
    Active = 1
    Inactive = 2
SPECIFICATION FairSpec
INVARIANTS
    Conserved
    NothingLeftBehind
PROPERTIES
    ImplementsChannel
    EverySentIsTaken
