\* two clients, one on each kind of socket, back-pressure on a connection of one
\* message, and the two delays of the pull module
CONSTANTS
    c1 = c1
    c2 = c2
    Clients <- MCTwoClients
    UnixClients <- MCOneUnix
    None = None
    Items = 3
    Cap = 1
    Active = 1
    Inactive = 2
SPECIFICATION FairSpec
INVARIANTS
    Consecutive
    ExactlyOneClient
    NoClientDropped
PROPERTIES
    ImplementsChannel
    SentIsTaken
    RetrySucceeds
\* the server has no more items and every client has ended
CHECK_DEADLOCK FALSE
