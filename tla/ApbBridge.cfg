\* four transfers, buffers of one message
CONSTANTS
    Transfers = 4
    Cap = 1
SPECIFICATION FairSpec
INVARIANTS
    FollowsBus
    ReadyIsNotNeeded
    SameTransfers
PROPERTIES
    ImplementsCalls
    TransferCompletes
