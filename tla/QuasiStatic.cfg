\* a signal of three values that changes up to five times, a buffer of one message
CONSTANTS
    Values = {0, 1, 2}
    Zero = 0
    Cap = 1
    MaxChanges = 5
SPECIFICATION FairSpec
INVARIANTS
    NoChangeLost
PROPERTIES
    FollowsSignal
