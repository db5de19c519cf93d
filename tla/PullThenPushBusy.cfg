\* a device that may keep pull_data_rdy low for a while
CONSTANTS
    Clients = 1
    Commands = 2
    Killable = {}
    Tcp = {}
    Cap = 1
    Active = 0
    Inactive = 5
    Grace = 2
    IntWidth = 4
    AlwaysReady = FALSE
SPECIFICATION Spec
INVARIANTS
    CommandsKept
