\* every program; commands of 3 units over buffers of 2, responses of 2
CONSTANTS
    Programs = {"read_write", "pingpong", "stream", "upstream", "idle",
                "slow_stream", "sigpipe"}
    Messages = 2
    MemSize = 2
    UpSize = 3
    DownSize = 2
    Cap = 2
SPECIFICATION FairSpec
INVARIANTS
    ChecksPass
    NothingUnserved
PROPERTIES
    CallsReturn
    ProgramsEnd
\* the programs end
CHECK_DEADLOCK FALSE
