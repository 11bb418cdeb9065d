SPECIFICATION FairSpec
CONSTANTS
    MaxPid = 3
    chip_size = 2
    sector_size = 1
    Requests <- AllRequests
    MaxCalls = 3
INVARIANTS
    CommandsWhole
    DoneWhenReturned
    ReadsFinishedWrites
PROPERTIES
    CallsReturn
