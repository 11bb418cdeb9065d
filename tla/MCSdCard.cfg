SPECIFICATION FairSpec
CONSTANTS
    Proc = {1, 2}
    SD_BLOCK_LEN = 3
    Blocks = 2
    BLOCK_512_COUNT = 1
    Requests <- AllRequests
    MaxCalls = 3
    Cards = {"none", "v1", "sdsc", "sdhc"}
    INIT_ATTEMPTS = 2
INVARIANTS
    SuccessMeansReady
    SmallAccessesExclude
    DiskIsRight
    ReadIsRight
PROPERTIES
    InitReturns
CHECK_DEADLOCK FALSE
