SPECIFICATION FairSpec
CONSTANTS
    MaxPid = 4
    BLOCK_512_COUNT = 2
    Sleepers <- SeveralSleepers
INVARIANTS
    BlockExclusive
    PermitFindsBlock
    StrandedOnlyTogether
PROPERTIES
    SleeperGetsBlock
