SPECIFICATION FairSpec
CONSTANTS
    MaxPid = 2
    Word <- Words
INVARIANTS
    FlagFollowsPlace
PROPERTIES
    OwnMachineSpec
    ReadyRuns
CHECK_DEADLOCK FALSE
