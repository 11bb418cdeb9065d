SPECIFICATION FairSpec
CONSTANTS
    Ports = {0}
    Byte = {0, 1}
    RxSize = 5
    TxSize = 3
    SPACE_LEFT = 3
    Slack = 2
    MaxTx = 4
    MaxRx = 6
INVARIANTS
    TxNothingLost
    RxNothingLost
PROPERTIES
    AllSent
CHECK_DEADLOCK FALSE
