SPECIFICATION Spec
CONSTANTS
    Ports = {1}
    Byte = {0, 1}
    RxSize = 5
    TxSize = 3
    SPACE_LEFT = 3
    Slack = 2
    MaxTx = 3
    MaxRx = 6
INVARIANTS
    TxNothingLost
CHECK_DEADLOCK FALSE
