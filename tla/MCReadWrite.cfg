SPECIFICATION ExecveFairSpec
CONSTANTS
    SPACE = 14
    LO = 1
    HI = 13
    MEM_USER_BUFFER_SIZE = 3
    Types = {"plain", "directory", "asci", "sd", "pipe_write"}
    FileSize = 6
    MaxPos = 14
    Calls <- AllCalls
    Nul <- Nuls
    HEAP = 8
INVARIANTS
    BytesInOrder
    ReadInBounds
    FailureMovesNothing
    FailedExecveUndone
    ArgumentsArrive
PROPERTIES
    CallsReturn
CHECK_DEADLOCK FALSE
