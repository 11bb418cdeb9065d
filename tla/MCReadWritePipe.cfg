SPECIFICATION Spec
CONSTANTS
    SPACE = 14
    LO = 1
    HI = 13
    MEM_USER_BUFFER_SIZE = 3
    Types = {"pipe_read"}
    FileSize = 6
    MaxPos = 14
INVARIANTS
    ReadInBounds
