SPECIFICATION ExitingSpec
CONSTANTS
    MaxPid = 4
    MaxBlock = 3
    NULL = NULL
PROPERTIES
    HaltsInTheEnd
