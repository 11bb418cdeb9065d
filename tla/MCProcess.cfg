SPECIFICATION Spec
CONSTANTS
    MaxPid = 4
    MaxBlock = 4
    NULL = NULL
INVARIANTS
    TypeOK
    QueueDiscipline
    ZombieOwnedOnce
    BlockOwnedOnce
    WaitersWillWake
    CleanShutdown
    DmaExclusive
    NoLostWakeup
PROPERTIES
    NoOvertaking
    TreeSpec
