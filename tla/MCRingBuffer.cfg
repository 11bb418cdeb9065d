SPECIFICATION RingSpec
CONSTANTS
    Item = {0, 1, 2}
    Size = 4
INVARIANTS
    SpaceLeftIsRight
PROPERTIES
    FifoSpec
