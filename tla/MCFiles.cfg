SPECIFICATION FilesSpec
CONSTANTS
    o1 = o1
    o2 = o2
    o3 = o3
    o4 = o4
    Proc = {1, 2}
    First = 1
    MAX_OPEN_FILES = 2
    OpenFile <- OpenFiles
    Pipe = {pipe1}
    Dir = Dir
    Dev = Dev
    NULL = NULL
SYMMETRY SymOpenFiles
INVARIANTS
    OpenFilesCounted
    NoFileLeaks
CHECK_DEADLOCK FALSE
