SPECIFICATION Spec
CONSTANTS
    Pid = {p1, p2}
    Vma = {v1}
    Elf = {b1}
    NoElf = NoElf
    BufferNames = 1
    MaxDepth = 1
    MaxBirths = 2
    MaxNodes = 3
INVARIANTS TypeOK OwnFreesUnused FramesKept OneNodePerPid
PROPERTIES ReuseDetected
SYMMETRY Symmetry
CHECK_DEADLOCK FALSE
