SPECIFICATION Spec
CONSTANTS
    Pid = {p1}
    Vma = {v1}
    Elf = {b1}
    NoElf = NoElf
    BufferNames = 1
    MaxDepth = 1
    MaxBirths = 2
    MaxNodes = 2
PROPERTIES StartTimeReliable
CHECK_DEADLOCK FALSE
