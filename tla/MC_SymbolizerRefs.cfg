SPECIFICATION Spec
CONSTANTS
    Pid = {p1}
    Vma = {v1}
    Elf = {b1}
    NoElf = NoElf
    BufferNames = 1
    MaxDepth = 1
    MaxBirths = 1
    MaxNodes = 2
INVARIANTS ReferencesReleased
CHECK_DEADLOCK FALSE
