SPECIFICATION Spec
CONSTANTS
    NumNodes = 10
    MaxAddr = 3
    MaxRows = 5
    BlockSize = 2
    FileSize = 9
    MaxBlocks = 3
    MaxRead = 3
INVARIANTS RedBlack Walks OwnerConsistent LookupsCorrect ReadFaithful
