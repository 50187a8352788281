SPECIFICATION FairSpec
CONSTANTS
    NumCpus = 2
    RingWords = 16
    TempWords = 8
    MaxIps = 2
    Depth = {1, 3}
    Regs = {1}
    QueueCapacity = 1
    MaxRecords = 3
INVARIANTS TypeOK StacksFaithful RingInOrder OneFate ManagerLifetime
PROPERTIES RecordIsRead
CHECK_DEADLOCK FALSE
