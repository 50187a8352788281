SPECIFICATION FairSpec
CONSTANTS
    ProducerBatch = 3
    MaxProducerBatch = 2
    BatchSize = 3
    QueueCapacity = 4
    Hour = {h1, h2}
    NoHour = NoHour
    MaxEntries = 5
    MaxFaults = 1
INVARIANTS TypeOK ExactlyOnePlace FilesRight NoUseAfterFree OnlyLastFlushDrained
PROPERTIES StopTerminates QueuedIsSettled
CHECK_DEADLOCK FALSE
