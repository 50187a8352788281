SPECIFICATION Spec
CONSTANTS
    ProducerBatch = 2
    MaxProducerBatch = 2
    BatchSize = 2
    QueueCapacity = 2
    Hour = {h1}
    NoHour = NoHour
    MaxEntries = 3
    MaxFaults = 0
INVARIANTS StopWritesEverything
CHECK_DEADLOCK FALSE
