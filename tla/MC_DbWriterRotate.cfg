SPECIFICATION Spec
CONSTANTS
    ProducerBatch = 2
    MaxProducerBatch = 2
    BatchSize = 2
    QueueCapacity = 2
    Hour = {h1, h2}
    NoHour = NoHour
    MaxEntries = 4
    MaxFaults = 0
INVARIANTS RotationKeepsRows
CHECK_DEADLOCK FALSE
