SPECIFICATION Spec
CONSTANTS
    SampleCapacity = 1
    QueueCapacity = 2
    ProducerBatch = 1
    BatchSize = 2
    MaxSamples = 2
    MaxConns = 2
INVARIANTS QueryAtWorstFails
CHECK_DEADLOCK FALSE
