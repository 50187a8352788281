SPECIFICATION FairSpec
CONSTANTS
    SampleCapacity = 2
    QueueCapacity = 3
    ProducerBatch = 2
    BatchSize = 3
    MaxSamples = 8
    MaxConns = 3
INVARIANTS TypeOK InOrderOnce
PROPERTIES SampleProcessed FailedStartEnds
CHECK_DEADLOCK FALSE
