SPECIFICATION FairSpec
CONSTANTS
    SampleCapacity = 1
    QueueCapacity = 2
    ProducerBatch = 2
    BatchSize = 2
    MaxSamples = 2
    MaxConns = 1
PROPERTIES StopSignalEnds
CHECK_DEADLOCK FALSE
