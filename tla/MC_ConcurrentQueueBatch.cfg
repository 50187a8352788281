SPECIFICATION FairSpec
CONSTANTS
    Producer = {p1}
    Consumer = {c1}
    Capacity = 2
    PushBatchMax = 3
    PopBatchMax = 2
    MaxItems = 3
PROPERTIES PushReturns
