SPECIFICATION FairSpec
CONSTANTS
    Producer = {p1, p2}
    Consumer = {c1, c2}
    Capacity = 2
    PushBatchMax = 2
    PopBatchMax = 2
    MaxItems = 4
INVARIANTS TypeOK NoLostPopWakeup NoLostPushWakeup ShutdownWakesAll
PROPERTIES ImplementsFifo PushReturns StoredIsTaken
