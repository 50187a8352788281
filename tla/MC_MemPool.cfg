SPECIFICATION Spec
CONSTANTS
    Thread = {t1, t2}
    PoolSize = 3
    MaxChunks = 5
INVARIANTS TypeOK SingleOwner NothingLeaks CleanDestroy
CHECK_DEADLOCK FALSE
