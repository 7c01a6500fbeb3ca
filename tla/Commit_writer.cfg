\* Four operations, batches of two, one process death.
SPECIFICATION FairSpec
CONSTANTS
    Ops = {o1, o2, o3, o4}
    Chained = {o1}
    STOP = STOP
    MaxBatchSize = 2
    MaxCrashes = 1
PROPERTIES CloseDrains NoStrandedCaller WriteThroughSpec
CHECK_DEADLOCK FALSE
