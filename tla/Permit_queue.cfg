\* Four requests that come back for ever, in each of the four configurations
\* of the queue, on two permits.
SPECIFICATION FairSpec
CONSTANTS
    r1 = r1
    r2 = r2
    r3 = r3
    r4 = r4
    Requests = {r1, r2, r3, r4}
    Scope <- MCScope
    Capacity <- MCCapacity
    Permits = 2
    MaxClass = 1
INVARIANTS NoOvertaking
PROPERTIES WaitersServed
CHECK_DEADLOCK FALSE
