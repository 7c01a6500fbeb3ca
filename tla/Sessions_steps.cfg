\* Two workers on one session, three steps of which two may be dispatched, two
\* physical requests, one re-ask, one death, recovery and draining at any time.
SPECIFICATION Spec
CONSTANTS
    w1 = w1
    w2 = w2
    Workers = {w1, w2}
    StepIds = {s1, s2, s3}
    Requests = {r1, r2}
    Outputs = {o1, o2}
    Bindings = {b1}
    None = None
    LockOf <- MCLockOf
    MaximumOperations = 2
    MaximumReasks = 1
    Cap = 2
    MaxCrashes = 1
INVARIANTS PurchasesAccounted
PROPERTIES OperationLogSpec
SYMMETRY Symmetric
