\* Keyed operations: retries, certificates and restart, by a process that may
\* stop at any step.
SPECIFICATION FairSpec
CONSTANTS
    NULL = NULL
    AttemptIds = {a1, a2}
    MaxRequests = 3
    MaxTime = 3
    MonthLength = 2
    CleanupGrace = 1
    MAXIMUM_NANO_USD = 3
    Authorizations <- KeyedCallers
    Windows = {1}
    Closings <- AnyClosing
    Ordinals = {0, 1}
    Scopes = {}
    Limits = {2}
    Strictness = {FALSE}
    Costs = {1}
    Cards <- MCCards
    TierCards <- NoTier
    Meters <- MCMeters
    CompleteMeters <- MCComplete
    Price <- MCPrice
    Receipts <- NoReceipt
    Reports <- KeyReports
INVARIANTS OneExecutionPerOperation CertificateSound
PROPERTIES DeliveryImmutable AttemptsClose
CHECK_DEADLOCK FALSE
