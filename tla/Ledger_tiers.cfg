\* One attempt under every report, receipt and tier, strict and default limits.
SPECIFICATION Spec
CONSTANTS
    NULL = NULL
    AttemptIds = {a1}
    MaxRequests = 1
    MaxTime = 1
    MonthLength = 2
    CleanupGrace = 0
    MAXIMUM_NANO_USD = 3
    Authorizations <- MixedCallers
    Windows = {1}
    Closings <- NoClosings
    Ordinals = {0, 1}
    Scopes <- TeamAndPool
    Limits = {2}
    Strictness = {TRUE, FALSE}
    Costs <- BudgetCosts
    Cards <- MCCards
    TierCards <- BothTiers
    Meters <- MCMeters
    CompleteMeters <- MCComplete
    Price <- MCPrice
    Receipts <- AnyReceipt
    Reports <- AllReports
INVARIANTS TypeOK ChargesFollowAttempt WaiverPermanent
PROPERTIES EvidenceImmutable
CHECK_DEADLOCK FALSE
