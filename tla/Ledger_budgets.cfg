\* Strict limits over a chain of two pools, at their cap and with unknown costs:
\* reservation, settlement, late upgrade, waiver and backfill across a month boundary.
SPECIFICATION Spec
CONSTANTS
    NULL = NULL
    AttemptIds = {a1, a2}
    MaxRequests = 1
    MaxTime = 1
    MonthLength = 1
    CleanupGrace = 0
    MAXIMUM_NANO_USD = 3
    Authorizations <- PlainCaller
    Windows = {1}
    Closings <- NoClosings
    Ordinals = {0, 1}
    Scopes <- PoolScopes
    Limits = {1}
    Strictness = {TRUE}
    Costs <- BudgetCosts
    Cards <- MCCards
    TierCards <- NoTier
    Meters <- MCMeters
    CompleteMeters <- MCComplete
    Price <- MCPrice
    Receipts <- NoReceipt
    Reports <- BudgetReports
SYMMETRY Symmetry
INVARIANTS CountersConserved ChargesCoverScope
PROPERTIES DispatchWithinLimits
CHECK_DEADLOCK FALSE
