\* The documented promise that crash reconciliation terminalizes every request.
SPECIFICATION FairSpec
CONSTANTS
    NULL = NULL
    AttemptIds = {a1}
    MaxRequests = 1
    MaxTime = 3
    MonthLength = 2
    CleanupGrace = 1
    MAXIMUM_NANO_USD = 3
    Authorizations <- RootCaller
    Windows = {1}
    Closings <- NoClosings
    Ordinals = {0, 1}
    Scopes = {}
    Limits = {2}
    Strictness = {FALSE}
    Costs = {1}
    Cards <- MCCards
    TierCards <- NoTier
    Meters <- MCMeters
    CompleteMeters <- MCComplete
    Price <- MCPrice
    Receipts <- NoReceipt
    Reports <- KeyReports
PROPERTIES RequestsTerminalize
CHECK_DEADLOCK FALSE
