\* Two engines; routes of one rung with a failed write, or of two; a death or shutdown.
SPECIFICATION FairSpec
CONSTANTS
    NULL = NULL
    Engines = {p, q}
    Home = p
    Depth = 2
    MaxLoad = 2
    MaxStops = 1
INVARIANTS PublishedAfterLedger OneRender
PROPERTIES EvidenceAcknowledged PaidWorkSpec JobsSettle
CHECK_DEADLOCK FALSE
