\* One request, evidence with and without a meter, two failing writes, a priced
\* ledger: every interleaving of its handler, a dropped handler and the sweep, and
\* what the sweep must eventually do when a handler stops anywhere.
SPECIFICATION FairSpec
CONSTANTS
    NULL = NULL
    Requests = {r1}
    Org <- OneOrg
    MaxAttempts = 2
    Tries = 2
    Pricer = TRUE
    Kinds = {"exact", "silent"}
    Faults = {"storage", "refused"}
    MaxFaults = 2
INVARIANTS ReservationsOwned OneOpenAttempt FenceExact DrainSafe PricedRetained
PROPERTIES EvidenceKept RequestsClose FenceRecovers
CHECK_DEADLOCK FALSE
