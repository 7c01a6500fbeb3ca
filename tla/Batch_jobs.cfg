\* One job of two lines on each provider, one canceller, one death.
SPECIFICATION FairSpec
CONSTANTS
    NULL = NULL
    LineIds = {"a", "b"}
    Inputs <- MCInputs
    Callers = {c1}
    MaxCrashes = 1
INVARIANTS SubmitOnce SettledMeansClosed
PROPERTIES PaidWorkSpec JobSettles
CHECK_DEADLOCK FALSE
