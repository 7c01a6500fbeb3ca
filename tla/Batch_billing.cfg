\* The comments on settlement, against a job that expires locally.
SPECIFICATION Spec
CONSTANTS
    NULL = NULL
    LineIds = {"a", "b"}
    Inputs <- MCInputs
    Callers = {c1}
    MaxCrashes = 0
PROPERTY ServedLinesSettle
CHECK_DEADLOCK FALSE
