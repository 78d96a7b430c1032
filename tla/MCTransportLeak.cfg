SPECIFICATION Spec
CONSTANTS
    MaxOps = 1
    Faults = {"loss", "orphan", "spawn"}
INVARIANTS
    AbortCleansStaging
CHECK_DEADLOCK FALSE
