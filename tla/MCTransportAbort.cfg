SPECIFICATION Spec
CONSTANTS
    MaxOps = 1
    Faults = {"loss", "orphan", "spawn"}
PROPERTIES
    AbortOfCommitIsReported
CHECK_DEADLOCK FALSE
