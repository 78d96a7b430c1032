SPECIFICATION MCSpec
CONSTANTS
    MaxOps = 1
    Faults = {"loss", "orphan", "spawn"}
INVARIANTS
    TidyUnlessDisturbed
PROPERTIES
    CancelTerminates
    OnlyUploadsHang
CHECK_DEADLOCK FALSE
