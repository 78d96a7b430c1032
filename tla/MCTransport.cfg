SPECIFICATION Spec
CONSTANTS
    MaxOps = 2
    Faults = {"loss", "orphan"}
INVARIANTS
    TypeOK
    FinalIsWhole
    CancelBeforeCommitHolds
    AbortedWasAsked
PROPERTIES
    DeliverySpec
CHECK_DEADLOCK FALSE
