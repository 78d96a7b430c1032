SPECIFICATION FairSpec
CONSTANTS
    MaxCalls = 2
    RecyclesPids = TRUE
    SigchldModes = {FALSE}
INVARIANTS
    TypeOK
    PublishedIsUnreaped
    SuccessIsReal
PROPERTIES
    ManagedSpec
    CancelReturns
    TimeoutReturns
CHECK_DEADLOCK FALSE
