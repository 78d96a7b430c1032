SPECIFICATION Spec
CONSTANTS
    MaxCalls = 1
    RecyclesPids = TRUE
    SigchldModes = {FALSE}
INVARIANTS
    OutputSignalsTheChild
CHECK_DEADLOCK FALSE
