SPECIFICATION Spec
CONSTANTS
    NSlots = 2
    NCpus = 2
    MaxPid = 2
    Calls <- StopCalls
    UserFaults = FALSE
INVARIANT CallsAreExecuted
