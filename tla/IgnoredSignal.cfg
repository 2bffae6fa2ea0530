SPECIFICATION Spec
CONSTANTS
    NSlots = 2
    NCpus = 1
    MaxPid = 2
    Calls <- IgnoreCalls
    UserFaults = FALSE
INVARIANT IgnoredSignalNeverKills
