SPECIFICATION Spec
CONSTANTS
    NSlots = 2
    NCpus = 2
    MaxPid = 3
    Calls <- JobCalls
    UserFaults = FALSE
INVARIANTS
    NoLeakedDescriptors
PROPERTIES
    StoppedNotDispatched
