SPECIFICATION Spec
CONSTANTS
    NSlots = 3
    NCpus = 2
    MaxPid = 3
    Calls <- GroupCalls
    UserFaults = TRUE
INVARIANTS
    KernelStackExclusive
    ThreadGroupIntact
    StopIsProcessWide
