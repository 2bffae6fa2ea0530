SPECIFICATION FairSpec
CONSTANTS
    NSlots = 3
    NCpus = 2
    MaxPid = 3
    Calls <- LiveCalls
    UserFaults = FALSE
PROPERTIES
    RunnableIsDispatched
    SleeperWakes
    WaitCollects
    SigtermTerminates
