SPECIFICATION Spec
CONSTANTS
    NSlots = 3
    NCpus = 2
    MaxPid = 4
    Calls <- LifeCalls
    UserFaults = TRUE
INVARIANTS
    TypeOK
    OwnerMatchesCurrent
    NoUseAfterFree
    ParentCanWait
PROPERTIES
    DeadStaysDead
