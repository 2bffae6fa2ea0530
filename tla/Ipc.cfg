SPECIFICATION MCSpec
CONSTANTS
    Procs = {root, a}
    Root = root
    NumFds = 2
    StdFds <- Stdin
    MaxPipes = 1
    BufSize = 1
    Bytes = {x}
    MaxCount = 1
    Calls <- Dying
    TtyProcs = {t1, t2}
    StopImmune = {t1}
    PTY_BUF = 2
    CANON_BUF = 2
    Keys = {"a", "nl", "eof", "intr", "susp", "erase"}
    MaxRead = 2
    TOSTOP = TRUE
    MaxJobs = 2
    NTtys = 3
    NPtys = 2
    MaxOfds = 3
    JobCallsOn = {"setpgid", "setsid", "setfg", "tiocspgrp"}
    Lockers = {l1, l2, l3}
    MaxRounds = 1
    MaxContinues = 1
    MaxUptime = 8
    MaxTimeout = 3
    MaxCont = 2
    TimedCalls = {"Futex", "Timer", "Poll"}
    NSock = 2
    Callers = {c1, c2}
    Waiters = {c1}
    MaxPackets = 1
    Leases = {"a", "b"}
    Statics = {"a", "c"}
    MaxPid = 2
    MaxSignals = 2
CHECK_DEADLOCK FALSE
INVARIANTS
    EndsMatchDescriptors
    TerminalsSound
    
    SocketsSound
    ShellSound
PROPERTIES
    EofReachesReader
    HangupHandled
    WaitersServed
