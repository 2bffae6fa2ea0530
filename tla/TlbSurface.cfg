SPECIFICATION Spec
CONSTANTS
    Cpus = {c1, c2}
    Dirs = {d1}
    KernelDir = KernelDir
    Pages = {p1}
    Frames = {f1}
    None = None
    Ops = {"munmap", "surface"}
    Unreliable = TRUE
    MaxEpoch = 2
CHECK_DEADLOCK FALSE
INVARIANT NoStaleFrame
