SPECIFICATION MCSpec
CONSTANTS
    Cpus = {c1, c2}
    Dirs = {d1, d2}
    KernelDir = KernelDir
    Pages = {p1}
    Frames = {f1, f2}
    None = None
    Ops = {"munmap"}
    Unreliable = TRUE
    MaxEpoch = 2
    FrTasks = {"t", "u"}
    FrPages = {1, 2}
    FilePages = {"k"}
    StackFrames = 2
    DmaAlign = 2
    TotalFrames = 8
    HeapUnits = 7
    HeapSizes = {1, 2, 4}
    Drivers = {"a", "b", "c", "d"}
    Device <- RgDevices
    WindowUnits = 4
    Sector = 2
    NSectors = 3
    MaxLen = 3
    RawOffsets = {0, 2}
    RawMounted = FALSE
    TornReads = FALSE
    MaxWrites = 2
    FsNames = {"a", "b"}
    LastInode = 4
    LastBlock = 6
    NDirect = 3
    NPtrs = 1
    MaxFsOps = 5
    FatNames = {"a", "b"}
    MaxFatNodes = 4
    Disks = {"usb", "pcmcia"}
    Targets <- VfsTargets
    MaxFsId = 3
    MaxMounts = 5
    ProcNames <- FcProcNames
    LibProcs = {"p1"}
    FcFds = {3, 4}
    FcInodes = {1, 2, 3, 4}
    FcMaxPath = 2
    DirPaths <- FcDirPaths
    FilePaths <- FcFilePaths
    RelPaths <- FcRelPaths
    ProcSpace = 16
    MaxFileCalls = 2
CHECK_DEADLOCK FALSE
INVARIANTS
    NoStaleFrame
    TlbCoherent
    
    
    

    
