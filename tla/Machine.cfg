SPECIFICATION MCSpec
CONSTANTS
    Cpus = {c1, c2}
    Dirs = {d1, d2}
    KernelDir = KernelDir
    Pages = {p1}
    Frames = {f1}
    None = None
    Ops = {"munmap", "stack", "surface", "fixed", "rollback", "execve"}
    Unreliable = FALSE
    MaxEpoch = 1
    Ports = {0, 1, 2}
    UsbKinds = {"disk", "hub"}
    MaxUsbAddr = 2
    BulkEps = {"a", "b"}
    MaxTransfers = 3
    Cards = {"cf1", "cf2", "modem"}
    Debounce = 3
    IrqDevices = {"nic", "sound", "card"}
    MaxHandlers = 2
    StrayLimit = 2
    Cooldown = 2
    Bsp = 9
    ApicTables <- SmpTables
    MAX_CPUS = 5
    NetCpus = 4
    NicKinds = {"e1000e", "i8255x", "rtl8139"}
    NSlots = 2
    NicFrames = 3
    Budget = 2
    Controllers = {"hda", "ich", "trident"}
    Frags = 2
    Bdl = 3
    Active = 2
    Players = {1, 2}
    NStreams = 1
    StreamCap = 1
    Blocks = 2
    IdeDrives = {"master", "slave"}
    Lbas = {0, 1}
    MaxSects = 2
    ScreenCells = {1, 2}
    Owners = {1}
    MaxWindows = 2
    MaxWindowId = 2
    PendingCap = 2
    MaxCreated = 2
    RingCap = 3
    MaxInputs = 5
CHECK_DEADLOCK FALSE
INVARIANTS
    
    DevicesKnown
    DisksExact
    
    SoundInOrder
PROPERTIES
    ShootdownCompletes
    DevicesServed
