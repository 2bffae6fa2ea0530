SPECIFICATION MCSpec
CONSTANTS
    Procs = {root, a}
    Root = root
    NumFds = 2
    StdFds = {}
    MaxPipes = 1
    BufSize = 2
    Bytes = {x, y}
    MaxCount = 2
    Calls <- Streaming
    Windows = {"u", "v", "w"}
    OnTop = {}
    Rects <- CompRects
    Cursors <- CompCursors
    ScreenW = 3
    ScreenH = 2
    MaxPieces = 64
    SurfaceSizes = {1, 2}
    MaxPaints = 3
    MaxResizes = 2
    ResizeBacklog = 1
    BrowseDirs <- BrDirs
    BrowseFiles <- BrFiles
    StartDirs <- BrStart
    TreeRows = 2
    ViewWidths = {4, 5}
    ViewRows = 2
    MaxHistory = 2
    MaxBrowse = 3
    EditTexts <- SetTexts
    EditSizes <- EditorSizes
    EditMaxLen = 5
    MaxEdits = 4
    UiRects <- TkRects
    UiHeadings <- TkHeadings
    UiPopups <- TkPopups
    MaxEvents = 5
    MaxChars = 4
    MaxTokens = 5
    MaxCommands = 1
    MaxKeys = 3
    MaxInput = 3
    HistoryMax = 2
    Sizes <- TermSizes
    ScrollbackMax = 2
    Texts <- EditLines
    MaxOps = 4
CHECK_DEADLOCK FALSE

    
    
    
PROPERTIES
    ImplementsChannel
    
