SPECIFICATION MCSpec
CONSTANTS
    GetcSize = 6
    TbufSize = 3
    MaxKeys = 3
    MaxCalls = 2
    Typed = {"a", " "}
    Completion <- MCCompletion
    Size = 5
    HistorySize = 2
    NUL = NUL
    Rows = 3
    Cols = 2
    Scol = 1
    MaxEntered = 2
    D = D
    L = L
    Disk <- MCDisk
    LongName <- MCLongName
    Char <- MCChar
    Jails <- MCJails
    Lower <- MCLower
    Tree <- MCTree
    NoDevice = NoDevice
    NoName = NoName
    Unclosed = Unclosed
INVARIANTS
    KeysInOrder
    LineOK
    InJail
    PathMeans
    GlobMeans
    FindsAll
PROPERTIES
    GetposEnds
    EditorSpec
    CursorFollows
CHECK_DEADLOCK FALSE
