SPECIFICATION MCSpec
CONSTANTS
    scsi = scsi
    disk = disk
    ata = ata
    first = first
    second = second
    NoModule = NoModule
    Module <- MCModule
    Archive <- MCArchive
    Depends <- MCDepends
    RootFiles <- MCRootFiles
    TarFiles <- MCTarFiles
    BootFiles <- MCBootFiles
    uuid = uuid
    serial = serial
    zero = zero
    one = one
    below = below
    linux = linux
    windows = windows
    spaced = spaced
    None = None
    Default = Default
    Cmdline <- MCCmdline
    Atoi <- MCAtoi
    Titles <- MCTitles
    Lists <- MCLists
    N = 6
    Rows = 10
    MaxKeys = 2
    Pressed = {"up", "down", "enter", "disks", "shell", "esc", "dead"}
    Timeouts <- MCTimeouts
INVARIANTS
    RootIsAsked
    BootsAsked
    DepsLoaded
    AnswerIsRight
    LoadsAll
    SelectionShown
    CountsOnce
PROPERTIES
    LoadingEnds
    ModulesStay
    MenuAnswers
