SPECIFICATION GFairSpec
CONSTANTS
    d1 = d1
    d2 = d2
    hd0 = hd0
    fd0 = fd0
    p0 = p0
    title = title
    Disk = {d1, d2}
    Install <- MCInstall
    NoDisk = NoDisk
    Gdev <- MCGdev
    Floppy <- MCFloppy
    Drive = {hd0, fd0}
    Number = {p0}
    Letter = {}
    NoPart = NoPart
    Plain = Plain
    Bad = Bad
    MapLine <- MCMapLines
    MenuLine <- MCMenuLines
    CfgLine <- MCCfgLines
    Text = {title}
    NoTitle = NoTitle
    Timeouts <- MCTimeouts
    Rare <- MCRare
    MaxRare = 1
    MaxLines = 6
    MaxKeys = 2
    Pressed = {"esc", "dead", "enter"}
INVARIANTS
    GTypeOK
    OwnLines
    OfferedOnce
    DefaultCounted
PROPERTIES
    SearchEnds
