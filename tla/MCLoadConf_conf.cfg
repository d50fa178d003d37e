SPECIFICATION MCSpec
CONSTANTS
    off = off
    OFF = OFF
    on = on
    hd0 = hd0
    word = word
    Off = off
    AnyOff = {off, OFF}
    AnyOn = {on}
    Path = {hd0}
    Gdev = {hd0}
    Atoi <- MCAtoi
    Line <- MCLines
    MaxLines = 7
    MaxOther = 1
INVARIANTS
    OwnLines
    NoSilentLine
    AllTargets
