SPECIFICATION BootSpec
CONSTANTS
    d1 = d1
    d2 = d2
    m1 = m1
    labelA = labelA
    labelB = labelB
    t1 = t1
    t2 = t2
    t3 = t3
    t4 = t4
    None = None
    Empty = Empty
    Absent = Absent
    DevSeq <- MCDevSeq
    Media = {m1}
    Tag = {labelA}
    TagsOf <- MCTagsOf
    Id <- MCIds
    Timeout <- MCTimeouts
    Pressed = {}
    MaxKeys = 0
    Target = {t1, t2, t3, t4}
    Args <- MCArgs
    MaxArgv = 4
    Slots = {1, 2}
INVARIANTS
    BootsPassed
