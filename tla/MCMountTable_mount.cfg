SPECIFICATION MCSpec
CONSTANTS
    d1 = d1
    d2 = d2
    d3 = d3
    m1 = m1
    m2 = m2
    labelA = labelA
    labelB = labelB
    Empty = Empty
    Absent = Absent
    DevSeq <- MCThreeDevs
    Media = {m1, m2}
    Tag = {labelA, labelB}
    TagsOf <- MCTagsOf
    Id <- MCIds
    Timeout <- MCTimeouts
    Pressed = {"esc", "dead", "home", "up", "other"}
    MaxKeys = 2
INVARIANTS
    LookupMissesOnlyOnSwap
    TableMatchesKernel
    RebootLeavesOnlyRefused
    HangNeedsTwoRefusals
PROPERTIES
    ServiceSpec
    KeyEndsWait
    WaitsOnlyForMissing
