SPECIFICATION Spec
CONSTANTS
    Policy = "LFU"
    k1 = k1  k2 = k2  k3 = k3
    small = small  big = big  huge = huge
    Keys = {k1, k2}
    NoKey = NoKey
    Goroutines = {g1, g2}
    NoGoroutine = NoGoroutine
    Items = {i1, i2, i3, i4}
    Values = {small, big, huge}
    RawLen <- MCRawLen
    PackedLen <- MCPackedLen
    CompressSize <- MCCompressSize
    MaxSize = 3
    TTLs = {0}
    Corrupt = Corrupt
    Missing = Missing
    MaxNow = 1
    MaxOps = 6
SYMMETRY KeysAndCallers
INVARIANTS
    TypeOK
    ListMatchesData
    WithinLimit
