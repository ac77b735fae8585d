SPECIFICATION Spec
CONSTANTS
    Policy = "LRU"
    k1 = k1  k2 = k2  k3 = k3
    small = small  big = big  huge = huge
    Keys = {k1}
    NoKey = NoKey
    Goroutines = {g1}
    NoGoroutine = NoGoroutine
    Items = {i1, i2}
    Values = {small}
    RawLen <- MCRawLen
    PackedLen <- MCPackedLen
    CompressSize <- MCCompressSize
    MaxSize = 3
    TTLs = {0, 1}
    Corrupt = Corrupt
    Missing = Missing
    MaxNow = 3
    MaxOps = 3
PROPERTIES
    CleanupRemovesOnlyExpired
