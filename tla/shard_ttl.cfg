SPECIFICATION FairSpec
CONSTANTS
    Policy = "LRU"
    k1 = k1  k2 = k2  k3 = k3
    small = small  big = big  huge = huge
    Keys = {k1, k2}
    NoKey = NoKey
    Goroutines = {g1, g2}
    NoGoroutine = NoGoroutine
    Items = {i1, i2, i3, i4}
    Values = {big}
    RawLen <- MCRawLen
    PackedLen <- MCPackedLen
    CompressSize <- MCCompressSize
    MaxSize = 2
    TTLs = {0, 1}
    Corrupt = Corrupt
    Missing = Missing
    MaxNow = 3
    MaxOps = 4
INVARIANTS
    CountExact
    HitIsLive
    MissIsJustified
PROPERTIES
    ImplementsContract
    CallsReturn
    ExpiredIsRemoved
