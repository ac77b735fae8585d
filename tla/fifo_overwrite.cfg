SPECIFICATION Spec
CONSTANTS
    Policy = "FIFO"
    k1 = k1  k2 = k2  k3 = k3
    small = small  big = big  huge = huge
    Keys = {k1, k2}
    NoKey = NoKey
    Goroutines = {g1}
    NoGoroutine = NoGoroutine
    Items = {i1, i2, i3}
    Values = {small}
    RawLen <- MCRawLen
    PackedLen <- MCPackedLen
    CompressSize <- MCCompressSize
    MaxSize = 3
    TTLs = {0}
    Corrupt = Corrupt
    Missing = Missing
    MaxNow = 2
    MaxOps = 3
SYMMETRY KeysAndCallers
INVARIANTS
    OverwriteKeepsPlace
