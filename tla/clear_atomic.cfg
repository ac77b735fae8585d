SPECIFICATION Spec
CONSTANTS
    k1 = k1  k2 = k2  k3 = k3  k4 = k4
    Keys = {k1, k2, k3, k4}
    Goroutines = {g1, g2}
    NoGoroutine = NoGoroutine
    NoKey = NoKey
    HashCount = 8
    IntHalf = 16
    Hash <- MCHash
    Sizes = {1, 2}
    NumCPU = 1
    MaxSizes = {3, 5}
    MaxOps = 3
SYMMETRY CallersSymmetry
INVARIANTS
    ClearIsAtomic
