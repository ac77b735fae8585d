SPECIFICATION Spec
CONSTANTS
    Keys = {}
    NoKey = NoKey
    Policy = "LFU"
    HashCount = 256
    IntHalf = 256
    OffsetBasis = 197
    Prime = 147
    Unit = 4
    Int64Half = 8192
    FloatExact = 2048
    MaxFreq = 4
    OtherInputs <- UtilInputs
    Bytes = {0, 97, 255}
    MaxLen = 2
INVARIANTS
    ShardsEven
    SizesAgree
    ContainerHoldsItsElements
    FormatIsNearest
    LoopMatchesClosedForm
