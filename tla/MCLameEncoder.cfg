CONSTANTS
    Modes = {"vbr_mtrh", "vbr_off"}
    FrameBytes <- Bytes
    MinIndex = 1
    CbrIndex = 2
    EnforceMin = FALSE
    SideInfoLen = 2
    Granules = 2
    ResvLimit = 40
    BufferConstraint = 72
    DisableReservoir = FALSE
    HeaderBuf = 8
    TotbitLimit = 64
    SampleRate = 3
    FracSpF = 1
    TagBytes = 4
    BitCounts <- Used
    BufferSizes = {0, 8}
    BufferSize = 40
    InputSizes = {1, 1500}
    BagSize = 2
    MaxCalls = 5
SPECIFICATION LameSpec
INVARIANTS
    LameTypeOK
    FlushIsReservoir
    DecoderFindsData
    HeadersInTime
    ReservoirBounded
    SamplesFit
    PaddingCounts
    SeekTableCumulative
PROPERTY CallReturns
CHECK_DEADLOCK FALSE
