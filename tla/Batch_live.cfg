SPECIFICATION FairSpec
CONSTANTS
    p1 = p1
    p2 = p2
    c1 = c1
    k1 = k1
    k2 = k2
    MaxSeq = 3
    Procs <- OneProc
    ProcOf <- AllP1
    KeyOf <- OneKey
    SizeOf <- UnitSize
    NoData <- Second
    Contexts <- OneContext
    ContextOf <- AllPrivate
    NoContext = NoContext
    BatchOfOne <- NoProcs
    PageSize = 2
    BatchMaxSize = 1
    BatchMaxBytes = 9
    MaxFails = 0
    MaxCrashes = 1
INVARIANT PinnedOnce
INVARIANT NonceOrder
PROPERTY EventuallySent
