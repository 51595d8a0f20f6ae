SPECIFICATION Spec
CONSTANTS
    p1 = p1
    p2 = p2
    c1 = c1
    k1 = k1
    k2 = k2
    MaxSeq = 2
    Procs <- TwoProcs
    ProcOf <- EvenP2
    KeyOf <- OneKey
    SizeOf <- UnitSize
    NoData <- NoMessages
    Contexts <- OneContext
    ContextOf <- AllPrivate
    NoContext = NoContext
    BatchOfOne <- SecondProc
    PageSize = 2
    BatchMaxSize = 2
    BatchMaxBytes = 9
    MaxFails = 1
    MaxCrashes = 0
INVARIANT PinsUnique
CHECK_DEADLOCK FALSE
