SPECIFICATION Spec
CONSTANTS
    p1 = p1
    p2 = p2
    c1 = c1
    k1 = k1
    k2 = k2
    MaxSeq = 3
    Procs <- OneProc
    ProcOf <- AllP1
    KeyOf <- ThirdK2
    SizeOf <- SecondBig
    NoData <- NoMessages
    Contexts <- OneContext
    ContextOf <- AllPrivate
    NoContext = NoContext
    BatchOfOne <- NoProcs
    PageSize = 2
    BatchMaxSize = 2
    BatchMaxBytes = 3
    MaxFails = 1
    MaxCrashes = 0
INVARIANT TypeOK
INVARIANT SentOnce
INVARIANT OrderPreserved
INVARIANT PinsSent
INVARIANT PinsUnique
