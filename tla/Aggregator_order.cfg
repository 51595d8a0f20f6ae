SPECIFICATION Spec
CONSTANTS
    b1 = b1
    b2 = b2
    b3 = b3
    m1 = m1
    m2 = m2
    m3 = m3
    A = A
    B = B
    Ledger <- Crossing
    OwnBatches <- Outer
    NeedsBlob <- FirstMsg
    ClaimOf <- Registered
    NoClaim = NoClaim
    NodeClaims <- NoMsgs
    BadSigner <- ThirdMsg
    BadData <- FirstMsg
    PageSize = 1
    RewindQueueLength = 1
    MaxFails = 1
    MaxCrashes = 1
INVARIANT TypeOK
INVARIANT DispatchedOnce
INVARIANT TopicOrder
CHECK_DEADLOCK FALSE
