SPECIFICATION Spec
CONSTANTS
    b1 = b1
    b2 = b2
    b3 = b3
    m1 = m1
    m2 = m2
    m3 = m3
    A = A
    B = B
    Ledger <- ShortTopic
    OwnBatches <- Outer
    NeedsBlob <- NoMsgs
    ClaimOf <- Registered
    NoClaim = NoClaim
    NodeClaims <- NoMsgs
    BadSigner <- NoMsgs
    BadData <- NoMsgs
    PageSize = 3
    RewindQueueLength = 1
    MaxFails = 0
    MaxCrashes = 0
INVARIANT TopicOrder
CHECK_DEADLOCK FALSE
