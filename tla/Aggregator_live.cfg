SPECIFICATION FairSpec
CONSTANTS
    b1 = b1
    b2 = b2
    b3 = b3
    m1 = m1
    m2 = m2
    m3 = m3
    A = A
    B = B
    Ledger <- LateClaim
    OwnBatches <- Outer
    NeedsBlob <- ThirdMsg
    ClaimOf <- ByM2
    NoClaim = NoClaim
    NodeClaims <- SecondMsg
    BadSigner <- NoMsgs
    BadData <- NoMsgs
    PageSize = 2
    RewindQueueLength = 1
    MaxFails = 1
    MaxCrashes = 0
INVARIANT NoPinForgotten
PROPERTY OvertakesOnlyInPage
PROPERTY EventuallyDispatched
CHECK_DEADLOCK FALSE
