SPECIFICATION FairSpec
CONSTANTS
    c1 = c1
    c2 = c2
    r1 = r1
    r2 = r2
    Conns <- MCConns
    Responders <- OneResponder
    Matches <- TwoSkipped
    ReadAhead = 1
    BufferLength = 3
    Newest = TRUE
    MaxSeq = 3
    MaxFails = 1
    MaxCloses = 1
    MaxCrashes = 0
PROPERTY EventuallyAcked
PROPERTY BatchRedelivered
PROPERTY CloseCompletes
CHECK_DEADLOCK FALSE
