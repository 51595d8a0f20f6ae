SPECIFICATION FairSpec
CONSTANTS
    c1 = c1
    c2 = c2
    r1 = r1
    r2 = r2
    Conns <- OneConn
    Responders <- OneResponder
    Matches <- AllMatch
    ReadAhead = 1
    BufferLength = 3
    Newest = FALSE
    MaxSeq = 3
    MaxFails = 1
    MaxCloses = 0
    MaxCrashes = 0
PROPERTY RejectedRedelivered
CHECK_DEADLOCK FALSE
