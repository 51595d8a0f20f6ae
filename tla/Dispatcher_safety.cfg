SPECIFICATION Spec
CONSTANTS
    c1 = c1
    c2 = c2
    r1 = r1
    r2 = r2
    Conns <- OneConn
    Responders <- MCResponders
    Matches <- AllMatch
    ReadAhead = 1
    BufferLength = 4
    Newest = TRUE
    MaxSeq = 4
    MaxFails = 1
    MaxCloses = 1
    MaxCrashes = 1
INVARIANT TypeOK
INVARIANT OffsetCovered
INVARIANT ReadAheadRespected
INVARIANT FirstDeliveryInOrder
CHECK_DEADLOCK FALSE
