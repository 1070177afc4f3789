SPECIFICATION Spec
CONSTANTS
    Half = 8
    Mss = 1
    RcvWndMax = 2
    InitialWindow = 2
    MaxRetransmit = 1
    OooMaxLen = 1
    MaxSegments = 3
    TailProbes = FALSE
    Endpoint <- Hosts
    Cwnd = {2}
    Plans <- Endings
CHECK_DEADLOCK FALSE
 
PROPERTIES ImplementsByteStream ClosedIsFinal
