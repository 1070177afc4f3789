SPECIFICATION Spec
CONSTANTS
    Half = 8
    Mss = 2
    RcvWndMax = 4
    InitialWindow = 2
    MaxRetransmit = 1
    OooMaxLen = 1
    MaxSegments = 3
    TailProbes = TRUE
    Endpoint <- Hosts
    Cwnd = {2}
    Plans <- Lossy
CHECK_DEADLOCK FALSE
INVARIANTS StreamIsPrefix AckedIsDelivered ProbeMarkerIsLive UnackedIsBuffered SequenceSpacesAgree
