SPECIFICATION FairSpec
CONSTANTS
    Half = 8
    Mss = 1
    RcvWndMax = 2
    InitialWindow = 2
    MaxRetransmit = 2
    OooMaxLen = 1
    MaxSegments = 3
    TailProbes = FALSE
    Endpoint <- Hosts
    Cwnd = {2}
    Plans <- Outcomes
CHECK_DEADLOCK FALSE
INVARIANTS GiveUpIsEarned
PROPERTIES ConnectCompletes WrittenIsRead CloseCompletes
