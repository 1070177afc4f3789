SPECIFICATION Spec
CONSTANTS
    s1 = s1
    s2 = s2
    s3 = s3
    Socket = {s1, s2, s3}
    None = None
    Hosts <- MCHosts
    OnLink <- MCOnLink
    Routed = {"S"}
    Ephemeral = {20, 21}
    MaxQueue = 1
    MaxErrors = 2
    Burst = 2
    EchoNative = TRUE
    AnswerAll = FALSE
    Plans <- MCPlans
INVARIANTS PermitsMatchQueue BindingsDistinct
PROPERTIES DeliveredToBest CloseWakesReaders
CHECK_DEADLOCK FALSE
