SPECIFICATION FairSpec
CONSTANTS
    QueueMax = 2
    MaxFrames = 2
    MaxStarts = 1
    FramesFail = FALSE
CHECK_DEADLOCK FALSE
PROPERTIES FarewellReachesPeer
