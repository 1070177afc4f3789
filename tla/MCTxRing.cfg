SPECIFICATION FairSpec
CONSTANTS
    QueueMax = 3
    MaxFrames = 6
    MaxStarts = 3
    FramesFail = TRUE
CHECK_DEADLOCK FALSE
INVARIANTS NoStrandedFrames
PROPERTIES ImplementsFrameQueue QueueDrains
