SPECIFICATION FairSpec
CONSTANTS
    MaxFrameLen = 5
    FrameLens <- MCFrameLens
    MaxFrames = 4
    SplitsHeader = FALSE
INVARIANTS
    TypeOK
    NothingLost
    WholeFrames
    RoomToRecv
PROPERTIES
    ImplementsStream
    FramesArrive
CHECK_DEADLOCK FALSE
