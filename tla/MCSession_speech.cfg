SPECIFICATION Spec
CONSTANTS
    JobCapacity = 1
    ResultCapacity = 1
    OutboundCapacity = 1
    TtsCapacity = 1
    MaxFrames = 3
    MaxSegments = 1
    VoiceReady = {TRUE}
    Controls <- EveryFrame
INVARIANTS
    StreamOrder
    FenceIsComplete
    FenceIsLast
    AtMostOneLateMessage
    GracefulIsQuiescent
CHECK_DEADLOCK FALSE
