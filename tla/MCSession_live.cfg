SPECIFICATION FairSpec
CONSTANTS
    JobCapacity = 2
    ResultCapacity = 16
    OutboundCapacity = 2
    TtsCapacity = 1
    MaxFrames = 2
    MaxSegments = 1
    VoiceReady = {FALSE}
    Controls <- StreamFrames
PROPERTIES
    FinishIsConfirmed
    FinishEnds
    PauseIsConfirmed
CHECK_DEADLOCK FALSE
