SPECIFICATION Spec
CONSTANTS
    JobCapacity = 1
    ResultCapacity = 6
    OutboundCapacity = 2
    TtsCapacity = 1
    MaxFrames = 2
    MaxSegments = 4
    VoiceReady = {TRUE}
    Controls <- SpeechBlock
INVARIANT
    SpeechCannotBlockSession
CHECK_DEADLOCK FALSE
