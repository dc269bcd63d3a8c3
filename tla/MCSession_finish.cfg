SPECIFICATION Spec
CONSTANTS
    JobCapacity = 4
    ResultCapacity = 16
    OutboundCapacity = 4
    TtsCapacity = 4
    MaxFrames = 3
    MaxSegments = 1
    VoiceReady = {TRUE}
    Controls <- SpeechFinish
INVARIANT
    FinishIsGraceful
CHECK_DEADLOCK FALSE
