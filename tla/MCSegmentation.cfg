SPECIFICATION Spec
CONSTANTS
    AdaptiveAfter = 4
    AdaptiveSilence = 2
    PreRollFrames = 2
    MaxActiveFrames = 5
    MaxOverlapFrames = 2
    MinSpeechFrames = 2
    OpeningWindow = 3
    MinDynamicSilence = 2
    CalibrationPercent = 85
    FirstWindow = 4
    WindowFrames = 6
    ExpandedWindow = 8
    HopFrames = 4
    WindowPreRoll = 2
    ReleaseFrames = 2
    OpeningFrames = 2
    StreamEndFrames = 4
    SilenceChoices = {1, 2, 3}
    MaxHeard <- HeardBound
    MaxBacklog = 2
CHECK_DEADLOCK FALSE
INVARIANTS SpeechIsHeard HeardOnce TimelineIsExact MemoryIsBounded
