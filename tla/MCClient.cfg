SPECIFICATION FairSpec
CONSTANTS
    FinishAtEnd <- BothInputs
    CommandCapacity = 1
    PcmCapacity = 1
    CaptureCapacity = 1
    LiveCalls <- CallsLive
    ImportCalls <- CallsImport
    MaxCalls = 3
    MaxFrames = 2
CHECK_DEADLOCK FALSE
INVARIANTS AudioIsHeard AgreeWhenSettled EndIsAnnouncedOnce ImportIsComplete
PROPERTIES FinishIsAnnounced CancelEnds ProducerEnds
