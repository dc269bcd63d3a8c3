SPECIFICATION FairSpec
CONSTANTS
    QueueCapacity = 2
    Crashes <- EveryCrash
    MaxChunks = 2
    MaxCalls = 4
    MaxCrashes = 2
CHECK_DEADLOCK FALSE
INVARIANTS ReportedIsKept FinalizedIsComplete RecoveryIsComplete
PROPERTIES PublishedIsFinal CallsReturn
