SPECIFICATION FairSpec
CONSTANTS
    client = client
    installer = installer
    hyMt2 = hyMt2
    hyMt2Big = hyMt2Big
    Processes <- BothProcesses
    Clients = {client}
    Packages <- BothPackages
    FileCount = 2
    Missing = Missing
    Prefixed <- NamePrefixes
    LockLeft = {"free", "stale"}
    MaxStarts = 2
    MaxSwitches = 1
    MaxCrashes = 1
CHECK_DEADLOCK FALSE
INVARIANTS RetryIsSafe
PROPERTIES UnsweptIsAtomic SwitchRestarts
