CONSTANTS
    Shipped <- ReleaseFiles
    Installed <- AllFiles
    Folders <- TopFolders
    Resources <- ResourceFiles
    Libraries <- LibraryFiles
    OldClients <- OldFiles
    Stable = {}
    Absent = Absent
    Torn = Torn
    Client = "client"
    Threads = {t1, t2}
    MaxRelease = 1
    MaxTurns = 2
    MaxFailures = 1
SPECIFICATION Spec
CHECK_DEADLOCK FALSE
INVARIANTS OfferIsOfChannel UpdateIsWhole OriginalsSurvive
