SPECIFICATION FairSpec
CONSTANTS
    Workers = {w1}
    Cancellable = {w1}
    Length = 2
    MaxAttempts = 3
    Digests <- AnyDigest
    Missing = Missing
    MaxCalls = 3
    MaxCrashes = 2
CHECK_DEADLOCK FALSE
INVARIANTS OkIsVerified GoodServerSucceeds ResumeFetchesOnce
PROPERTIES CallReturns ImplementsArtifact
