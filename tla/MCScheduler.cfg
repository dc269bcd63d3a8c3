SPECIFICATION FairSpec
CONSTANTS
    Requests = {r1, r2, r3, r4}
    Slots = 2
    BurstLimit = 2
INVARIANTS
    SlotsConserved
    NoIdleSlotWhileQueued
    BoundedOvertaking
PROPERTIES
    QueuedIsServed
    ImplementsPool
CHECK_DEADLOCK FALSE
