SPECIFICATION Spec
CONSTANTS
    Requests = {r1, r2}
    Slots = 1
    BurstLimit = 2
INVARIANT
    ConfiguredCapacityKept
