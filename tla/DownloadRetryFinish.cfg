SPECIFICATION Spec
CONSTANTS
    first = first
    second = second
    None = None
    Versions <- TwoVersions
    LeaseTicks = 1
    DeadlineTicks = 1
    RetryTicks = 1
    MaxRevision = 5
    MaxFence = 1
    MaxNow = 1
    MaxCrashes = 0
INVARIANTS LeasedStartCanFinish
CHECK_DEADLOCK FALSE
