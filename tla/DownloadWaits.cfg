SPECIFICATION PolledSpec
CONSTANTS
    first = first
    second = second
    None = None
    Versions <- OneVersion
    LeaseTicks = 1
    DeadlineTicks = 1
    RetryTicks = 1
    MaxRevision = 4
    MaxFence = 1
    MaxNow = 3
    MaxCrashes = 0
PROPERTIES WaitEnds
CHECK_DEADLOCK FALSE
