SPECIFICATION PolledSpec
CONSTANTS
    first = first
    second = second
    None = None
    Versions <- OneVersion
    LeaseTicks = 1
    DeadlineTicks = 1
    RetryTicks = 1
    MaxRevision = 3
    MaxFence = 1
    MaxNow = 1
    MaxCrashes = 1
PROPERTIES RestartDisposesCommands
CHECK_DEADLOCK FALSE
