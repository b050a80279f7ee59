SPECIFICATION PolledSpec
CONSTANTS
    None = None
    LeaseTicks = 1
    DeadlineTicks = 1
    RetryTicks = 1
    MaxAttempts = 2
    MaxNumber = 1
    MaxRevision = 4
    MaxElsewhere = 0
    MaxIntents = 3
    MaxFence = 1
    MaxNow = 2
    MaxCrashes = 0
PROPERTIES WakeFinalizes
CHECK_DEADLOCK FALSE
