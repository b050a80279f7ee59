SPECIFICATION PolledSpec
CONSTANTS
    None = None
    Tasks = {t1, t2}
    LeaseTicks = 1
    IntervalTicks = 1
    RetryTicks = 1
    MaxAttempts = 1
    MaxRevision = 1
    MaxIntents = 4
    MaxFence = 1
    MaxNow = 1
PROPERTIES DueIsEnsured
CHECK_DEADLOCK FALSE
