SPECIFICATION Spec
CONSTANTS
    None = None
    LeaseTicks = 1
    DeadlineTicks = 1
    RetryTicks = 1
    MaxAttempts = 2
    MaxNumber = 2
    MaxRevision = 4
    MaxElsewhere = 1
    MaxIntents = 4
    MaxFence = 2
    MaxNow = 2
    MaxCrashes = 1
PROPERTIES AbandonedIsNotSubmitted
CHECK_DEADLOCK FALSE
