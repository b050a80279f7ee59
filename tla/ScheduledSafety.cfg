SPECIFICATION PolledSpec
CONSTANTS
    None = None
    Tasks = {t1}
    LeaseTicks = 1
    IntervalTicks = 1
    RetryTicks = 1
    MaxAttempts = 2
    MaxRevision = 3
    MaxIntents = 4
    MaxFence = 2
    MaxNow = 1
INVARIANTS TypeOK RunsAreOwed
PROPERTIES AcceptedIsNotRepeated FinishedRunsStay SuccessAdvances EffectsKeepAuthority WaitingRunsStart
CHECK_DEADLOCK FALSE
