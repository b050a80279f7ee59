SPECIFICATION PolledSpec
CONSTANTS
    None = None
    LeaseTicks = 1
    DeadlineTicks = 0
    RetryTicks = 1
    MaxAttempts = 2
    MaxNumber = 2
    MaxRevision = 4
    MaxElsewhere = 1
    MaxIntents = 4
    MaxFence = 2
    MaxNow = 1
    MaxCrashes = 1
INVARIANTS TypeOK SubmissionsAreAsked OneOpenEffect AttemptAgrees WaitingIsQueued
PROPERTIES EffectsKeepAuthority SubmissionResolves
CHECK_DEADLOCK FALSE
