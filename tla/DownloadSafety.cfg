SPECIFICATION Spec
CONSTANTS
    first = first
    second = second
    None = None
    Versions <- TwoVersions
    LeaseTicks = 1
    DeadlineTicks = 1
    RetryTicks = 1
    MaxRevision = 5
    MaxFence = 2
    MaxNow = 1
    MaxCrashes = 1
INVARIANTS TypeOK PendingIsCurrent OfferedWhileWaiting TransferringIsOwed EpisodeAgrees
PROPERTIES AdoptionIsOwed EffectsKeepAuthority AttemptsEndOnce
CHECK_DEADLOCK FALSE
