SPECIFICATION Spec
CONSTANTS
    publisher = publisher
    model = model
    audio = audio
    audioAgain = audioAgain
    none = none
    Requests <- MCRequests
    Exact <- MCExact
    Publishers <- MCPublishers
    PublisherLimit = 1
    NoRequest = none
    Recovery <- SafetyRecovery
    LeaseTicks = 2
    Delays <- MCDelays
    MaxAuthorized = 2
    MaxIntents = 3
    MaxFence = 2
    MaxNow = 3
    MaxSetBacks = 1
INVARIANTS TypeOK OutcomeUnderFence OneLiveLease ClaimedIsHeld AmbiguousLeasedOnce PublisherBound
PROPERTIES SettledForever ImplementsAuthority
CHECK_DEADLOCK FALSE
