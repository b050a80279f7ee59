SPECIFICATION AnsweredSpec
CONSTANTS
    publisher = publisher
    model = model
    audio = audio
    audioAgain = audioAgain
    none = none
    Requests <- MCLiveRequests
    Exact <- MCLiveExact
    Publishers <- MCPublishers
    PublisherLimit = 1
    NoRequest = none
    Recovery <- LiveRecovery
    LeaseTicks = 1
    Delays <- MCDelays
    MaxAuthorized = 2
    MaxIntents = 4
    MaxFence = 2
    MaxNow = 2
    MaxSetBacks = 1
PROPERTIES EveryEffectIsOffered AmbiguousSettles
CHECK_DEADLOCK FALSE
