SPECIFICATION FairSpec
CONSTANTS
    e1 = e1
    e2 = e2
    Commands = {c1, c2}
    Snapshots = {s1, s2}
    Episodes = {e1, e2}
    Listings <- MCListings
    Times = {0}
    Digest <- MCDigest
    PageSize = 1
    BatchSize = 1
    Refusable = {"Scheduled"}
    MaxPasses = 9
    MaxCrashes = 1
INVARIANTS TypeOK ReceiptsTile CausesPrecede ExecutedOnce OpportunityCovers
PROPERTIES RunsDrain
