\* Progress of the runtime when no call fails.
CONSTANTS
    ra = ra
    rb = rb
    rc = rc
    NoLease = NoLease
    Rows <- MCRows
    Generations <- MCGenerations
    Rids <- MCRids
    MaxRequests = 2
    PageSize = 4
    StagingTokens = 4
    MaxSteps = 1
    MaxFaults = 0
    CleanupMayFail = FALSE
SPECIFICATION FairSpec
CHECK_DEADLOCK FALSE
PROPERTIES
    EveryRequestFinishes
    EveryLeaseReturns
