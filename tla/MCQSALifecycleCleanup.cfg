\* The cleanup of a failed handoff fails too.
CONSTANTS
    ra = ra
    rb = rb
    rc = rc
    NoLease = NoLease
    Rows <- MCRows
    Generations <- MCGenerations
    Rids <- MCRids
    MaxRequests = 2
    PageSize = 4
    StagingTokens = 4
    MaxSteps = 1
    MaxFaults = 1
    CleanupMayFail = TRUE
SPECIFICATION Spec
SYMMETRY MCSymmetry
CHECK_DEADLOCK FALSE
INVARIANTS
    WorkWithinLease
