\* Allocations that raise at up to two places, and rollbacks that are repeated.
CONSTANTS
    ra = ra
    rb = rb
    NoLease = NoLease
    Rows <- MCRows
    Generations <- MCGenerations
    Rids <- MCRids
    MaxRequests = 2
    PageSize = 4
    StagingTokens = 4
    Pages <- MCPages
    PageTokens = 2
    Hit = 2
    Ends <- MCEnds
    MaxFaults = 2
SPECIFICATION Spec
CHECK_DEADLOCK FALSE
INVARIANTS
    PagesExact
    RestorePinned
    NothingLeaks
PROPERTIES
    RollbackEnds
