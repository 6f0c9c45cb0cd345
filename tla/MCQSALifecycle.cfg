\* Safety of the runtime with two calls that fail half-way.
CONSTANTS
    ra = ra
    rb = rb
    rc = rc
    NoLease = NoLease
    Rows <- MCRows
    Generations <- MCGenerations
    Rids <- MCRids
    MaxRequests = 2
    PageSize = 4
    StagingTokens = 4
    MaxSteps = 1
    MaxFaults = 2
    CleanupMayFail = FALSE
SPECIFICATION Spec
SYMMETRY MCSymmetry
CHECK_DEADLOCK FALSE
INVARIANTS
    WorkWithinLease
    LaneWork
    BooksExact
PROPERTIES
    OnlyFailuresForget
    ImplementsDeviceCustody
