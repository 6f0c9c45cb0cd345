\* The lease table alone: two slots, three rows, two generations.
CONSTANTS
    ra = ra
    rb = rb
    NoLease = NoLease
    Rows <- MCRows
    Generations <- MCGenerations
    Rids <- MCRids
    MaxRequests = 2
    PageSize = 4
    StagingTokens = 8
SPECIFICATION SlotsSpec
SYMMETRY MCSymmetry
CHECK_DEADLOCK FALSE
INVARIANTS
    SlotsInv
    BackingDisjoint
PROPERTIES
    RetiredForever
    ImplementsCustody
