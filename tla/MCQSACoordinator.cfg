\* Two ranks that vote on four requests, and one call that may raise.
CONSTANTS
    Ranks <- MCRanks
    Chief = 1
    Prompt <- MCPrompt
    Hit <- MCHit
    Ignoring = {2, 3}
    Instant = {3}
    PageSize = 2
    Chunk = 4
    MaxAborts = 1
    Requests = 4
    MaxRequests = 2
    Target = 2
    MaxFaults = 1
SPECIFICATION Spec
CHECK_DEADLOCK FALSE
INVARIANTS
    RanksAgree
    OnePlace
PROPERTIES
    EveryParkedAdmitted
