\* A launcher, a server with two ranks, two signals.
CONSTANTS
    r0 = r0
    r1 = r1
    Ranks <- MCRanks
    Statuses <- MCStatuses
    Signals <- MCSignals
    MaxSignals = 2
SPECIFICATION LaunchSpec
CHECK_DEADLOCK FALSE
INVARIANTS
    GroupStopped
    OutcomeTrue
PROPERTIES
    LauncherEnds
