\* Three prompts compete for room for two or three checkpoints; one flush.
SPECIFICATION FairSpec
CONSTANTS
    Requests <- MCRequests
    Content <- MCContent
    Prompt <- MCPrompt
    Budget = 15
    MaxEntries = 3
    StateBytes = 1
    PageBytes = 3
    KeyBytes = 1
    MaxIds = 3
    MaxEpoch = 1
INVARIANTS
    BudgetHeld
    AccountsExact
    CurrentEpochOnly
    SharingExact
PROPERTIES
    EvictsAsNeeded
    RetiredReclaimed
CHECK_DEADLOCK FALSE
