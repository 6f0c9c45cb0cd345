\* Eager decode and graph replays.
SPECIFICATION Spec
CONSTANTS
    Slots = {1, 2}
    BlockTokens = 2
    Hot = 2
    TopK = 2
    MaxSeq = 8
    MaxGen = 2
    Ahead = 2
INVARIANTS
    CompactExact
    NoBlockLost
    StreamsMove
CHECK_DEADLOCK FALSE
