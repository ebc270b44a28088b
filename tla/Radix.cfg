SPECIFICATION FairSpec
CONSTANTS
    HeapStart = 1000
    SMALL_BLOCK_LIMIT = 64
    MIN_ALLOCATION = 40
    ChunkBlocks = 2
    Requests = {16}
    Remembers = TRUE
    Top = 2
    MaxTake = 2
    Takes = {1, 3}
    Commands = 5
INVARIANTS
    TypeOK
    HeapSound
    OneLink
    WellFormed
    AllReleased
PROPERTIES
    Implements
    CommandsEnd
CHECK_DEADLOCK FALSE
