SPECIFICATION FairSpec
CONSTANTS
    N = 4
    W = 8
    MaxBlock = 5
    MaxChunk = 4
    MaxSamples = 11
INVARIANTS
    RingInvariant
    NoDataRace
    DropsAreCounted
PROPERTIES
    RefinesQueue
CHECK_DEADLOCK FALSE
