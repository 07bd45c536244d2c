SPECIFICATION FairSpec
CONSTANTS
    kQueueLimit = 2
    RingSize = 2
    MaxSpeech = 4
    MaxRuns = 2
    MaxFaults = 2
INVARIANTS
    AudioInvariant
    NoStaleSpeech
PROPERTIES
    StaysPut
    StopReturns
    QueueMoves
CHECK_DEADLOCK FALSE
