SPECIFICATION FairSpec
CONSTANTS
    kDefaultIntervalMs = 3
    kMinIntervalMs = 2
    kMaxIntervalMs = 8
    kMaxBackoffMs = 7
    kRateLimitBackoffMs = 5
    kFramesBetweenTempoSync = 2
    NamedIntervals <- MCIntervals
    MaxFaults = 1
    MaxRuns = 2
INVARIANTS
    VisionInvariant
    FramesBehindSession
PROPERTIES
    StopReturns
    SessionHeals
