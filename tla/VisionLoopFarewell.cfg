SPECIFICATION Spec
CONSTANTS
    kDefaultIntervalMs = 3
    kMinIntervalMs = 2
    kMaxIntervalMs = 8
    kMaxBackoffMs = 7
    kRateLimitBackoffMs = 5
    kFramesBetweenTempoSync = 2
    NamedIntervals <- MCIntervals
    MaxFaults = 0
    MaxRuns = 2
INVARIANT
    FarewellIsNotCancelled
