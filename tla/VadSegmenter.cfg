SPECIFICATION SegmenterSpec
CONSTANTS
    kWindow = 2
    kPreRollMs = 7
    kPostRollMs = 3
    kMinSegmentMs = 9
    kMaxSegmentMs = 18
    kSilenceCloseMs = 5
    kVoiceEnterWindows = 3
    kResetAfterSilentWindows = 3
    MaxStream = 44
INVARIANTS
    SegmenterInvariant
    UtterancesAreUnbroken
    AttackIsKept
    RepeatsAreShort
CHECK_DEADLOCK FALSE
