SPECIFICATION FairSpec
CONSTANTS
    MaxFlows = 2
    MaxFaults = 1
INVARIANTS
    LinkInvariant
    DockWaitsForSomeone
PROPERTIES
    CancelReturns
    SignInEnds
CHECK_DEADLOCK FALSE
