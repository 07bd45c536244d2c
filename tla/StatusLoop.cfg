SPECIFICATION FairSpec
CONSTANTS
    GoodKeys = {"good"}
    BadKeys = {"bad"}
    MaxUpsets = 2
    MaxPresses = 1
    MaxInbox = 1
INVARIANTS
    StatusInvariant
    NoUnaskedDelete
PROPERTIES
    StopReturns
    PressIsAnswered
    DockSettles
CHECK_DEADLOCK FALSE
