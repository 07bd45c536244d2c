SPECIFICATION Spec
CONSTANTS
    MaxFlows = 2
    MaxFaults = 0
INVARIANT
    NothingOutlivesExit
CHECK_DEADLOCK FALSE
