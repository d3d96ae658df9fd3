CONSTANTS
    MaxAttempts = 2
    Ceiling = 4
    Unlimited = 4
    Setups <- MCSetups
    MaxRuns = 2
SPECIFICATION Spec
INVARIANT MarkerRemovedOnEveryPath
CHECK_DEADLOCK FALSE
