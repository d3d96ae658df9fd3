CONSTANTS
    AllowedHost = allowed
    BlockedHost = blocked
    OtherHost = elsewhere
    MaxEarlier = 2
    MaxLines = 3
SPECIFICATION Spec
INVARIANT BrokenBaselineIsNotForgiven
CHECK_DEADLOCK FALSE
