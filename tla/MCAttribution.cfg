CONSTANTS
    AllowedHost = allowed
    BlockedHost = blocked
    OtherHost = elsewhere
    MaxEarlier = 2
    MaxLines = 3
SPECIFICATION Spec
INVARIANTS TypeOK CleanIsThisRuns WindowIsFresh AnsweredIsNotReportedUnlogged VerdictsRestOnLines
CHECK_DEADLOCK FALSE
