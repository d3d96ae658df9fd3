CONSTANTS
    AllowedHost = allowed
    BlockedHost = blocked
    OtherHost = elsewhere
    EarlierEvents <- MCEarlierEvents
    EarlierRequests <- MCEarlierRequests
    OtherEvents <- MCOtherEvents
    OtherRequests <- MCOtherRequests
SPECIFICATION Spec
INVARIANTS TypeOK CleanMeansAlerted CleanMeansSeparated SeparationNeverStale ProvedFindingIsKept VerdictsRestOnWindow
CHECK_DEADLOCK FALSE
