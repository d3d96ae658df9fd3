CONSTANTS
    Conns = {k1, k2}
    Requests <- MCRequests
    Schemes <- MCSchemes
    Allowlists <- MCAllowlists
    MaxRequests = 2
    MaxMishaps = 1
SPECIFICATION FairSpec
INVARIANTS TypeOK NoBodyReadAsRequest LogsAgree AllowedIsListed DeniedIsUnlisted
PROPERTIES EveryCrossingIsRecorded LedgerSpec
CHECK_DEADLOCK FALSE
