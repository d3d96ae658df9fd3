CONSTANTS
    Conns = {k1}
    Requests <- MCUnparsable
    Schemes <- MCSchemes
    Allowlists <- MCAllowlists
    MaxRequests = 2
    MaxMishaps = 1
SPECIFICATION Spec
PROPERTIES AllOfItIsLogged
CHECK_DEADLOCK FALSE
