CONSTANTS
    ProbeIds <- MCProbeIds
    NumModules = 3
    UnknownNames <- MCUnknownNames
SPECIFICATION Spec
INVARIANT UnreachableCannotStart
CHECK_DEADLOCK FALSE
