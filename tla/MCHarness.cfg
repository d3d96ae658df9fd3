CONSTANTS
    ProbeIds <- MCProbeIds
    NumModules = 3
    UnknownNames <- MCUnknownNames
SPECIFICATION Spec
INVARIANTS TypeOK ContainedIsEarned ReadersAgree NothingFoundIsLost FindingsAreMeasured
PROPERTY AsksOnce
CHECK_DEADLOCK FALSE
