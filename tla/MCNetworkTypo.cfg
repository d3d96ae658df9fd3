CONSTANTS
    ListLimit = 1
    C2Names <- MCC2Names
    ConfigFiles <- MCConfigFiles
    Networks <- MCNetworks
    MaxChanges = 1
SPECIFICATION NetworkSpec
INVARIANT ConfiguredHostIsTried
CHECK_DEADLOCK FALSE
