CONSTANTS
    MaxAttempts = 2
    Ceiling = 4
    Unlimited = 4
    Setups <- MCSetups
    MaxRuns = 3
SPECIFICATION Spec
INVARIANTS TypeOK PersistsIsTruthful CleanMeansDisposed LeftMarkerIsAnError CapsAreTold
PROPERTY EveryRunEnds
CHECK_DEADLOCK FALSE
