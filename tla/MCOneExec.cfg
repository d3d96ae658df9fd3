CONSTANTS
    ListLimit = 1
    Environments <- MCEnvironments
    CredentialPaths <- MCCredentialPaths
    Readable <- MCReadable
    Listed <- MCListed
    Writable <- MCWritable
    Sockets <- MCSockets
    Worlds <- MCWorlds
    Pids <- MCPids
    ScanLimit = 2
    MaxChurn = 1
    C2Names <- MCC2Names
    ConfigFiles <- MCConfigFiles
    Networks <- MCNetworks
    MaxChanges = 1
SPECIFICATION Spec
INVARIANTS TypeOK CleanMeansNoCredentials CountsAddUp CleanMeansConfined ForeignCountIsReal
    FailedRemovalIsTold CleanMeansContained OpenedIsReported EndpointIsAttempted
PROPERTY KeepsPromise
CHECK_DEADLOCK FALSE
