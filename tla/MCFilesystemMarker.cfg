CONSTANTS
    ListLimit = 1
    Readable <- MCReadable
    Listed <- MCListed
    Writable <- MCWritable
    Sockets <- MCSockets
    Worlds <- MCWorlds
    Pids <- MCPids
    ScanLimit = 2
    MaxChurn = 1
SPECIFICATION FilesystemSpec
INVARIANT StrayMarkerIsReported
CHECK_DEADLOCK FALSE
