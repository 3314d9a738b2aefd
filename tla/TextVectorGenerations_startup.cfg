SPECIFICATION FairSpec
CONSTANTS
    Videos = {v1, v2}
    MaxAttempts = 2
    MaxFaults = 2
    BatchSize = 1
    ScanLimit = 1
    StartupLimit = 1
    MaxBatch = 1
PROPERTIES
    StartupCompletes
