SPECIFICATION FairSpec
CONSTANTS
    Videos = {v1}
    MaxAttempts = 2
    MaxFaults = 2
    BatchSize = 1
    ScanLimit = 1
    StartupLimit = 1
    MaxBatch = 2
PROPERTIES
    GarbageIsCollected
    BuildsAreAdmitted
    AbandonedBuildsEnd

