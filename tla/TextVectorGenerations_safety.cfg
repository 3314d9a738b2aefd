SPECIFICATION Spec
CONSTANTS
    Videos = {v1, v2}
    MaxAttempts = 2
    MaxFaults = 3
    BatchSize = 1
    ScanLimit = 1
    StartupLimit = 1
    MaxBatch = 2
SYMMETRY VideoSymmetry
INVARIANTS
    TypeOK
    TablesAgree
    StorageFollowsTables
    RetriesAreUnblocked
PROPERTIES
    ImplementsGenerationLife
