CONSTANTS
    Parts = {"Tables", "Upgrade", "Identity", "Adoption", "Media"}
    Nil = Nil
    Videos = {"v1"}
    Works = {"w1"}
    VideoOf <- MCVideoOf
    Kinds = {"visual_dense", "lighthouse"}
    TableOf <- MCTableOf
    Specs = {"s1", "s2", "other"}
    KindOf <- MCKindOf
    SpecOf <- MCSpecOf
    Tokens = {"t1"}
    GenNames = {"n", "m"}
    MaxJobs = 1
    MaxRuns = 2
    Openers = {"o", "p"}
    Readers = {"q"}
    Generations = {"g"}
    OwnerOf <- MCOwnerOf
    Leases = {"t"}
    Errors = {"transient", "permanent", "legacy"}
    Transient = {"transient"}
    Legacy = "legacy"
    MaxAttempt = 3
    V7Limit = 2
    MaxBackoff = 1
    Retention = 1
    Databases <- MCDatabases
    Callers = {"a", "z"}
    Elsewhere = {"z"}
    Contents <- MCContents
    MaxChanges = 2
    NVideos = 5
    WithAsset = {1, 2, 3, 4, 5}
    Batch = 2
    MaxBatches = 2
    NPlans = 2
    Uploads = {"u"}
    Exports = {"x", "y"}
    MaxNames = 3
    MaxFaults = 2
SPECIFICATION GroupSpec
INVARIANTS
    ReleasedIsCommitted WorkIsKept FilesAreWhatRowsSay
PROPERTIES
    CompletedWithReceipts
CHECK_DEADLOCK FALSE
