CONSTANTS
    Nil = Nil
    Servers = {s1, s2}
    Tools = {t1}
    Indexer = "indexer"
    Searchers = {"search"}
    Requests = {"w1", "w2"}
    Contents = {"a", "b"}
    VisionBounds <- MCVisionBounds
    WhisperWorkers = {"w1", "w2"}
    Dirs = {"d1", "d2", "d3"}
    Copies = {"c"}
    MediaRewrites = 1
    WhisperCrashes = 2
    WhisperFailures = 1
    Reranks = {"r", "s"}
    Clips = {"k"}
    QwenPermits = 1
    ClipRewrites = 1
    QwenFaults = 1
    Stages = {"r", "s"}
    Children = {"p", "q"}
    MaxReads = 1
    MaxChanges = 1
    Threads = {"r", "s"}
    MaxDrifts = 1
SPECIFICATION GroupSpec
INVARIANTS
    SingleWriter EvidenceIsExact InUseStays CopiesAreReclaimable
    LiveChildrenAreOwned
PROPERTIES
    ImplementsDirectoryOwnership
CHECK_DEADLOCK FALSE
