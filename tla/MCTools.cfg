CONSTANTS
    Parts = {"Snapshot", "FaultySnapshot", "Run", "Registry", "Batch",
             "Review"}
    Nil = Nil
    Files = {"f1", "f2"}
    Subdirs = {"sub"}
    Root = "root"
    DirOf <- MCDirOf
    Contents = {"c1", "c2"}
    MaxEntries = 3
    Attempts = 2
    MaxClock = 3
    MaxFaults = 0
    FaultyContents = {"c"}
    FaultyEntries = 2
    FaultyAttempts = 3
    FaultyChanges = 1
    FaultyFaults = 5
    Kinds = {"error", "interrupt", "termination"}
    CloseAttempts = 2
    Modes = {"run", "preflight"}
    Runs = {"r"}
    Clients = {"a", "b"}
    MaxFailures = 1
    MaxStops = 1
    MaxDamage = 1
    IngestOnly = {"vision_index"}
    Retrieval = {"vision"}
    StartOrder <- MCStartOrder
    NProfiles = 2
    Inputs = {"code", "policy"}
    ProfileInputs = {"code"}
    SlowKills = TRUE
    MaxInterrupts = 2
    Servers = {"s", "t"}
    Extras = {"e"}
    MaxExtra = 1
    MaxSaves = 4
    MaxReviewFaults = 2
SPECIFICATION GroupSpec
INVARIANTS
    OneMoment NothingIsLeftBehind AcknowledgedIsKept PublishedIsSound
CHECK_DEADLOCK FALSE
