CONSTANTS
    Nil = Nil
    Generations = {g1, g2}
    VideoOf <- MCVideoOf
    Tokens = {t1}
    Errors = {e1}
    MaxAttempt = 0
    MaxBackoff = 0
    Retention = 1
    Calls = {"r", "s"}
    Contents = {"a", "b"}
    LighthouseBounds <- MCLighthouseBounds
    IndexBuilds = {"b", "c"}
    Aliases = {"t", "u"}
    OtherVideos = 1
    IndexerCrashes = 1
    Videos = {"v"}
    Plans <- EachPlan
    SearchBounds <- MCSearchBounds
    PinnedOutcomes <- Complete
    PinnedProviders <- AllProviders
    PinnedReleases = 1
    PinnedBroken = 1
    MaxHarm = 1
SPECIFICATION GroupSpec
INVARIANTS
    CollectedIsNotPublished ReceiptsDescribeTheirVideo
    RowsNameWholeArtifacts AnswersAreOfOneRelease CertifiedAnswersHold
PROPERTIES
    ImplementsGenerationLife
CHECK_DEADLOCK FALSE
