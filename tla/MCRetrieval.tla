---------------------------- MODULE MCRetrieval -----------------------------
(***************************************************************************)
(* What searches read and how it comes to be: the tables behind the text   *)
(* vectors (VectorSchema, extended here), the Lighthouse worker, the files *)
(* an indexing derives from a video, a search against a catalogue that     *)
(* moves, and the pinned searches of a benchmark.                          *)
(*                                                                         *)
(* The parts share no variable, so a behaviour of this module is one of a  *)
(* single part, named by `of', and every other part stays as it began.     *)
(* The Lighthouse worker and the search are a part once for each of their  *)
(* bounds, which set apart the troubles that need not meet.                *)
(***************************************************************************)
EXTENDS VectorSchema

CONSTANTS
    Nil,               \* the value of the variables of absent parts
    Calls, Contents,
    LighthouseBounds,  \* [windows, replaced, rewritten, crashes]
    IndexBuilds, Aliases, OtherVideos, IndexerCrashes,
    Videos, Plans,
    SearchBounds,      \* [outcomes, providers, releases, broken]
    PinnedOutcomes, PinnedProviders, PinnedReleases, PinnedBroken, MaxHarm

MCVideoOf == [g \in Generations |-> "v"]

MCLighthouseBounds ==
    {[windows |-> 2, replaced |-> 2, rewritten |-> 0, crashes |-> 0],
     [windows |-> 1, replaced |-> 0, rewritten |-> 1, crashes |-> 1]}

MCFiles == {"visual", "moment"}
MCKinds == {"speech", "ocr", "text"} \cup MCFiles

\* A job succeeds, lacks its text vectors, or has nothing but text.
Complete == {MCKinds}
Varied   == {MCKinds, MCKinds \ {"text"}, {"speech", "text"}}
EachPlan == {{}, {"visual"}, MCFiles}

\* Evidence comes and goes within one release, or providers of files do between two.
MCSearchBounds ==
    {[outcomes |-> Varied, providers |-> {MCFiles}, releases |-> 1, broken |-> 1],
     [outcomes |-> Complete, providers |-> SUBSET MCFiles, releases |-> 2, broken |-> 0]}
AllProviders == {MCFiles}

VARIABLES
    of,  \* the instance that moves in this behaviour
    lighthouseSource, lighthouseCall, lighthouseClient, lighthouseGen,
    lighthouseActive, lighthousePermit, lighthouseLatest, lighthouseReceipt,
    lighthouseFaults,
    artifactsSource, artifactsRestored, artifactsBuild, artifactsDir,
    artifactsFiles, artifactsAlias, artifactsRows, artifactsRunning,
    artifactsUntidy, artifactsCrashes,
    searchStatus, searchJobs, searchActive, searchInputs, searchStored,
    searchPointer, searchBroken, searchProvided, searchLast, searchPast, searchQ,
    pinnedStatus, pinnedJobs, pinnedActive, pinnedInputs, pinnedStored,
    pinnedPointer, pinnedBroken, pinnedProvided, pinnedLast, pinnedPast,
    pinnedMedia, pinnedDecayed, pinnedS, pinnedAttested, pinnedSpoiled

lighthouseVars ==
    <<lighthouseSource, lighthouseCall, lighthouseClient, lighthouseGen,
      lighthouseActive, lighthousePermit, lighthouseLatest, lighthouseReceipt,
      lighthouseFaults>>
artifactsVars ==
    <<artifactsSource, artifactsRestored, artifactsBuild, artifactsDir,
      artifactsFiles, artifactsAlias, artifactsRows, artifactsRunning,
      artifactsUntidy, artifactsCrashes>>
searchVars ==
    <<searchStatus, searchJobs, searchActive, searchInputs, searchStored,
      searchPointer, searchBroken, searchProvided, searchLast, searchPast, searchQ>>
pinnedVars ==
    <<pinnedStatus, pinnedJobs, pinnedActive, pinnedInputs, pinnedStored,
      pinnedPointer, pinnedBroken, pinnedProvided, pinnedLast, pinnedPast,
      pinnedMedia, pinnedDecayed, pinnedS, pinnedAttested, pinnedSpoiled>>

Lighthouse(b) == INSTANCE LighthouseWorker WITH
    Windows <- b.windows, MaxReplaced <- b.replaced, MaxRewritten <- b.rewritten,
    MaxCrashes <- b.crashes,
    source <- lighthouseSource, call <- lighthouseCall, client <- lighthouseClient,
    gen <- lighthouseGen, active <- lighthouseActive, permit <- lighthousePermit,
    latest <- lighthouseLatest, receipt <- lighthouseReceipt,
    faults <- lighthouseFaults
Artifacts == INSTANCE MediaArtifacts WITH
    Builds <- IndexBuilds,
    OtherContents <- OtherVideos, MaxCrashes <- IndexerCrashes,
    source <- artifactsSource, restored <- artifactsRestored,
    build <- artifactsBuild, dir <- artifactsDir, files <- artifactsFiles,
    alias <- artifactsAlias, rows <- artifactsRows,
    running <- artifactsRunning, untidy <- artifactsUntidy,
    crashes <- artifactsCrashes
Search(b) == INSTANCE ProductSearch WITH
    Outcomes <- b.outcomes, Providers <- b.providers, MaxReleases <- b.releases,
    MaxBroken <- b.broken,
    status <- searchStatus, jobs <- searchJobs, active <- searchActive,
    inputs <- searchInputs, stored <- searchStored, pointer <- searchPointer,
    broken <- searchBroken, provided <- searchProvided, last <- searchLast,
    past <- searchPast, q <- searchQ
Pinned == INSTANCE PinnedSession WITH
    Outcomes <- PinnedOutcomes, Providers <- PinnedProviders,
    MaxReleases <- PinnedReleases, MaxBroken <- PinnedBroken,
    status <- pinnedStatus, jobs <- pinnedJobs, active <- pinnedActive,
    inputs <- pinnedInputs, stored <- pinnedStored, pointer <- pinnedPointer,
    broken <- pinnedBroken, provided <- pinnedProvided, last <- pinnedLast,
    past <- pinnedPast, media <- pinnedMedia, decayed <- pinnedDecayed,
    s <- pinnedS, attested <- pinnedAttested, spoiled <- pinnedSpoiled

ASSUME LighthouseAssumption ==
    \A b \in LighthouseBounds : Lighthouse(b)!LighthouseAssumption
ASSUME ArtifactsAssumption == Artifacts!ArtifactsAssumption
ASSUME SearchAssumption ==
    \A b \in SearchBounds : Search(b)!CatalogAssumption /\ Search(b)!PlansAssumption
ASSUME PinnedAssumption == Pinned!CatalogAssumption

Parts ==
    {<<p, Nil>> : p \in {"Tables", "Artifacts", "Pinned"}}
    \cup {<<"Lighthouse", b>> : b \in LighthouseBounds}
    \cup {<<"Search", b>> : b \in SearchBounds}

AbsentLighthouse ==
    /\ lighthouseSource = Nil /\ lighthouseCall = Nil /\ lighthouseClient = Nil
    /\ lighthouseGen = Nil /\ lighthouseActive = Nil /\ lighthousePermit = Nil
    /\ lighthouseLatest = Nil /\ lighthouseReceipt = Nil /\ lighthouseFaults = Nil

AbsentSearch ==
    /\ searchStatus = Nil /\ searchJobs = Nil /\ searchActive = Nil
    /\ searchInputs = Nil /\ searchStored = Nil /\ searchPointer = Nil
    /\ searchBroken = Nil /\ searchProvided = Nil /\ searchLast = Nil
    /\ searchPast = Nil /\ searchQ = Nil

AbsentPinned ==
    /\ pinnedStatus = Nil /\ pinnedJobs = Nil /\ pinnedActive = Nil
    /\ pinnedInputs = Nil /\ pinnedStored = Nil /\ pinnedPointer = Nil
    /\ pinnedBroken = Nil /\ pinnedProvided = Nil /\ pinnedLast = Nil
    /\ pinnedPast = Nil /\ pinnedMedia = Nil /\ pinnedDecayed = Nil
    /\ pinnedS = Nil /\ pinnedAttested = Nil /\ pinnedSpoiled = Nil

\* Contents are interchangeable, so the video may begin with any of them.
First == CHOOSE c \in Contents : TRUE

GroupInit ==
    /\ of \in Parts
    /\ Init
    /\ IF of[1] = "Lighthouse"
       THEN \E b \in LighthouseBounds :
               /\ of = <<"Lighthouse", b>> /\ Lighthouse(b)!Init
               /\ lighthouseSource.content = First
       ELSE AbsentLighthouse
    /\ Artifacts!Init
    /\ IF of[1] = "Search"
       THEN \E b \in SearchBounds : of = <<"Search", b>> /\ Search(b)!Init
       ELSE AbsentSearch
    /\ IF of[1] = "Pinned" THEN Pinned!Init ELSE AbsentPinned

\* The other parts stay as they began.
Others(p) ==
    /\ UNCHANGED of
    /\ IF p = "Tables" THEN TRUE ELSE UNCHANGED vars
    /\ IF p = "Lighthouse" THEN TRUE ELSE UNCHANGED lighthouseVars
    /\ IF p = "Artifacts" THEN TRUE ELSE UNCHANGED artifactsVars
    /\ IF p = "Search" THEN TRUE ELSE UNCHANGED searchVars
    /\ IF p = "Pinned" THEN TRUE ELSE UNCHANGED pinnedVars

TablesStep == of[1] = "Tables" /\ Next /\ Others("Tables")
LighthouseStep ==
    \E b \in LighthouseBounds :
        of = <<"Lighthouse", b>> /\ Lighthouse(b)!Next /\ Others("Lighthouse")
ArtifactsStep == of[1] = "Artifacts" /\ Artifacts!Next /\ Others("Artifacts")
SearchStep ==
    \E b \in SearchBounds : of = <<"Search", b>> /\ Search(b)!Next /\ Others("Search")
PinnedStep == of[1] = "Pinned" /\ Pinned!Next /\ Others("Pinned")

GroupNext ==
    \/ TablesStep \/ LighthouseStep \/ ArtifactsStep \/ SearchStep \/ PinnedStep

groupVars ==
    <<of, vars, lighthouseVars, artifactsVars, searchVars, pinnedVars>>
GroupSpec == GroupInit /\ [][GroupNext]_groupVars
-----------------------------------------------------------------------------
\* A moment generation the backend has a receipt for is on disk, and every window
\* of it was encoded from the bytes the receipt names, however often the video was
\* replaced, and put back, meanwhile (build_inactive_generation).
ReceiptsDescribeTheirVideo ==
    \A b \in LighthouseBounds :
        of = <<"Lighthouse", b>> => Lighthouse(b)!ReceiptsDescribeTheirVideo

\* Scenes and dense vectors a row names are complete on disk, and the dense ones
\* were made of the content the database has the digest of, unless the video was
\* exchanged and put back between the two digests of its build.
RowsNameWholeArtifacts == Artifacts!RowsNameWholeArtifacts

\* What a search finds by meaning in one video belongs to one release and was
\* found with the vectors of that release; its frames and moments are those of
\* one state of the active pointers, although each is read at another moment.
AnswersAreOfOneRelease ==
    \A b \in SearchBounds : of = <<"Search", b>> =>
        /\ Search(b)!MeaningIsOfOneRelease
        /\ Search(b)!ExternalEvidenceIsOneRelease

\* A pinned session that certifies its answers gave none for a video whose media,
\* vectors or files had changed by then, although the changes leave size and times
\* as they were.
CertifiedAnswersHold == of[1] = "Pinned" => Pinned!CertifiedAnswersHold
=============================================================================
