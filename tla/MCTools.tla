------------------------------ MODULE MCTools -------------------------------
(***************************************************************************)
(* The programs beside the server: the snapshot of a vector store that is  *)
(* being written to (StorageSnapshot, which this module extends), a run of *)
(* the benchmark with its environment, the registry of such runs, the      *)
(* batch that starts workers for the runs of a regression, and the store   *)
(* behind the review of annotations.                                       *)
(*                                                                         *)
(* The parts share no variable, so a behaviour of this module is one of a  *)
(* single instance, named by `of', and every other part stays as it began. *)
(***************************************************************************)
EXTENDS StorageSnapshot

CONSTANTS
    Parts,  \* the instances whose behaviours are checked
    Nil,    \* the null of the parts that take one
    FaultyContents, FaultyEntries, FaultyAttempts,      \* of the faulty snapshot
    FaultyChanges, FaultyFaults,
    Kinds, CloseAttempts, Modes,                        \* of the benchmark
    Runs, Clients, MaxFailures, MaxStops, MaxDamage,    \* of the registry
    IngestOnly, Retrieval, StartOrder, NProfiles,       \* of the batch
    Inputs, ProfileInputs, SlowKills, MaxInterrupts,
    Servers, Extras, MaxExtra, MaxSaves, MaxReviewFaults  \* of the review

MCDirOf == [f \in Files |-> IF f = "f1" THEN Root ELSE "sub"]
MCStartOrder == <<"vision_index", "vision">>

VARIABLES
    of,  \* the instance that moves in this behaviour
    faultySrc, faultyStamp, faultyClock, faultyPc, faultyPass, faultyDir,
    faultyTodo, faultyFile, faultySeen, faultyAtStart, faultyCopy, faultyMade,
    faultyName, faultyDisk, faultyTries, faultyFaults, faultyMid,
    runPc, runOpen, runCopy, runRaised, runContext, runAt, runFailed, runCancelled,
    runAttempts, runExit, runSignals, runAltered, runGaveUp, runMode, runMeasuring,
    runMeasured, runEvidence, runOutcome, runEdited, runPublished,
    registryDirs, registryIndex, registryCould, registryLock, registryPc,
    registryRun, registryNew, registryUnsure, registryUnsynced, registryAcked,
    registryRebuilt, registryDenied, registryReturned, registryTouched,
    registryCorrupted, registryFaults, registryStops, registryDamage,
    batchPc, batchProc, batchForeign, batchOwned, batchBound, batchPending,
    batchTargets, batchFailed, batchPrimary, batchPublished, batchReceipt,
    batchChanged, batchTainted, batchCut, batchInterrupts,
    reviewDirs, reviewFiles, reviewSynced, reviewWork, reviewAcked, reviewVanished,
    reviewSaves, reviewFaults

faultyVars ==
    <<faultySrc, faultyStamp, faultyClock, faultyPc, faultyPass, faultyDir,
      faultyTodo, faultyFile, faultySeen, faultyAtStart, faultyCopy, faultyMade,
      faultyName, faultyDisk, faultyTries, faultyFaults, faultyMid>>
runVars ==
    <<runPc, runOpen, runCopy, runRaised, runContext, runAt, runFailed,
      runCancelled, runAttempts, runExit, runSignals, runAltered, runGaveUp,
      runMode, runMeasuring, runMeasured, runEvidence, runOutcome, runEdited,
      runPublished>>
registryVars ==
    <<registryDirs, registryIndex, registryCould, registryLock, registryPc,
      registryRun, registryNew, registryUnsure, registryUnsynced, registryAcked,
      registryRebuilt, registryDenied, registryReturned, registryTouched,
      registryCorrupted, registryFaults, registryStops, registryDamage>>
batchVars ==
    <<batchPc, batchProc, batchForeign, batchOwned, batchBound, batchPending,
      batchTargets, batchFailed, batchPrimary, batchPublished, batchReceipt,
      batchChanged, batchTainted, batchCut, batchInterrupts>>
reviewVars ==
    <<reviewDirs, reviewFiles, reviewSynced, reviewWork, reviewAcked, reviewVanished,
      reviewSaves, reviewFaults>>

FaultySnapshot == INSTANCE StorageSnapshot WITH
    Files <- Files, Subdirs <- Subdirs, Root <- Root, DirOf <- DirOf,
    Contents <- FaultyContents, MaxEntries <- FaultyEntries,
    Attempts <- FaultyAttempts, MaxClock <- FaultyChanges, MaxFaults <- FaultyFaults,
    src <- faultySrc, stamp <- faultyStamp, clock <- faultyClock, pc <- faultyPc,
    pass <- faultyPass, dir <- faultyDir, todo <- faultyTodo, file <- faultyFile,
    seen <- faultySeen, atStart <- faultyAtStart, copy <- faultyCopy,
    made <- faultyMade, name <- faultyName, disk <- faultyDisk,
    tries <- faultyTries, faults <- faultyFaults, mid <- faultyMid
Run == INSTANCE BenchmarkRun WITH
    None <- Nil, Kinds <- Kinds, CloseAttempts <- CloseAttempts, Modes <- Modes,
    pc <- runPc, open <- runOpen, copy <- runCopy, raised <- runRaised,
    context <- runContext, at <- runAt, failed <- runFailed,
    cancelled <- runCancelled, attempts <- runAttempts, exit <- runExit,
    signals <- runSignals, altered <- runAltered, gaveUp <- runGaveUp,
    mode <- runMode, measuring <- runMeasuring, measured <- runMeasured,
    evidence <- runEvidence, outcome <- runOutcome, edited <- runEdited,
    published <- runPublished
Registry == INSTANCE RunRegistry WITH
    Runs <- Runs, Clients <- Clients, None <- Nil, MaxFaults <- MaxFailures,
    MaxStops <- MaxStops, MaxDamage <- MaxDamage,
    dirs <- registryDirs, index <- registryIndex, could <- registryCould,
    lock <- registryLock, pc <- registryPc, run <- registryRun, new <- registryNew,
    unsure <- registryUnsure, unsynced <- registryUnsynced, acked <- registryAcked,
    rebuilt <- registryRebuilt, denied <- registryDenied,
    returned <- registryReturned, touched <- registryTouched,
    corrupted <- registryCorrupted, faults <- registryFaults,
    stops <- registryStops, damage <- registryDamage
Batch == INSTANCE RegressionBatch WITH
    IngestOnly <- IngestOnly, Retrieval <- Retrieval, StartOrder <- StartOrder,
    NProfiles <- NProfiles, Inputs <- Inputs, ProfileInputs <- ProfileInputs,
    SlowKills <- SlowKills, MaxInterrupts <- MaxInterrupts,
    pc <- batchPc, proc <- batchProc, foreign <- batchForeign, owned <- batchOwned,
    bound <- batchBound, pending <- batchPending, targets <- batchTargets,
    failed <- batchFailed, primary <- batchPrimary, published <- batchPublished,
    receipt <- batchReceipt, changed <- batchChanged, tainted <- batchTainted,
    cut <- batchCut, interrupts <- batchInterrupts
Review == INSTANCE AnnotationReview WITH
    Servers <- Servers, Extras <- Extras, MaxExtra <- MaxExtra,
    MaxSaves <- MaxSaves, MaxFaults <- MaxReviewFaults,
    dirs <- reviewDirs, files <- reviewFiles, synced <- reviewSynced,
    work <- reviewWork, acked <- reviewAcked, vanished <- reviewVanished,
    saves <- reviewSaves, faults <- reviewFaults

ASSUME FaultyAssumption ==
    /\ FaultyContents # {} /\ None \notin FaultyContents
    /\ {FaultyEntries, FaultyAttempts, FaultyChanges, FaultyFaults} \subseteq Nat
    /\ FaultyAttempts > 0
ASSUME RunAssumption == Run!ConstantsAssumption /\ Run!ModesAssumption
ASSUME RegistryAssumption == Registry!ConstantsAssumption
ASSUME BatchAssumption == Batch!ConstantsAssumption
ASSUME ReviewAssumption == Review!ConstantsAssumption

AbsentFaulty ==
    /\ faultySrc = Nil /\ faultyStamp = Nil /\ faultyClock = Nil
    /\ faultyPc = Nil /\ faultyPass = Nil /\ faultyDir = Nil /\ faultyTodo = Nil
    /\ faultyFile = Nil /\ faultySeen = Nil /\ faultyAtStart = Nil
    /\ faultyCopy = Nil /\ faultyMade = Nil /\ faultyName = Nil
    /\ faultyDisk = Nil /\ faultyTries = Nil /\ faultyFaults = Nil
    /\ faultyMid = Nil

AbsentRun ==
    /\ runPc = Nil /\ runOpen = Nil /\ runCopy = Nil /\ runRaised = Nil
    /\ runContext = Nil /\ runAt = Nil /\ runFailed = Nil /\ runCancelled = Nil
    /\ runAttempts = Nil /\ runExit = Nil /\ runSignals = Nil /\ runAltered = Nil
    /\ runGaveUp = Nil /\ runMode = Nil /\ runMeasuring = Nil
    /\ runMeasured = Nil /\ runEvidence = Nil /\ runOutcome = Nil
    /\ runEdited = Nil /\ runPublished = Nil

GroupInit ==
    /\ of \in Parts
    /\ Init
    /\ IF of = "FaultySnapshot" THEN FaultySnapshot!Init ELSE AbsentFaulty
    /\ IF of = "Run" THEN Run!Init ELSE AbsentRun
    /\ Registry!Init
    /\ Batch!Init
    /\ Review!Init
    \* A part that does not move need not begin in every way it can.
    /\ of # "Snapshot" => \A f \in Files : src[f] = None
    /\ of # "Review" => \A d \in Review!Directories : reviewDirs[d] = "absent"

\* The parts of the other instances stay as they began.
Others(p) ==
    /\ UNCHANGED of
    /\ IF p = "Snapshot" THEN TRUE ELSE UNCHANGED vars
    /\ IF p = "faulty" THEN TRUE ELSE UNCHANGED faultyVars
    /\ IF p = "run" THEN TRUE ELSE UNCHANGED runVars
    /\ IF p = "registry" THEN TRUE ELSE UNCHANGED registryVars
    /\ IF p = "batch" THEN TRUE ELSE UNCHANGED batchVars
    /\ IF p = "review" THEN TRUE ELSE UNCHANGED reviewVars

SnapshotStep == of = "Snapshot" /\ Next /\ Others("Snapshot")
FaultySnapshotStep == of = "FaultySnapshot" /\ FaultySnapshot!Next /\ Others("faulty")
RunStep == of = "Run" /\ Run!Next /\ Others("run")
RegistryStep == of = "Registry" /\ Registry!Next /\ Others("registry")
BatchStep == of = "Batch" /\ Batch!Next /\ Others("batch")
ReviewStep == of = "Review" /\ Review!Next /\ Others("review")

GroupNext ==
    \/ SnapshotStep \/ FaultySnapshotStep \/ RunStep \/ RegistryStep \/ BatchStep
    \/ ReviewStep

groupVars ==
    <<of, vars, faultyVars, runVars, registryVars, batchVars, reviewVars>>
GroupSpec == GroupInit /\ [][GroupNext]_groupVars
-----------------------------------------------------------------------------
\* A program that fails or is stopped gives back what it took: a snapshot that
\* ends by an error, and reports no failed cleanup beside it, has left no directory
\* (an interrupt is another matter: it skips that cleanup, snapshots.py 1726); a
\* benchmark that did not give up closing has closed its whole environment; a batch
\* leaves no worker process unless stopping one failed or an interrupt cut it short
\* (managed_workers.py 144-169).
NothingIsLeftBehind ==
    /\ of = "FaultySnapshot" => FaultySnapshot!NothingLeftBehind
    /\ of = "Run" => Run!NothingLeft
    /\ Batch!NoOrphans

\* What a call acknowledged stays, whatever other processes do, at whatever step they
\* are killed, and through losses of power (add, save): a run the registry added, below
\* a root whose own entry is durable, keeps its entry and its manifest until somebody
\* damages it; an answer of a reviewer keeps its revision, unless it was acknowledged
\* before annotations itself had been synced and the power takes that directory.
AcknowledgedIsKept ==
    /\ Registry!AckedIsKept
    /\ Review!AckedKept

\* A run in the registry was complete, measured by a session that was closed, used
\* a model copy nobody had changed and the code it names, and every resource had
\* been given back first; a batch has a receipt only if all of it ran on the inputs
\* the receipt names and no worker is left (cli.py, the batch).
PublishedIsSound ==
    /\ of = "Run" => Run!PublishedIsSound
    /\ Batch!SameInputs /\ Batch!ReceiptMeansStopped
=============================================================================
