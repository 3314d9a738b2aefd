------------------------------ MODULE MCServer ------------------------------
(***************************************************************************)
(* The processes of a running installation: the sessions that own the data *)
(* directory (RuntimeLifecycle, extended here), the model workers with     *)
(* their clients, the OCR child and the text embedding.                    *)
(*                                                                         *)
(* The parts share no variable, so a behaviour of this module is one of a  *)
(* single part, named by `of', and every other part stays as it began.     *)
(* The vision worker is a part once for each of its VisionBounds: a second *)
(* permit and a client that is refused for want of one need not meet.      *)
(***************************************************************************)
EXTENDS RuntimeLifecycle

CONSTANTS
    Nil,               \* the null of the parts that take one, and of absent ones
    Indexer, Searchers,        \* clients of the vision worker
    Requests,          \* bound: requests under way at a worker, orphans included
    Contents,          \* what an image and a media file may contain
    VisionBounds,      \* [permits, rewrites]: permits of the vision worker, rewrites
                       \* of the image
    WhisperWorkers, Dirs, Copies,
    MediaRewrites, WhisperCrashes, WhisperFailures,
    Reranks, Clips,            \* searches that rerank, and cache keys of their clips
    QwenPermits, ClipRewrites, QwenFaults,
    Stages, Children, MaxReads, MaxChanges,    \* of the OCR reader
    Threads, MaxDrifts                         \* of the text embedding

MCVisionBounds == {[permits |-> 2, rewrites |-> 1], [permits |-> 1, rewrites |-> 1]}

VARIABLES
    of,  \* the instance that moves in this behaviour
    visionSlot, visionPermits, visionHolder, visionLoaded, visionUnhealthy,
    visionFile, visionClient,
    whisperRootLock, whisperDir, whisperWorker, whisperRequest, whisperModel,
    whisperMedia, whisperCrashes, whisperFailures,
    qwenSearch, qwenFound, qwenClip, qwenSlot, qwenPermits, qwenHolder, qwenResidue,
    qwenHealthy, qwenCache, qwenFaults,
    ocrStage, ocrLock, ocrTracked, ocrPending, ocrBundle, ocrChild, ocrBundles,
    ocrFrames, ocrModels, ocrCurrent, ocrChanges,
    embeddingReviewed, embeddingModel, embeddingAttempted, embeddingValidated,
    embeddingFailed, embeddingClosing, embeddingClosed, embeddingLock,
    embeddingCall, embeddingCloser, embeddingScratch, embeddingObserved,
    embeddingDrifts

visionVars ==
    <<visionSlot, visionPermits, visionHolder, visionLoaded, visionUnhealthy,
      visionFile, visionClient>>
whisperVars ==
    <<whisperRootLock, whisperDir, whisperWorker, whisperRequest, whisperModel,
      whisperMedia, whisperCrashes, whisperFailures>>
qwenVars ==
    <<qwenSearch, qwenFound, qwenClip, qwenSlot, qwenPermits, qwenHolder,
      qwenResidue, qwenHealthy, qwenCache, qwenFaults>>
ocrVars ==
    <<ocrStage, ocrLock, ocrTracked, ocrPending, ocrBundle, ocrChild, ocrBundles,
      ocrFrames, ocrModels, ocrCurrent, ocrChanges>>
embeddingVars ==
    <<embeddingReviewed, embeddingModel, embeddingAttempted, embeddingValidated,
      embeddingFailed, embeddingClosing, embeddingClosed, embeddingLock,
      embeddingCall, embeddingCloser, embeddingScratch, embeddingObserved,
      embeddingDrifts>>

Vision(b) == INSTANCE VisionWorker WITH
    MaxConcurrency <- b.permits, Slots <- Requests, MaxRewrites <- b.rewrites,
    slot <- visionSlot, permits <- visionPermits, holder <- visionHolder,
    loaded <- visionLoaded, unhealthy <- visionUnhealthy, file <- visionFile,
    client <- visionClient
Whisper == INSTANCE WhisperWorker WITH
    Workers <- WhisperWorkers, MaxRewrites <- MediaRewrites,
    MaxCrashes <- WhisperCrashes, MaxFailures <- WhisperFailures,
    rootLock <- whisperRootLock, dir <- whisperDir, worker <- whisperWorker,
    request <- whisperRequest, model <- whisperModel, media <- whisperMedia,
    crashes <- whisperCrashes, failures <- whisperFailures
Qwen == INSTANCE QwenWorker WITH
    Searches <- Reranks, Slots <- Requests, MaxConcurrency <- QwenPermits,
    MaxRewrites <- ClipRewrites, MaxFaults <- QwenFaults,
    search <- qwenSearch, found <- qwenFound, clip <- qwenClip, slot <- qwenSlot,
    permits <- qwenPermits, holder <- qwenHolder, residue <- qwenResidue,
    healthy <- qwenHealthy, cache <- qwenCache, faults <- qwenFaults
Ocr == INSTANCE PaddleOcr WITH
    stage <- ocrStage, lock <- ocrLock, tracked <- ocrTracked,
    pending <- ocrPending, bundle <- ocrBundle, child <- ocrChild,
    bundles <- ocrBundles, frames <- ocrFrames, models <- ocrModels,
    current <- ocrCurrent, changes <- ocrChanges
Embedding == INSTANCE ReviewedEmbedding WITH
    None <- Nil,
    reviewed <- embeddingReviewed, model <- embeddingModel,
    attempted <- embeddingAttempted, validated <- embeddingValidated,
    failed <- embeddingFailed, closing <- embeddingClosing,
    closed <- embeddingClosed, lock <- embeddingLock, call <- embeddingCall,
    closer <- embeddingCloser, scratch <- embeddingScratch,
    observed <- embeddingObserved, drifts <- embeddingDrifts

ASSUME VisionAssumption == \A b \in VisionBounds : Vision(b)!WorkerAssumption
ASSUME WhisperAssumption == Whisper!WhisperAssumption
ASSUME QwenAssumption == Qwen!QwenAssumption
ASSUME OcrAssumption == Ocr!OcrAssumption
ASSUME EmbeddingAssumption == Embedding!ConstantsAssumption

Parts ==
    {<<p, Nil>> : p \in {"Runtime", "Whisper", "Qwen", "Ocr", "Embedding"}}
    \cup {<<"Vision", b>> : b \in VisionBounds}

AbsentVision ==
    /\ visionSlot = Nil /\ visionPermits = Nil /\ visionHolder = Nil
    /\ visionLoaded = Nil /\ visionUnhealthy = Nil /\ visionFile = Nil
    /\ visionClient = Nil

\* Contents are interchangeable, so a file may begin with any of them.
First == CHOOSE c \in Contents : TRUE

GroupInit ==
    /\ of \in Parts
    /\ Init
    /\ IF of[1] = "Vision"
       THEN \E b \in VisionBounds :
               of = <<"Vision", b>> /\ Vision(b)!Init /\ visionFile.content = First
       ELSE AbsentVision
    /\ Whisper!Init /\ whisperMedia.content = First
    /\ Qwen!Init
    /\ Ocr!Init
    /\ Embedding!Init

\* The other parts stay as they began.
Others(p) ==
    /\ UNCHANGED of
    /\ IF p = "Runtime" THEN TRUE ELSE UNCHANGED vars
    /\ IF p = "Vision" THEN TRUE ELSE UNCHANGED visionVars
    /\ IF p = "Whisper" THEN TRUE ELSE UNCHANGED whisperVars
    /\ IF p = "Qwen" THEN TRUE ELSE UNCHANGED qwenVars
    /\ IF p = "Ocr" THEN TRUE ELSE UNCHANGED ocrVars
    /\ IF p = "Embedding" THEN TRUE ELSE UNCHANGED embeddingVars

RuntimeStep == of[1] = "Runtime" /\ Next /\ Others("Runtime")
VisionStep ==
    \E b \in VisionBounds : of = <<"Vision", b>> /\ Vision(b)!Next /\ Others("Vision")
WhisperStep == of[1] = "Whisper" /\ Whisper!Next /\ Others("Whisper")
QwenStep == of[1] = "Qwen" /\ Qwen!Next /\ Others("Qwen")
OcrStep == of[1] = "Ocr" /\ Ocr!Next /\ Others("Ocr")
EmbeddingStep == of[1] = "Embedding" /\ Embedding!Next /\ Others("Embedding")

GroupNext ==
    \/ RuntimeStep \/ VisionStep \/ WhisperStep \/ QwenStep \/ OcrStep \/ EmbeddingStep

groupVars ==
    <<of, vars, visionVars, whisperVars, qwenVars, ocrVars, embeddingVars>>
GroupSpec == GroupInit /\ [][GroupNext]_groupVars
-----------------------------------------------------------------------------
\* What a model worker answers is of the bytes whose digest its client named,
\* and of no earlier request, although images, media and clips are replaced while
\* they are hashed, copied and read (vision, whisper and qwen workers).
EvidenceIsExact ==
    /\ \A b \in VisionBounds : of = <<"Vision", b>> => Vision(b)!EvidenceIsExact
    /\ Whisper!TranscriptIsExact
    /\ Qwen!JudgementsAreExact

\* Nothing an inference uses is taken away from it: not the vision model by a
\* release or another client, not the copy of the media by the start or the end of
\* a worker, not the text model by a close.
InUseStays ==
    /\ \A b \in VisionBounds : of = <<"Vision", b>> => Vision(b)!ModelInUseStays
    /\ Whisper!CopyOutlivesInference
    /\ Embedding!InUseIsThere

\* A copy of a user's media lies only where a later start of the whisper worker
\* recognises and removes it, whenever a worker is killed.
CopiesAreReclaimable == Whisper!CopiesAreReclaimable

\* An OCR child that lives is the reader's, or the holder of the lock is about to
\* accept or to end it, and its bundle is on disk: a failed kill leaves none untracked.
\* Only one whose hello could not be waited for is lost while it runs.
LiveChildrenAreOwned == Ocr!LiveChildrenAreOwned
=============================================================================
