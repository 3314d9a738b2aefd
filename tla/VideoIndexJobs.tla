--------------------------- MODULE VideoIndexJobs ---------------------------
(***************************************************************************)
(* The durable video-index jobs of VideoScope: the rows of                 *)
(* video_index_jobs, stage_runs and the active_*_generations pointers in   *)
(* SQLite (repository.py), the transitions of one job (jobs.py), the       *)
(* dispatcher thread that claims and executes jobs (dispatcher.py,         *)
(* indexer.py) and the HTTP handlers that enqueue, cancel and retry        *)
(* (coordinator.py).  One action is one SQLite transaction, or one step of *)
(* the dispatcher thread between two transactions.                         *)
(*                                                                         *)
(* Abstractions.  A job is named by its sequence number.  A job makes at   *)
(* most one run of a stage, so the generation a stage run publishes is     *)
(* named by the job that published it; 0 is the absent generation.         *)
(* Progress values, timestamps and error codes are left out, and so is a   *)
(* checkpoint that succeeds: it changes nothing else.  The source of a     *)
(* video is immutable, so generations of one video share one source hash.  *)
(* Startup recovery is the one-row batch of the code (recovery_batch_size  *)
(* is at least 1); nothing else runs between two batches.                  *)
(* A job is claimed at most once, so its execution token is valid exactly  *)
(* while the job is running: the fence on the token is one on the state.   *)
(* ExclusiveRuntimeLock makes the process, hence its dispatcher thread,    *)
(* the only one working on the database.                                   *)
(***************************************************************************)
EXTENDS Naturals, Sequences, FiniteSets

CONSTANTS
    Videos,      \* video ids
    Plans,       \* VideoIndexPlanSnapshot identities
    Specs,       \* stage specification hashes
    SpecOf,      \* SpecOf[p][s]: the specification plan p pins for stage s
    StageOrder,  \* the stages of process_durable, in execution order
    MaxJobs,     \* bound: rows ever inserted in video_index_jobs
    MaxStarts,   \* bound: process starts; the last start is not interrupted
    MaxDamaged,  \* bound: job rows damaged from outside the program
    MaxLeft,     \* bound: refused endings of one process start
    ScanLimit    \* rows one claim examines

None == "none"

SegmentKinds  == {"scenes", "speech", "ocr", "objects"}
SemanticKinds == {"speech", "ocr", "objects"}
FrameKinds    == {"ocr", "objects"}      \* read the frames that scenes publishes
ExternalKinds == {"visual_dense", "lighthouse"}
AllKinds      == SegmentKinds \cup ExternalKinds \cup {"text_vectors"}

Stages   == {StageOrder[i] : i \in DOMAIN StageOrder}
Semantic == Stages \cap SemanticKinds

ASSUME ConstantsAssumption ==
    /\ StageOrder \in Seq(AllKinds)
    /\ {"scenes", "text_vectors"} \subseteq Stages
    /\ Plans # {} /\ SpecOf \in [Plans -> [Stages -> Specs]]
    /\ MaxJobs \in Nat /\ MaxStarts \in Nat
    /\ MaxDamaged \in Nat /\ MaxLeft \in Nat
    /\ ScanLimit \in Nat \ {0}
    /\ None \notin Videos /\ None \notin Plans

JobIds == 1..MaxJobs
Gens   == 0..MaxJobs

States      == {"queued", "running", "complete", "failed", "cancelled"}
Terminal    == {"complete", "failed", "cancelled"}
RunStates   == {None, "queued", "running", "complete", "failed", "cancelled",
                "not_configured"}
ReceiptStates == {"complete", "failed", "not_configured"}
VideoStates == {None, "queued", "processing", "ready", "failed"}

VARIABLES
    job,      \* [JobIds -> job row]
    count,    \* rows inserted so far; rows 1..count exist
    run,      \* run[j][s]: state of job j's run of stage s
    inputs,   \* inputs[j][s]: segment generations job j's text vectors embed
    active,   \* active[v][s]: released generation of stage s of video v
    status,   \* videos.status
    phase,    \* of the process: down, recovering, serving, stopping
    starts,   \* process starts so far
    damaged,  \* job rows that no longer validate
    quarantined, \* rows recorded in video_index_job_quarantines
    left,     \* history: jobs whose ending was refused since the start
    exec      \* the dispatcher thread: [pc, job, k]

dbVars == <<job, count, run, inputs, active, status, quarantined>>
vars   == <<dbVars, phase, starts, damaged, left, exec>>

JobRow == [video: Videos \cup {None}, intent: {None, "ingest", "reindex"},
           plan: Plans \cup {None}, state: States \cup {None},
           cancel: BOOLEAN, retryOf: Gens, prior: VideoStates]

NoRow == [video |-> None, intent |-> None, plan |-> None, state |-> None,
          cancel |-> FALSE, retryOf |-> 0, prior |-> None]

Idle == [pc |-> "idle", job |-> 0, k |-> 0]

-----------------------------------------------------------------------------
(* Rows and projections *)

Exists(j)   == j \in 1..count
Active(j)   == job[j].state \in {"queued", "running"}

\* Mutant: only running work occupies a video.
MutActiveOn(v) == {j \in JobIds : job[j].video = v /\ job[j].state = "running"}

ActiveOn(v) == {j \in JobIds : job[j].video = v /\ Active(j)}
Readable(j) == j \notin damaged

\* A generation is released when the job that published it is complete.
Released(g) == g # 0 /\ job[g].state = "complete"

\* The status that one job row gives its video.
Projection(row) ==
    CASE row.state = "queued"   -> "queued"
      [] row.state = "running"  -> "processing"
      [] row.state = "complete" -> "ready"
      [] OTHER -> IF row.intent = "reindex" THEN row.prior ELSE "failed"

\* Persist one row and project it on its video, in one transaction.
Save(j, row) ==
    /\ job' = [job EXCEPT ![j] = row]
    /\ status' = [status EXCEPT ![row.video] = Projection(row)]

\* The same when the row is new; the unique index admits one active job per
\* video.  The bound leaves recovery a row for each start still to come.
Insert(row) ==
    /\ count + (MaxStarts - starts) < MaxJobs
    /\ ActiveOn(row.video) = {}
    /\ count' = count + 1
    /\ Save(count + 1, row)

\* Mutant: the prior state is read after the video was set to queued.
MutNewJob(v, intent, p, prior) ==
    [video |-> v, intent |-> intent, plan |-> p, state |-> "queued", cancel |-> FALSE,
     retryOf |-> 0, prior |-> IF intent = "reindex" THEN "queued" ELSE prior]

NewJob(v, intent, p, prior) ==
    [video |-> v, intent |-> intent, plan |-> p, state |-> "queued",
     cancel |-> FALSE, retryOf |-> 0, prior |-> prior]

\* The child that retries row j: same identity, plan and prior video state.
RetryOf(j) == [job[j] EXCEPT !.state = "queued", !.cancel = FALSE, !.retryOf = j]

\* Mutant: queued runs are forgotten.
MutEndRuns(runs, outcome) ==
    [s \in Stages |-> IF runs[s] = "running" THEN outcome ELSE runs[s]]

\* What becomes of the unfinished runs of a job that ends as outcome.
EndRuns(runs, outcome) ==
    [s \in Stages |-> CASE runs[s] = "running" -> outcome
                        [] runs[s] = "queued"  -> "cancelled"
                        [] OTHER               -> runs[s]]

-----------------------------------------------------------------------------
(* The release that the completion of a job selects *)

Staged(j, s) == run[j][s] = "complete"

\* The released generation of s may stay when the plan of job j pins its specification.
Retainable(j, s) ==
    LET g == active[job[j].video][s]
    IN  Released(g) /\ SpecOf[job[g].plan][s] = SpecOf[job[j].plan][s]

Selected(j, s) ==
    IF Staged(j, s) THEN j
    ELSE IF Retainable(j, s) THEN active[job[j].video][s] ELSE 0

\* The segment generations the text vectors of job j's release have to embed.
TextInputs(j) == [s \in Semantic |-> Selected(j, s)]

\* Mutant: the released vectors stay although they embed other segments.
MutSelectedText(j) == Selected(j, "text_vectors")

SelectedText(j) ==
    IF Staged(j, "text_vectors") THEN j
    ELSE IF /\ Retainable(j, "text_vectors")
            /\ inputs[active[job[j].video]["text_vectors"]] = TextInputs(j)
         THEN active[job[j].video]["text_vectors"]
         ELSE 0

\* Mutant: compatible generations of the previous release are dropped.
MutReleaseOf(j) == [s \in Stages |-> IF Staged(j, s) THEN j ELSE 0]

ReleaseOf(j) ==
    [s \in Stages |-> IF s = "text_vectors" THEN SelectedText(j) ELSE Selected(j, s)]

-----------------------------------------------------------------------------
Init ==
    /\ job = [j \in JobIds |-> NoRow]
    /\ count = 0
    /\ run = [j \in JobIds |-> [s \in Stages |-> None]]
    /\ inputs = [j \in JobIds |-> [s \in Semantic |-> 0]]
    /\ active = [v \in Videos |-> [s \in Stages |-> 0]]
    /\ status = [v \in Videos |-> None]
    /\ phase = "down" /\ starts = 0
    /\ damaged = {} /\ quarantined = {} /\ left = {}
    /\ exec = Idle

-----------------------------------------------------------------------------
(* HTTP handlers *)

\* An upload commits the video, its asset, the plan and a queued job together.
CreateIngest(v, p) ==
    /\ phase = "serving"
    /\ status[v] = None
    /\ Insert(NewJob(v, "ingest", p, None))
    /\ UNCHANGED <<run, inputs, active, quarantined, phase, starts, damaged, left, exec>>

\* A reindex snapshots the video's status; with an active job the handler
\* returns that job or refuses, and changes nothing either way.
EnqueueReindex(v, p) ==
    /\ phase = "serving"
    /\ status[v] # None
    /\ Insert(NewJob(v, "reindex", p, status[v]))
    /\ UNCHANGED <<run, inputs, active, quarantined, phase, starts, damaged, left, exec>>

\* Queued work is cancelled on the spot, with its runs.
CancelQueued(j) ==
    /\ phase = "serving"
    /\ Readable(j) /\ job[j].state = "queued"
    /\ Save(j, [job[j] EXCEPT !.state = "cancelled", !.cancel = TRUE])
    /\ run' = [run EXCEPT ![j] = EndRuns(@, "cancelled")]
    /\ UNCHANGED <<count, inputs, active, quarantined, phase, starts, damaged, left, exec>>

\* Running work is only marked; the dispatcher acknowledges.
CancelRunning(j) ==
    /\ phase = "serving"
    /\ Readable(j) /\ job[j].state = "running" /\ ~job[j].cancel
    /\ job' = [job EXCEPT ![j].cancel = TRUE]
    /\ UNCHANGED <<count, run, inputs, active, status, quarantined,
                   phase, starts, damaged, left, exec>>

\* Mutant: an ended child does not count.
MutHasChild(j) == \E c \in JobIds : job[c].retryOf = j /\ Active(c)

HasChild(j) == \E c \in JobIds : job[c].retryOf = j

\* Mutant: the row itself goes back to the queue.
MutRetry(j) ==
    /\ phase = "serving"
    /\ Readable(j) /\ job[j].state \in {"failed", "cancelled"}
    /\ ActiveOn(job[j].video) = {}
    /\ Save(j, [job[j] EXCEPT !.state = "queued", !.cancel = FALSE])
    /\ UNCHANGED <<count, run, inputs, active, quarantined, phase, starts, damaged, left, exec>>

\* Retry of a failed or cancelled job; a job that has a child returns the child.
Retry(j) ==
    /\ phase = "serving"
    /\ Readable(j) /\ job[j].state \in {"failed", "cancelled"}
    /\ ~HasChild(j)
    /\ Insert(RetryOf(j))
    /\ UNCHANGED <<run, inputs, active, quarantined, phase, starts, damaged, left, exec>>

-----------------------------------------------------------------------------
(* Process life: start, startup recovery, shutdown, crash, damage *)

\* Mutant: the dispatcher is started without startup recovery.
MutStart ==
    /\ phase = "down" /\ starts < MaxStarts
    /\ phase' = "serving" /\ starts' = starts + 1 /\ left' = {}
    /\ UNCHANGED <<dbVars, damaged, exec>>

Start ==
    /\ phase = "down" /\ starts < MaxStarts
    /\ phase' = "recovering" /\ starts' = starts + 1 /\ left' = {}
    /\ UNCHANGED <<dbVars, damaged, exec>>

\* Rows a previous process left running, which recovery has to settle.
Abandoned == {j \in JobIds : job[j].state = "running" /\ j \notin quarantined}

Oldest(S, j) == j \in S /\ \A i \in S : j <= i

RecoverDamaged(j) ==
    /\ phase = "recovering" /\ Oldest(Abandoned, j) /\ ~Readable(j)
    /\ quarantined' = quarantined \cup {j}
    /\ UNCHANGED <<job, count, run, inputs, active, status,
                   phase, starts, damaged, left, exec>>

RecoverCancelled(j) ==
    /\ phase = "recovering" /\ Oldest(Abandoned, j) /\ Readable(j) /\ job[j].cancel
    /\ Save(j, [job[j] EXCEPT !.state = "cancelled"])
    /\ run' = [run EXCEPT ![j] = EndRuns(@, "cancelled")]
    /\ UNCHANGED <<count, inputs, active, quarantined, phase, starts, damaged, left, exec>>

\* The abandoned attempt fails and its retry child is queued in one transaction.
RecoverAbandoned(j) ==
    /\ phase = "recovering" /\ Oldest(Abandoned, j) /\ Readable(j) /\ ~job[j].cancel
    /\ count < MaxJobs
    /\ job' = [job EXCEPT ![j].state = "failed", ![count + 1] = RetryOf(j)]
    /\ count' = count + 1
    /\ status' = [status EXCEPT ![job[j].video] = "queued"]
    /\ run' = [run EXCEPT ![j] = EndRuns(@, "failed")]
    /\ UNCHANGED <<inputs, active, quarantined, phase, starts, damaged, left, exec>>

Serve ==
    /\ phase = "recovering" /\ Abandoned = {}
    /\ phase' = "serving"
    /\ UNCHANGED <<dbVars, starts, damaged, left, exec>>

\* close(): no further claim; the job in hand is still executed.
Stop ==
    /\ phase = "serving" /\ starts < MaxStarts
    /\ phase' = "stopping"
    /\ UNCHANGED <<dbVars, starts, damaged, left, exec>>

Stopped ==
    /\ phase = "stopping" /\ exec.pc = "idle"
    /\ phase' = "down"
    /\ UNCHANGED <<dbVars, starts, damaged, left, exec>>

Crash ==
    /\ phase # "down" /\ starts < MaxStarts
    /\ phase' = "down" /\ exec' = Idle
    /\ UNCHANGED <<dbVars, starts, damaged, left>>

\* External: an unfinished job row stops validating.
Damage(j) ==
    /\ Exists(j) /\ Active(j) /\ Readable(j)
    /\ Cardinality(damaged) < MaxDamaged
    /\ damaged' = damaged \cup {j}
    /\ UNCHANGED <<dbVars, phase, starts, left, exec>>

-----------------------------------------------------------------------------
(* The dispatcher thread: claim *)

\* Mutant: quarantined rows stay in the scan.
MutClaimable == {j \in JobIds : job[j].state = "queued"}

Claimable == {j \in JobIds : job[j].state = "queued" /\ j \notin quarantined}

\* The rows one claim examines: the ScanLimit oldest ones.
Scanned == {j \in Claimable : Cardinality({i \in Claimable : i < j}) < ScanLimit}

\* The oldest valid row is claimed; damaged rows in front of it are quarantined.
Claim(j) ==
    /\ phase = "serving" /\ exec.pc = "idle"
    /\ j \in Scanned /\ Readable(j)
    /\ \A i \in Scanned : i < j => ~Readable(i)
    /\ quarantined' = quarantined \cup {i \in Scanned : i < j}
    /\ Save(j, [job[j] EXCEPT !.state = "running"])
    /\ exec' = [pc |-> "load", job |-> j, k |-> 0]
    /\ UNCHANGED <<count, run, inputs, active, phase, starts, damaged, left>>

ClaimNone ==
    /\ phase = "serving" /\ exec.pc = "idle"
    /\ Scanned # {} /\ \A i \in Scanned : ~Readable(i)
    /\ quarantined' = quarantined \cup Scanned
    /\ UNCHANGED <<job, count, run, inputs, active, status,
                   phase, starts, damaged, left, exec>>

-----------------------------------------------------------------------------
(* The dispatcher thread: stages *)

J     == exec.job
Stage == StageOrder[exec.k]

\* Mutant: the fence forgets a pending cancellation.
MutFence == job[J].state = "running"

\* What every mutation of a job or of its stage runs requires of the job.
Fence == job[J].state = "running" /\ ~job[J].cancel

At(pc)       == exec.pc = pc /\ Fence
GoTo(pc)     == exec' = [exec EXCEPT !.pc = pc]

\* Mutant: a stage is skipped.
MutNextStage == exec' = [exec EXCEPT !.pc = "stage", !.k = @ + 2]

NextStage    == exec' = [exec EXCEPT !.pc = "stage", !.k = @ + 1]
SetRun(st)   == run' = [run EXCEPT ![J][Stage] = st]
OnlyRunMoves == UNCHANGED <<job, count, inputs, active, status, quarantined,
                            phase, starts, damaged, left>>

\* _load_context, _validate_execution_context and the probe.
LoadContext ==
    /\ At("load") /\ Readable(J)
    /\ exec' = [exec EXCEPT !.pc = "stage", !.k = 1]
    /\ UNCHANGED <<dbVars, phase, starts, damaged, left>>

CreateRun ==
    /\ At("stage") /\ exec.k \in DOMAIN StageOrder /\ Readable(J)
    /\ SetRun("queued") /\ GoTo("created") /\ OnlyRunMoves

StartRun ==
    /\ At("created")
    /\ SetRun("running") /\ GoTo("running") /\ OnlyRunMoves

\* The provider of an optional stage is missing by configuration.
RecordNotConfigured ==
    /\ At("created") /\ Stage # "scenes"
    /\ SetRun("not_configured") /\ NextStage /\ OnlyRunMoves

\* Frames are published by the scenes stage of the same job only.
FramesAvailable == Stage \in FrameKinds => Staged(J, "scenes")

CommitStage ==
    /\ At("running") /\ Stage # "text_vectors" /\ FramesAvailable
    /\ SetRun("complete") /\ NextStage /\ OnlyRunMoves

\* The provider failed, or an external provider is required but missing.
RecordFailed ==
    /\ \/ At("running") \/ At("reserved")
       \/ At("created") /\ Stage \in ExternalKinds
    /\ SetRun("failed") /\ NextStage /\ OnlyRunMoves

ReserveText ==
    /\ At("running") /\ Stage = "text_vectors"
    /\ inputs' = [inputs EXCEPT ![J] = TextInputs(J)]
    /\ GoTo("reserved")
    /\ UNCHANGED <<job, count, run, active, status, quarantined,
                   phase, starts, damaged, left>>

CommitText ==
    /\ At("reserved") /\ inputs[J] = TextInputs(J)
    /\ SetRun("complete") /\ NextStage /\ OnlyRunMoves

ExactReceipts == \A s \in Stages : run[J][s] \in ReceiptStates

\* complete_video_index_job: the one transaction that changes a release.
Complete ==
    /\ At("stage") /\ exec.k = Len(StageOrder) + 1 /\ Readable(J)
    /\ ExactReceipts
    /\ Staged(J, "text_vectors") => inputs[J] = TextInputs(J)
    /\ Save(J, [job[J] EXCEPT !.state = "complete"])
    /\ active' = [active EXCEPT ![job[J].video] = ReleaseOf(J)]
    /\ exec' = Idle
    /\ UNCHANGED <<count, run, inputs, quarantined, phase, starts, damaged, left>>

-----------------------------------------------------------------------------
(* The dispatcher thread: an attempt that does not complete *)

Working == {"load", "stage", "created", "running", "reserved"}

\* An exception leaves process_durable: a cancellation observed at a fence, a
\* damaged row, or an error of a step that no stage handles.
Abort ==
    /\ exec.pc \in Working
    /\ GoTo("terminate")
    /\ UNCHANGED <<dbVars, phase, starts, damaged, left>>

\* _terminalize_owned_failure first reads the job and decides how to end it.
Decide ==
    /\ exec.pc = "terminate"
    /\ exec' = IF Readable(J) /\ job[J].state = "running"
               THEN [exec EXCEPT !.pc = IF job[J].cancel THEN "cancel" ELSE "fail"]
               ELSE Idle
    /\ UNCHANGED <<dbVars, phase, starts, damaged, left>>

EndAs(outcome) ==
    /\ Save(J, [job[J] EXCEPT !.state = outcome])
    /\ run' = [run EXCEPT ![J] = EndRuns(@, outcome)]
    /\ exec' = Idle
    /\ UNCHANGED <<count, inputs, active, quarantined, phase, starts, damaged, left>>

FailOwned   == At("fail") /\ Readable(J) /\ EndAs("failed")

CancelOwned ==
    /\ exec.pc = "cancel" /\ Readable(J)
    /\ job[J].state = "running" /\ job[J].cancel
    /\ EndAs("cancelled")

\* The decision is stale or the row unreadable: the transaction raises, the
\* dispatcher logs it and goes on with the next job.
TerminalizationLost ==
    /\ \/ exec.pc = "fail" /\ ~(Fence /\ Readable(J))
       \/ exec.pc = "cancel" /\ ~Readable(J)
    /\ exec' = Idle
    /\ UNCHANGED <<dbVars, phase, starts, damaged, left>>

\* A read or the transaction that would end the job raises for a reason of its
\* own: SQLite refuses or stays busy, or the text build linked to the job is
\* damaged (_terminalize_linked_stage_runs).  It is logged and swallowed: the
\* job stays running, in nobody's hands, until a restart recovers it.
TerminalizationFails ==
    /\ exec.pc \in {"terminate", "fail", "cancel"}
    /\ Cardinality(left) < MaxLeft
    /\ left' = left \cup {J}
    /\ exec' = Idle
    /\ UNCHANGED <<dbVars, phase, starts, damaged>>

-----------------------------------------------------------------------------
Handlers ==
    \/ \E v \in Videos, p \in Plans : CreateIngest(v, p) \/ EnqueueReindex(v, p)
    \/ \E j \in JobIds : CancelQueued(j) \/ CancelRunning(j) \/ Retry(j)

Recovery ==
    \/ \E j \in JobIds : RecoverDamaged(j) \/ RecoverCancelled(j) \/ RecoverAbandoned(j)
    \/ Serve

Claims == ClaimNone \/ \E j \in JobIds : Claim(j)

\* A step of the attempt in hand: everything but an unprovoked exception.
Executes ==
    \/ LoadContext \/ CreateRun \/ StartRun \/ RecordNotConfigured
    \/ CommitStage \/ RecordFailed \/ ReserveText \/ CommitText \/ Complete
    \/ Decide \/ FailOwned \/ CancelOwned \/ TerminalizationLost

Environment ==
    \/ Stop \/ Crash \/ \E j \in JobIds : Damage(j)

Next == Handlers \/ Start \/ Recovery \/ Stopped \/ Claims \/ Executes \/ Abort
        \/ TerminalizationFails \/ Environment

Spec == Init /\ [][Next]_vars

\* The threads of the process are scheduled and a process that is down is
\* started again; handlers, crashes and damage are never forced.  Recovery's
\* transactions succeed in the end: a start one of them refuses is a Crash.
Fairness ==
    /\ WF_vars(Start) /\ WF_vars(Recovery) /\ WF_vars(Stopped)
    /\ WF_vars(Claims) /\ WF_vars(Executes \/ Abort \/ TerminalizationFails)

FairSpec == Spec /\ Fairness

-----------------------------------------------------------------------------
(* Refinement of VideoRelease *)

\* What the job table says of the attempt in progress on a video.
AttemptOn(v) ==
    IF ActiveOn(v) = {} THEN "none"
    ELSE IF \E j \in ActiveOn(v) : job[j].cancel THEN "stopping" ELSE "open"

Promise == INSTANCE VideoRelease
    WITH release <- active, attempt <- [v \in Videos |-> AttemptOn(v)]

\* Jobs, stage runs, recovery and retries together keep the promise.
ImplementsVideoRelease == Promise!Spec

-----------------------------------------------------------------------------
(* Properties *)

Pcs == Working \cup {"idle", "terminate", "fail", "cancel"}

\* Every variable has its type; rows beyond count are blank.
TypeOK ==
    /\ job \in [JobIds -> JobRow] /\ count \in 0..MaxJobs
    /\ run \in [JobIds -> [Stages -> RunStates]]
    /\ inputs \in [JobIds -> [Semantic -> Gens]]
    /\ active \in [Videos -> [Stages -> Gens]]
    /\ status \in [Videos -> VideoStates]
    /\ phase \in {"down", "recovering", "serving", "stopping"}
    /\ starts \in 0..MaxStarts
    /\ damaged \subseteq JobIds /\ quarantined \subseteq damaged
    /\ left \subseteq JobIds
    /\ exec \in [pc : Pcs, job : Gens, k : 0..Len(StageOrder) + 1]

\* Attempts on one video never overlap: when a job is inserted, every earlier
\* job of its video has ended (idx_video_index_jobs_active_video, and recovery
\* that fails the abandoned attempt before it queues the child).
SequentialAttempts ==
    \A i, j \in 1..count :
        i < j /\ job[i].video = job[j].video => job[i].state \in Terminal

\* What search reads is one release: every pointer of a video names a
\* complete output of a complete job of that video, all of them fit one
\* plan, and the text vectors embed exactly the released semantic segments
\* (_activate_video_index_job_outputs over several jobs and stages).
CoherentRelease ==
    \A v \in Videos :
        /\ \A s \in Stages : active[v][s] # 0 =>
              /\ Released(active[v][s]) /\ job[active[v][s]].video = v
              /\ Staged(active[v][s], s)
        /\ \E p \in Plans : \A s \in Stages : active[v][s] # 0 =>
              SpecOf[job[active[v][s]].plan][s] = SpecOf[p][s]
        /\ active[v]["text_vectors"] # 0 =>
              inputs[active[v]["text_vectors"]] = [s \in Semantic |-> active[v][s]]

\* A job that ended left no run behind, and it ended the way the
\* cancellation race says: complete and failed jobs were never asked to stop.
SettledAttempts ==
    \A j \in 1..count :
        /\ job[j].state \in Terminal =>
              \A s \in Stages : run[j][s] \notin {"queued", "running"}
        /\ job[j].state = "complete" =>
              \A s \in Stages : run[j][s] \in ReceiptStates
        /\ job[j].state \in {"complete", "failed"} => ~job[j].cancel
        /\ job[j].state = "cancelled" => job[j].cancel

\* The public status of a video never sticks: it shows queued or processing
\* exactly while such a job exists, and ready only after some job completed,
\* whatever prior state a reindex or its retries restore.
StatusReflectsJobs ==
    \A v \in Videos :
        /\ status[v] = "queued" <=>
              \E j \in JobIds : job[j].video = v /\ job[j].state = "queued"
        /\ status[v] = "processing" <=>
              \E j \in JobIds : job[j].video = v /\ job[j].state = "running"
        /\ status[v] = "ready" =>
              \E j \in JobIds : job[j].video = v /\ job[j].state = "complete"

\* A retry child repeats the identity of a failed or cancelled parent that
\* precedes it, and no parent has two children, whoever retried: a user,
\* twice, or startup recovery.
RetryLineage ==
    \A c \in 1..count : LET p == job[c].retryOf IN p # 0 =>
        /\ p < c /\ job[p].state \in {"failed", "cancelled"}
        /\ <<job[p].video, job[p].intent, job[p].plan, job[p].prior>>
             = <<job[c].video, job[c].intent, job[c].plan, job[c].prior>>
        /\ \A d \in 1..count : job[d].retryOf = p => d = c

\* While the process serves, a running job is in the dispatcher's hands,
\* except for the three ways _terminalize_owned_failure lets go of a job
\* without ending it: a cancellation overtook the decision to fail it, its row
\* is damaged, or the database refused the ending, in this process and not in
\* an earlier one: what an earlier process left running a start recovers.
RunningIsOwned ==
    phase \in {"serving", "stopping"} =>
        \A j \in JobIds : job[j].state = "running" =>
            \/ exec.pc # "idle" /\ exec.job = j
            \/ job[j].cancel \/ j \in damaged \/ j \in left

\* A release changes in one step only, the one that completes a running job
\* of that video that nobody asked to stop; and a stage loses its generation
\* then only if the plan pins another specification for it or, for the text
\* vectors, a semantic stage changed.
ReleaseChange(v) ==
    active'[v] # active[v] =>
        \E j \in JobIds :
            /\ job[j].video = v /\ job[j].state = "running" /\ ~job[j].cancel
            /\ job'[j].state = "complete"
            /\ \A s \in Stages : active[v][s] # 0 /\ active'[v][s] = 0 =>
                 \/ SpecOf[job[active[v][s]].plan][s] # SpecOf[job[j].plan][s]
                 \/ /\ s = "text_vectors"
                    /\ \E x \in Semantic : active'[v][x] # active[v][x]

ReleaseOnlyByCompletion == [][\A v \in Videos : ReleaseChange(v)]_vars

\* Ended attempts are history: neither their row nor their runs nor what
\* their vectors embed ever changes, so a release cannot change under search.
TerminalImmutable ==
    [][\A j \in JobIds : job[j].state \in Terminal =>
          job'[j] = job[j] /\ run'[j] = run[j] /\ inputs'[j] = inputs[j]]_vars

\* A queued job ends, through any crash and restart, unless its row is damaged
\* or the dispatcher let go of it: its cancellation was requested while it ran,
\* or the database refused its ending.  Such a job stays running and holds its
\* video until the program is stopped and started again; then it ends.
QueuedJobsEnd ==
    \A j \in JobIds :
        /\ job[j].state = "queued" ~>
              \/ job[j].state \in Terminal
              \/ j \in damaged
              \/ job[j].state = "running" /\ (job[j].cancel \/ j \in left)
        /\ job[j].state = "running" /\ phase = "down" ~>
              job[j].state \in Terminal \/ j \in damaged

\* What the code promises but does not keep.
\* "Job completion, failure, and cancellation acknowledgement intentionally
\* belong to the dispatcher" (indexer.py): a requested cancellation is answered.
CancellationAcknowledged ==
    \A j \in JobIds :
        job[j].state = "running" /\ job[j].cancel ~> job[j].state \in Terminal

\* "cancellation, failure or crash recovery therefore leave the previous
\* release selected" (architecture.md): search serves ready videos only, so a
\* video with a release and no active job is ready.
ReleaseStaysServed ==
    \A v \in Videos :
        (\E s \in Stages : active[v][s] # 0) /\ ActiveOn(v) = {} => status[v] = "ready"
=============================================================================
