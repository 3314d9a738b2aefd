--------------------------- MODULE IndexJobSchema ---------------------------
(***************************************************************************)
(* What the SQLite schema alone keeps true of the durable job tables       *)
(* (repository.py, migrations 3, 5, 6 and 9): every statement any program  *)
(* may send to video_index_jobs, stage_runs, the generation tables and the *)
(* active_* pointers, admitted or aborted by the CHECK constraints, unique *)
(* indexes, foreign keys and triggers.  Nothing is assumed of the writer:  *)
(* an action is one INSERT, UPDATE or DELETE of one row with any values.   *)
(*                                                                         *)
(* Abstractions.  The columns a trigger freezes together (intent, video,   *)
(* source, plan, idempotency hash and prior status) are one value, the     *)
(* work of a job; the source of a video is that of its asset, which is     *)
(* immutable, so a run carries it in its video.  Progress, stage names,    *)
(* error codes and timestamps are left out, and so are the tombstones that *)
(* text vector generations need (VectorSchema).  A generation is found by  *)
(* its run, UNIQUE in each generation table, and has a name; a pointer     *)
(* stands for the generation its foreign key resolves to.  Rows of videos  *)
(* stay.                                                                   *)
(***************************************************************************)
EXTENDS Naturals, FiniteSets

CONSTANTS
    Videos,
    Works,     \* identities of index work
    VideoOf,   \* VideoOf[w]: the video of work w
    Kinds,     \* the stage kinds of a plan (seven in the code)
    TableOf,   \* TableOf[k]: segment, text or external: where k publishes
    Specs,     \* rows of stage_specifications
    KindOf,    \* KindOf[s]: the stage kind of specification s
    SpecOf,    \* SpecOf[w][k]: the specification the plan of w pins for k
    Tokens,    \* execution tokens
    GenNames,  \* generation ids
    MaxJobs,   \* bound: rows ever inserted in video_index_jobs
    MaxRuns    \* bound: run ids

None   == "none"
Tables == {"segment", "text", "external"}

ASSUME ConstantsAssumption ==
    /\ MaxJobs \in Nat /\ MaxRuns \in Nat
    /\ IsFiniteSet(Kinds)
    /\ VideoOf \in [Works -> Videos]
    /\ TableOf \in [Kinds -> Tables]
    /\ KindOf \in [Specs -> Kinds]
    /\ SpecOf \in [Works -> [Kinds -> Specs]]
    /\ None \notin Works /\ None \notin Videos /\ None \notin Specs
    /\ None \notin Tokens /\ None \notin GenNames

JobIds == 1..MaxJobs
RunIds == 1..MaxRuns

States    == {"queued", "running", "complete", "failed", "cancelled"}
Active    == {"queued", "running"}
Terminal  == {"complete", "failed", "cancelled"}
RunStates == States \cup {"not_configured"}
Receipts  == {"complete", "failed", "not_configured"}

VARIABLES
    job,     \* job[j]: the row of video_index_jobs with sequence j
    count,   \* rows 1..count exist
    run,     \* run[r]: a row of stage_runs; state None when there is none
    gen,     \* gen[t][r]: the row of generation table t that run r published
    ptr,     \* ptr[k][v]: the run whose generation of kind k video v serves
    moved    \* history, moved[k]: the videos whose pointer of kind k came to its
             \* key by an UPDATE of the key itself

vars == <<job, count, run, gen, ptr, moved>>

Rows == [work: Works, state: States, attempt: 1..MaxJobs + 1, retryOf: 0..MaxJobs,
         token: Tokens \cup {None}, cancel: BOOLEAN]
RunRows == [video: Videos, spec: Specs, state: RunStates, job: 0..MaxJobs]
GenRows == [video: Videos, kind: Kinds, name: GenNames]

NoJob == [work |-> None, state |-> None, attempt |-> 0, retryOf |-> 0,
          token |-> None, cancel |-> FALSE]
NoRun == [video |-> None, spec |-> None, state |-> None, job |-> 0]
NoGen == [video |-> None, kind |-> None, name |-> None]

Init ==
    /\ job = [j \in JobIds |-> NoJob]
    /\ count = 0
    /\ run = [r \in RunIds |-> NoRun]
    /\ gen = [t \in Tables |-> [r \in RunIds |-> NoGen]]
    /\ ptr = [k \in Kinds |-> [v \in Videos |-> 0]]
    /\ moved = [k \in Kinds |-> {}]

-----------------------------------------------------------------------------
(* Constraints and triggers of video_index_jobs *)

Jobs == 1..count

\* The CHECK clauses of the table.
RowChecks(j, row) ==
    /\ row.retryOf # j
    /\ IF row.retryOf = 0 THEN row.attempt = 1 ELSE row.attempt >= 2
    /\ (row.token # None) = (row.state = "running")
    /\ row.state \in {"queued", "complete", "failed"} => ~row.cancel
    /\ row.state = "cancelled" => row.cancel

\* The unique indexes, and the UNIQUE column execution_token.
RowUnique(j, row) ==
    \A i \in Jobs \ {j} :
        /\ row.state \in Active /\ job[i].state \in Active
             => VideoOf[row.work] # VideoOf[job[i].work]
        /\ row.retryOf # 0 => job[i].retryOf # row.retryOf
        /\ row.token # None => job[i].token # row.token

\* Mutant: any finished parent may be retried.
MutRetryIdentity(row) ==
    row.retryOf # 0 =>
        /\ row.retryOf \in Jobs
        /\ row.attempt = job[row.retryOf].attempt + 1
        /\ row.work = job[row.retryOf].work

\* Trigger video_index_jobs_retry_identity_insert.
RetryIdentity(row) ==
    row.retryOf # 0 =>
        /\ row.retryOf \in Jobs
        /\ job[row.retryOf].state \in {"failed", "cancelled"}
        /\ row.attempt = job[row.retryOf].attempt + 1
        /\ row.work = job[row.retryOf].work

\* Mutant: a sequence number is used twice.
MutInsertJob(row) ==
    /\ count < MaxJobs
    /\ RowChecks(count + 1, row) /\ RowUnique(count + 1, row) /\ RetryIdentity(row)
    /\ job' = [job EXCEPT ![count + 1] = row]
    /\ UNCHANGED <<count, run, gen, ptr, moved>>

InsertJob(row) ==
    /\ count < MaxJobs
    /\ RowChecks(count + 1, row)
    /\ RowUnique(count + 1, row)
    /\ RetryIdentity(row)
    /\ count' = count + 1
    /\ job' = [job EXCEPT ![count + 1] = row]
    /\ UNCHANGED <<run, gen, ptr, moved>>

RunsOf(j) == {r \in RunIds : run[r].state # None /\ run[r].job = j}

\* Trigger video_index_jobs_reject_active_stage_completion.
NoActiveRuns(j) == \A r \in RunsOf(j) : run[r].state \notin Active

\* Mutant: only the number of receipts is counted.
MutExactReceipts(j) ==
    /\ Cardinality(RunsOf(j)) = Cardinality(Kinds)
    /\ \A r \in RunsOf(j) :
          /\ run[r].video = VideoOf[job[j].work]
          /\ run[r].state \in Receipts
          /\ run[r].spec = SpecOf[job[j].work][KindOf[run[r].spec]]

\* Trigger video_index_jobs_require_exact_stage_receipts.
ExactReceipts(j) ==
    /\ Cardinality(RunsOf(j)) = Cardinality(Kinds)
    /\ Cardinality({KindOf[run[r].spec] : r \in RunsOf(j)}) = Cardinality(Kinds)
    /\ \A r \in RunsOf(j) :
          /\ run[r].video = VideoOf[job[j].work]
          /\ run[r].state \in Receipts
          /\ run[r].spec = SpecOf[job[j].work][KindOf[run[r].spec]]

StateTransition(old, new) ==
    \/ new = old
    \/ old = "queued" /\ new \in {"running", "cancelled"}
    \/ old = "running" /\ new \in Terminal

ExecutionFence(old, new) ==
    old.token # new.token =>
        \/ /\ old.state = "queued" /\ new.state = "running"
           /\ old.token = None /\ new.token # None
        \/ /\ old.state = "running" /\ new.state \in Terminal
           /\ old.token # None /\ new.token = None

CancelRequestImmutable(old, new) == old.cancel => new.cancel

UpdateJob(j, row) ==
    /\ j \in Jobs
    /\ row.work = job[j].work /\ row.attempt = job[j].attempt
    /\ row.retryOf = job[j].retryOf
    /\ job[j].state \notin Terminal
    /\ StateTransition(job[j].state, row.state)
    /\ ExecutionFence(job[j], row)
    /\ CancelRequestImmutable(job[j], row)
    /\ row.state = "complete" => NoActiveRuns(j) /\ ExactReceipts(j)
    /\ RowChecks(j, row)
    /\ RowUnique(j, row)
    /\ job' = [job EXCEPT ![j] = row]
    /\ UNCHANGED <<count, run, gen, ptr, moved>>

-----------------------------------------------------------------------------
(* stage_runs *)

\* The job accepts runs: it runs and nobody asked to cancel it.
Accepting(j) == j \in Jobs /\ job[j].state = "running" /\ ~job[j].cancel

HasJob(v) == \E j \in Jobs : VideoOf[job[j].work] = v

InsertRun(r, row) ==
    /\ run[r].state = None
    /\ row.job = 0 => ~HasJob(row.video)
    /\ row.job # 0 => Accepting(row.job) /\ VideoOf[job[row.job].work] = row.video
    /\ run' = [run EXCEPT ![r] = row]
    /\ UNCHANGED <<job, count, gen, ptr, moved>>

\* Mutant: the state of a run follows whatever becomes of its job.
MutRunActiveUpdate(r, row) == TRUE

\* Trigger stage_runs_video_index_job_active_update.
RunActiveUpdate(r, row) ==
    (row.state # run[r].state /\ run[r].job # 0
       /\ row.state \notin {"failed", "cancelled"}) => Accepting(run[r].job)

\* Trigger stage_runs_job_id_immutable_update.
JobLinkImmutable(r, row) == row.job = run[r].job

UpdateRun(r, row) ==
    /\ run[r].state # None
    /\ JobLinkImmutable(r, row)
    /\ RunActiveUpdate(r, row)
    /\ run' = [run EXCEPT ![r] = row]
    /\ UNCHANGED <<job, count, gen, ptr, moved>>

\* A run that a generation refers to cannot be deleted.
DeleteRun(r) ==
    /\ run[r].state # None
    /\ \A t \in Tables : gen[t][r] = NoGen
    /\ run' = [run EXCEPT ![r] = NoRun]
    /\ UNCHANGED <<job, count, gen, ptr, moved>>

-----------------------------------------------------------------------------
(* Generations and the pointers that release them *)

\* What a generation repeats of its run (*_generation_run_identity_insert).
RunIdentity(r, n) == [video |-> run[r].video, kind |-> KindOf[run[r].spec], name |-> n]

\* The primary keys: a name is taken once in the segment and text tables, and
\* once for each video and kind in the external one.
NameFree(t, row) ==
    \A q \in RunIds : gen[t][q] # NoGen /\ gen[t][q].name = row.name =>
        t = "external" /\ <<gen[t][q].video, gen[t][q].kind>> # <<row.video, row.kind>>

\* Rows of generations are immutable.
InsertGeneration(r, n) ==
    LET t == TableOf[KindOf[run[r].spec]]
    IN  /\ run[r].state = "running"
        /\ gen[t][r] = NoGen
        /\ NameFree(t, RunIdentity(r, n))
        /\ gen' = [gen EXCEPT ![t][r] = RunIdentity(r, n)]
        /\ UNCHANGED <<job, count, run, ptr, moved>>

Committed(r) == run[r].job = 0 \/ (run[r].job \in Jobs /\ job[run[r].job].state = "complete")

\* Mutant: an active pointer may be moved to any generation.
MutJobOwner(k, v, r) == ptr[k][v] = 0 => Committed(r)

\* Triggers active_*_generations_job_owner_insert and _update.
JobOwner(k, v, r) == Committed(r)

\* The foreign keys.  A text vector pointer names the generation only, UNIQUE.
PointerKeys(k, v, r) ==
    LET g == gen[TableOf[k]][r] IN
    /\ g # NoGen
    /\ TableOf[k] # "text" => g.video = v /\ g.kind = k
    /\ TableOf[k] = "text" => \A w \in Videos \ {v} : ptr[k][w] # r

SetPointer(k, v, r) ==
    /\ PointerKeys(k, v, r)
    /\ JobOwner(k, v, r)
    /\ ptr' = [ptr EXCEPT ![k][v] = r]
    /\ moved' = [moved EXCEPT ![k] = @ \ {v}]
    /\ UNCHANGED <<job, count, run, gen>>

\* The generation a pointer stands for when only its key becomes <<l, w>>: a text
\* pointer names it by its id alone, the others by the whole key.
Resolves(k, v, l, w, q) ==
    IF TableOf[k] = "text" THEN l = k /\ q = ptr[k][v]
    ELSE /\ TableOf[l] = TableOf[k]
         /\ gen[TableOf[k]][q]
              = [video |-> w, kind |-> l, name |-> gen[TableOf[k]][ptr[k][v]].name]

\* UPDATE of video_id or stage_kind alone, which no trigger looks at.
MovePointer(k, v, l, w, q) ==
    /\ ptr[k][v] # 0 /\ ptr[l][w] = 0
    /\ Resolves(k, v, l, w, q)
    /\ ptr' = [ptr EXCEPT ![k][v] = 0, ![l][w] = q]
    /\ moved' = IF TableOf[k] = "text" THEN moved
                ELSE [moved EXCEPT ![k] = @ \ {v}, ![l] = @ \cup {w}]
    /\ UNCHANGED <<job, count, run, gen>>

DeletePointer(k, v) ==
    /\ ptr[k][v] # 0
    /\ ptr' = [ptr EXCEPT ![k][v] = 0]
    /\ moved' = [moved EXCEPT ![k] = @ \ {v}]
    /\ UNCHANGED <<job, count, run, gen>>

Next ==
    \/ \E row \in Rows : InsertJob(row)
    \/ \E j \in JobIds, row \in Rows : UpdateJob(j, row)
    \/ \E r \in RunIds, row \in RunRows : InsertRun(r, row) \/ UpdateRun(r, row)
    \/ \E r \in RunIds : DeleteRun(r) \/ \E n \in GenNames : InsertGeneration(r, n)
    \/ \E k \in Kinds, v \in Videos, r \in RunIds : SetPointer(k, v, r)
    \/ \E k, l \in Kinds, v, w \in Videos, q \in RunIds : MovePointer(k, v, l, w, q)
    \/ \E k \in Kinds, v \in Videos : DeletePointer(k, v)

Spec == Init /\ [][Next]_vars

-----------------------------------------------------------------------------
(* Properties *)

TypeOK ==
    /\ count \in 0..MaxJobs
    /\ job \in [JobIds -> Rows \cup {NoJob}]
    /\ \A j \in JobIds : j \in Jobs <=> job[j] # NoJob
    /\ run \in [RunIds -> RunRows \cup {NoRun}]
    /\ gen \in [Tables -> [RunIds -> GenRows \cup {NoGen}]]
    /\ ptr \in [Kinds -> [Videos -> 0..MaxRuns]]
    /\ moved \in [Kinds -> SUBSET Videos]

\* Retries form chains whatever is written: every retry continues an attempt
\* that ended without success, of the same work, numbered one further, and no
\* attempt is retried twice; so of one lineage only the newest attempt can be
\* active (docs/architecture.md, "Durable index jobs").
RetryLineage ==
    \A j \in Jobs : job[j].retryOf # 0 =>
        LET p == job[j].retryOf IN
        /\ p \in Jobs
        /\ job[p].state \in {"failed", "cancelled"}
        /\ job[p].work = job[j].work
        /\ job[j].attempt = job[p].attempt + 1
        /\ \A i \in Jobs : job[i].retryOf = p => i = j

\* No INSERT of a pointer and no UPDATE of the generation it names releases the
\* output of an unfinished job: what such a pointer names was published by a run
\* whose job is complete, or that no job owns, and stays so, whatever is written
\* to the other tables.  An UPDATE of the key itself (video_id, stage_kind) is
\* watched by no trigger and may resolve to another generation of the same name,
\* in the external table only; repository.py has no such statement.
ReleasedIsCommitted ==
    \A k \in Kinds, v \in Videos : ptr[k][v] # 0 =>
        /\ run[ptr[k][v]].state # None
        /\ gen[TableOf[k]][ptr[k][v]] # NoGen
        /\ Committed(ptr[k][v]) \/ (v \in moved[k] /\ TableOf[k] = "external")

\* The receipt exists for exactly the planned stages: counting receipts,
\* counting distinct kinds and matching each with the plan leaves one terminal
\* run for every stage of the plan, with the specification the plan pins.
CompletedWithReceipts ==
    [][\A j \in JobIds : (job'[j].state = "complete" /\ job[j].state # "complete"
                           /\ j \in Jobs) =>
          \A k \in Kinds : \E r \in RunsOf(j) :
             /\ run[r].spec = SpecOf[job[j].work][k] /\ run[r].state \in Receipts
             /\ \A q \in RunsOf(j) : KindOf[run[q].spec] = k => q = r]_vars

\* A cancellation request is final: the job can only end cancelled, no run
\* begins for it and none of its runs is recorded as finished.
CancelIsFinal ==
    [][\A j \in Jobs : job[j].cancel =>
          /\ job'[j].state \in {"running", "cancelled"} /\ job'[j].cancel
          /\ \A r \in RunIds :
                run'[r].job = j /\ run'[r].state \in RunStates \ {"failed", "cancelled"}
                => run[r].job = j /\ run[r].state = run'[r].state]_vars

\* "Reject raw-SQL success without one exact terminal receipt per plan stage"
\* (repository.py:2327): however a row comes to be complete, by an UPDATE or
\* by an INSERT, its planned stages have their receipts.
SuccessNeedsReceipts ==
    [][\A j \in JobIds : (job'[j].state = "complete" /\ job[j].state # "complete") =>
          \A k \in Kinds : \E r \in RunsOf(j) : KindOf[run[r].spec] = k]_vars
=============================================================================
