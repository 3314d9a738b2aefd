--------------------------- MODULE LegacyAdoption -------------------------
(***************************************************************************)
(* Adoption of queued videos of a database from before the job table, at   *)
(* every start of the runtime (runtime.py adopt_legacy_video_index_jobs,   *)
(* repository.py list_legacy_video_index_candidates and                    *)
(* adopt_legacy_video_index_job): batches of candidates get a job each,    *)
(* in a transaction each, before the dispatcher starts.  An error makes    *)
(* the start fail; a start that ends midway is taken up by the next.       *)
(*                                                                         *)
(* Abstractions.  Videos are numbers in their order of creation.  Of a job *)
(* only its plan and whether it is active; the dispatcher ends jobs at     *)
(* will (VideoIndexJobs).  The other steps of a start are                  *)
(* RuntimeLifecycle's.                                                     *)
(***************************************************************************)
EXTENDS Naturals, FiniteSets, FiniteSetsExt

CONSTANTS
    NVideos,
    WithAsset,   \* videos linked to an asset
    Batch, MaxBatches, \* batch_size, and the bound on the batches of a start
    NPlans,      \* plans, of which each start makes one
    MaxFaults,   \* bound: ends of the process and plans that cannot be made
    None

Library == 1..NVideos
ConstantsAssumption ==
    /\ NVideos \in Nat /\ WithAsset \subseteq Library /\ MaxFaults \in Nat
    /\ None \notin [plan : 1..NPlans, active : BOOLEAN]
    /\ Batch \in Nat \ {0} /\ MaxBatches \in Nat \ {0} /\ NPlans \in Nat \ {0}

VARIABLES
    status,  \* of each video: active (queued or processing), or settled
    job,     \* of each video: None, or the plan of its latest job and whether it is active
    at,      \* down, listing, adopting or running
    plan,    \* the plan of the present start's batch
    batch,   \* videos of it that are left
    full,    \* whether the batch was a full one
    batches, \* batches of this start
    faults

vars == <<status, job, at, plan, batch, full, batches, faults>>

Init ==
    /\ status \in [Library -> {"active", "settled"}]
    /\ job = [v \in Library |-> None]
    /\ at = "down" /\ plan = 1 /\ batch = {} /\ full = FALSE /\ batches = 0 /\ faults = 0

MutCandidates == {v \in Library : status[v] = "active"}
Candidates == {v \in Library : status[v] = "active" /\ job[v] = None}
FirstOf(n, S) == {v \in S : Cardinality({w \in S : w < v}) < n}

Fails == at' = "down" /\ batch' = {}

Start ==
    /\ at = "down" /\ at' = "listing" /\ plan' \in 1..NPlans /\ batches' = 0
    /\ UNCHANGED <<status, job, batch, full, faults>>
\* No candidate ends the adoption before a plan is made.
List ==
    /\ at = "listing" /\ batches < MaxBatches
    /\ LET found == FirstOf(Batch, Candidates)
       IN  /\ batch' = found /\ full' = (Cardinality(found) = Batch)
           /\ at' = IF found = {} THEN "running" ELSE "adopting"
    /\ batches' = batches + 1
    /\ UNCHANGED <<status, job, plan, faults>>
TooMany ==
    /\ at = "listing" /\ batches = MaxBatches /\ Fails
    /\ UNCHANGED <<status, job, plan, full, batches, faults>>
NoPlan ==
    /\ at = "adopting" /\ faults < MaxFaults /\ faults' = faults + 1 /\ Fails
    /\ UNCHANGED <<status, job, plan, full, batches>>

\* What the transaction accepts: a video with an asset, active and without a job, or with
\* an active job of this very plan.
Queued == [plan |-> plan, active |-> TRUE]
Accepted(v) ==
    /\ v \in WithAsset
    /\ IF job[v] = None THEN status[v] = "active" ELSE job[v] = Queued
Adopt ==
    /\ at = "adopting" /\ batch # {}
    /\ LET v == Min(batch)
       IN  IF Accepted(v)
           THEN /\ job' = [job EXCEPT ![v] = Queued] /\ batch' = batch \ {v} /\ UNCHANGED at
           ELSE Fails /\ UNCHANGED job
    /\ UNCHANGED <<status, plan, full, batches, faults>>
MutAdopted ==
    /\ at = "adopting" /\ batch = {} /\ at' = "running"
    /\ UNCHANGED <<status, job, plan, batch, full, batches, faults>>
Adopted ==
    /\ at = "adopting" /\ batch = {} /\ at' = IF full THEN "listing" ELSE "running"
    /\ UNCHANGED <<status, job, plan, batch, full, batches, faults>>

\* The dispatcher, while the runtime runs.
Finish(v) ==
    /\ at = "running" /\ job[v] # None /\ job[v].active
    /\ job' = [job EXCEPT ![v].active = FALSE] /\ status' = [status EXCEPT ![v] = "settled"]
    /\ UNCHANGED <<at, plan, batch, full, batches, faults>>
Stop ==
    /\ at # "down" /\ faults < MaxFaults /\ faults' = faults + 1 /\ Fails
    /\ UNCHANGED <<status, job, plan, full, batches>>

Adopting == Start \/ List \/ TooMany \/ Adopt \/ Adopted
Next == Adopting \/ NoPlan \/ Stop \/ \E v \in Library : Finish(v)
\* Whoever runs the program starts it again, and a start takes its steps.
Spec == Init /\ [][Next]_vars /\ WF_vars(Adopting)

(***************************************************************************)
(* Properties.                                                             *)
(***************************************************************************)
\* Once the runtime runs, no queued video of the older database is without a job, in
\* however many batches and starts the jobs were made (adopt_legacy_video_index_jobs).
StartedIsAdopted == at = "running" => Candidates = {}

\* The program can be started again after it stopped, with queued indexing work, until it
\* is stopped no more (docs/user-journeys.md).
StartsAgain == []<>(at = "running")

\* Every queued video of the older database gets a job.
AllAdopted == \A v \in Library : (status[v] = "active") ~> (job[v] # None)
=============================================================================
