----------------------- MODULE TextVectorGenerations -----------------------
(***************************************************************************)
(* The life of text vector generations: the dispatcher thread reserves a   *)
(* generation in SQLite, writes its vectors to Qdrant under a lease and    *)
(* commits it (indexer.py, vector_index.py); the collector thread recovers *)
(* builds whose lease ran out and deletes what was dropped under leases of *)
(* its own (runtime_lifecycle.py); both meet in the storage gate, and both *)
(* keep their state in four tables (repository.py): builds, tombstones,    *)
(* stage runs and GC jobs.  One action is one SQLite transaction, one call *)
(* to Qdrant, or one passage of the gate.                                  *)
(*                                                                         *)
(* Abstractions.  An attempt makes at most one generation, so both are     *)
(* named by one number, in order of reservation.  Time is what it makes    *)
(* possible: leased[g] and gc[g].due say on which side of its deadline a   *)
(* row stands.  A heartbeat that succeeds changes nothing here.  A fresh   *)
(* lease token per claim is the number of the claim.  Points are never     *)
(* found under a fresh generation id.  The inputs of a build cannot change *)
(* under it: only its own job publishes on the video (VideoIndexJobs).     *)
(* Backoff levels and the audit of GC attempts are left out.               *)
(***************************************************************************)
EXTENDS Naturals, FiniteSets

CONSTANTS
    Videos,        \* video ids
    MaxAttempts,   \* bound: indexing attempts that reach the vector stage
    MaxFaults,     \* bound: crashes, stalls, storage failures, damaged rows
    BatchSize,     \* rows one maintenance pass recovers and jobs it claims
    ScanLimit,     \* rows one claim examines
    StartupLimit,  \* builds startup recovery accepts
    MaxBatch       \* largest batch the repository serves

None == "none"

ASSUME ConstantsAssumption ==
    /\ MaxAttempts \in Nat /\ MaxFaults \in Nat /\ None \notin Videos
    /\ {BatchSize, ScanLimit, StartupLimit, MaxBatch} \subseteq Nat \ {0}
    /\ BatchSize <= MaxBatch /\ StartupLimit <= MaxBatch

Gens  == 1..MaxAttempts
Parts == {"points", "manifest"}

VARIABLES
    attempt,      \* [Gens -> the attempt's video, job, requested stop and stage run]
    build,        \* text_vector_builds: none, active or quarantined
    leased,       \* leased[g]: the lease of build g has not run out
    tomb,         \* text_vector_generation_tombstones
    gc,           \* artifact_gc_jobs
    gcQuarantine, \* artifact_gc_quarantines
    stored,       \* stored[g]: what Qdrant holds of generation g
    gate,         \* TextVectorStorageGate
    builder,      \* the dispatcher thread in the vector stage
    collector,    \* the collector thread
    phase,        \* of the process: down, recovered, up
    damaged,      \* generations whose build and GC rows no longer validate
    faults        \* faults so far

tables  == <<attempt, build, leased, tomb, gc, gcQuarantine>>
threads == <<gate, builder, collector, phase>>
vars    == <<tables, stored, threads, damaged, faults>>

Runs     == {None, "running", "complete", "failed", "cancelled"}
Attempts == [video: Videos \cup {None}, job: Runs, cancel: BOOLEAN, run: Runs]
Tombs    == {None, "building", "committed", "gc_pending", "gc_complete", "gc_failed"}
GCJobs   == [state: {None, "pending", "running", "complete", "failed"},
             attempt: Nat, due: BOOLEAN]
Outcomes == {"success", "transient_failure", "permanent_failure"}

Gates      == [active: 0..1, waiting: 0..1, maintenance: BOOLEAN]
Builders   == [at: {"idle", "waiting", "reserving", "writing", "sealing", "checking",
                    "committing", "failing", "leaving", "ending"},
               gen: {0} \cup Gens, lost: BOOLEAN]
Collectors == [at: {"idle", "recovering", "claiming", "deleting", "finishing",
                    "releasing"},
               gen: {0} \cup Gens, attempt: Nat, lost: BOOLEAN, outcome: Outcomes,
               done: 0..BatchSize]

Open      == [active |-> 0, waiting |-> 0, maintenance |-> FALSE]
NoBuilder == [at |-> "idle", gen |-> 0, lost |-> FALSE]
Resting   == [at |-> "idle", gen |-> 0, attempt |-> 0, lost |-> FALSE,
              outcome |-> "success", done |-> 0]

Fault == faults < MaxFaults /\ faults' = faults + 1

\* The oldest n rows of a set of generations.
FirstRows(S, n) == {g \in S : Cardinality({h \in S : h < g}) < n}

-----------------------------------------------------------------------------
(* Writes that several transactions share *)

\* The fence: the attempt's job runs and nobody asked it to stop.
Ours(g) == attempt[g].job = "running" /\ ~attempt[g].cancel

\* Garbage: the generations lose their reservation and get a GC job each.
EnqueueGC(G) ==
    /\ tomb' = [g \in Gens |-> IF g \in G THEN "gc_pending" ELSE tomb[g]]
    /\ gc' = [g \in Gens |-> IF g \in G /\ gc[g].state = None
                             THEN [state |-> "pending", attempt |-> 0, due |-> TRUE]
                             ELSE gc[g]]

\* Mutant: the build row goes, the tombstone and the GC job are forgotten.
MutDropBuilds(G) ==
    /\ build' = [g \in Gens |-> IF g \in G THEN None ELSE build[g]]
    /\ UNCHANGED <<tomb, gc>>

\* Builds end without a generation.
DropBuilds(G) ==
    /\ build' = [g \in Gens |-> IF g \in G THEN None ELSE build[g]]
    /\ EnqueueGC(G)

EndRuns(G, outcome) ==
    [g \in Gens |-> IF g \in G /\ attempt[g].run = "running"
                    THEN [attempt[g] EXCEPT !.run = outcome] ELSE attempt[g]]

ActiveBuilds == {g \in Gens : build[g] = "active"}

\* Mutant: unreadable builds are skipped.
MutRecoverRows(rows) ==
    LET good == rows \ damaged
    IN  /\ build' = [g \in Gens |-> IF g \in good THEN None ELSE build[g]]
        /\ EnqueueGC(good)
        /\ attempt' = EndRuns(good, "failed")
        /\ UNCHANGED <<leased, gcQuarantine>>

\* Recovery drops the builds it can read and quarantines the others.
RecoverRows(rows) ==
    LET good == rows \ damaged
    IN  /\ build' = [g \in Gens |-> IF g \in good THEN None
                                    ELSE IF g \in rows THEN "quarantined" ELSE build[g]]
        /\ EnqueueGC(good)
        /\ attempt' = EndRuns(good, "failed")
        /\ UNCHANGED <<leased, gcQuarantine>>

-----------------------------------------------------------------------------
Init ==
    /\ attempt = [g \in Gens |->
                    [video |-> None, job |-> None, cancel |-> FALSE, run |-> None]]
    /\ build = [g \in Gens |-> None] /\ leased = [g \in Gens |-> FALSE]
    /\ tomb = [g \in Gens |-> None]
    /\ gc = [g \in Gens |-> [state |-> None, attempt |-> 0, due |-> FALSE]]
    /\ gcQuarantine = {}
    /\ stored = [g \in Gens |-> {}]
    /\ gate = Open /\ builder = NoBuilder /\ collector = Resting
    /\ phase = "down" /\ damaged = {} /\ faults = 0

-----------------------------------------------------------------------------
(* The dispatcher thread *)

B == builder.gen

BuilderAt(at) == builder.at = at

BuilderTo(at) == builder' = [builder EXCEPT !.at = at]

\* The attempt starts its vector stage and arrives at the gate.
Begin(v) ==
    /\ phase = "up" /\ BuilderAt("idle")
    /\ \A g \in Gens : attempt[g].video = v => attempt[g].job # "running"
    /\ \E g \in Gens :
          /\ attempt[g].video = None
          /\ \A h \in Gens : h < g => attempt[h].video # None
          /\ attempt' = [attempt EXCEPT ![g] = [video |-> v, job |-> "running",
                                                cancel |-> FALSE, run |-> "running"]]
          /\ builder' = [at |-> "waiting", gen |-> g, lost |-> FALSE]
    /\ gate' = [gate EXCEPT !.waiting = @ + 1]
    /\ UNCHANGED <<build, leased, tomb, gc, gcQuarantine, stored, collector,
                   phase, damaged, faults>>

Enter ==
    /\ BuilderAt("waiting") /\ ~gate.maintenance
    /\ gate' = [gate EXCEPT !.waiting = @ - 1, !.active = @ + 1]
    /\ BuilderTo("reserving")
    /\ UNCHANGED <<tables, stored, collector, phase, damaged, faults>>

\* Another build of the video, quarantined ones included, blocks a reservation.
Blocking == {g \in Gens : build[g] # None /\ attempt[g].video = attempt[B].video}

Reserve ==
    /\ BuilderAt("reserving") /\ Ours(B) /\ Blocking = {}
    /\ build' = [build EXCEPT ![B] = "active"]
    /\ leased' = [leased EXCEPT ![B] = TRUE]
    /\ tomb' = [tomb EXCEPT ![B] = "building"]
    /\ BuilderTo("writing")
    /\ UNCHANGED <<attempt, gc, gcQuarantine, stored, gate, collector, phase,
                   damaged, faults>>

Write(part) == stored' = [stored EXCEPT ![B] = @ \cup {part}]

WritePoints ==
    /\ BuilderAt("writing") /\ Ours(B)
    /\ Write("points") /\ BuilderTo("sealing")
    /\ UNCHANGED <<tables, gate, collector, phase, damaged, faults>>

WriteManifest ==
    /\ BuilderAt("sealing")
    /\ Write("manifest") /\ BuilderTo("checking")
    /\ UNCHANGED <<tables, gate, collector, phase, damaged, faults>>

\* The build is written: the heartbeat thread is joined and its error raised.
StopHeartbeat ==
    /\ BuilderAt("checking") /\ Ours(B) /\ ~builder.lost
    /\ BuilderTo("committing")
    /\ UNCHANGED <<tables, stored, gate, collector, phase, damaged, faults>>

CanCommit(g) ==
    /\ Ours(g) /\ attempt[g].run = "running"
    /\ build[g] = "active" /\ g \notin damaged /\ leased[g]

Commit ==
    /\ BuilderAt("committing") /\ CanCommit(B)
    /\ attempt' = [attempt EXCEPT ![B].run = "complete"]
    /\ tomb' = [tomb EXCEPT ![B] = "committed"]
    /\ build' = [build EXCEPT ![B] = None]
    /\ BuilderTo("leaving")
    /\ UNCHANGED <<leased, gc, gcQuarantine, stored, gate, collector, phase,
                   damaged, faults>>

\* A refusal of one of the steps above raises.
BuildRefused ==
    /\ \/ BuilderAt("reserving") /\ (~Ours(B) \/ Blocking # {})
       \/ BuilderAt("writing") /\ ~Ours(B)
       \/ BuilderAt("checking") /\ (~Ours(B) \/ builder.lost)
       \/ BuilderAt("committing") /\ ~CanCommit(B)
    /\ BuilderTo("failing")
    /\ UNCHANGED <<tables, stored, gate, collector, phase, damaged, faults>>

\* The database, Qdrant or the embedding model raises; a write to Qdrant may
\* have taken effect nevertheless.
BuildRaises ==
    /\ builder.at \in {"reserving", "writing", "sealing", "checking", "committing"}
    /\ Fault
    /\ \/ UNCHANGED stored
       \/ BuilderAt("writing") /\ Write("points")
       \/ BuilderAt("sealing") /\ Write("manifest")
    /\ BuilderTo("failing")
    /\ UNCHANGED <<tables, gate, collector, phase, damaged>>

\* The heartbeat thread stops at the first error: the fence, the row or the
\* lease no longer hold, or the database is busy for too long.
HeartbeatFails ==
    /\ builder.at \in {"writing", "sealing", "checking"} /\ ~builder.lost
    /\ IF CanCommit(B) THEN Fault ELSE UNCHANGED faults
    /\ builder' = [builder EXCEPT !.lost = TRUE]
    /\ UNCHANGED <<tables, stored, gate, collector, phase, damaged>>

\* After an error: drop the build and fail the run.  A cancelled attempt leaves
\* both to the end of its job; when dropping raises, only the run is failed.
FailBuild ==
    /\ BuilderAt("failing") /\ BuilderTo("leaving")
    /\ IF ~Ours(B) THEN UNCHANGED <<tables, faults>>
       ELSE /\ attempt' = EndRuns({B}, "failed")
            /\ UNCHANGED <<leased, gcQuarantine>>
            /\ \/ /\ build[B] = "active" /\ B \notin damaged
                  /\ attempt[B].run = "running"
                  /\ DropBuilds({B}) /\ UNCHANGED faults
               \/ /\ IF build[B] = "active" /\ B \notin damaged
                     THEN Fault ELSE UNCHANGED faults
                  /\ UNCHANGED <<build, tomb, gc>>
    /\ UNCHANGED <<stored, gate, collector, phase, damaged>>

\* Mutant: a build that fails never gives its place in the gate back.
MutLeave ==
    /\ BuilderAt("leaving") /\ BuilderTo("ending")
    /\ gate' = IF attempt[B].run = "failed" THEN gate ELSE [gate EXCEPT !.active = @ - 1]
    /\ UNCHANGED <<tables, stored, collector, phase, damaged, faults>>

Leave ==
    /\ BuilderAt("leaving") /\ BuilderTo("ending")
    /\ gate' = [gate EXCEPT !.active = @ - 1]
    /\ UNCHANGED <<tables, stored, collector, phase, damaged, faults>>

-----------------------------------------------------------------------------
(* The end of the attempt, told in full by VideoIndexJobs *)

EndJob(g, outcome) == [EndRuns({g}, outcome) EXCEPT ![g].job = outcome]

\* Completion looks at receipts, not at builds.
CompleteJob ==
    /\ BuilderAt("ending") /\ Ours(B) /\ attempt[B].run # "running"
    /\ attempt' = [attempt EXCEPT ![B].job = "complete"]
    /\ builder' = NoBuilder
    /\ UNCHANGED <<build, leased, tomb, gc, gcQuarantine, stored, gate, collector,
                   phase, damaged, faults>>

\* Mutant: the build is left to its lease.
MutAbortJob ==
    /\ BuilderAt("ending") /\ B \notin ActiveBuilds \cap damaged
    /\ attempt' = EndJob(B, IF attempt[B].cancel THEN "cancelled" ELSE "failed")
    /\ builder' = NoBuilder
    /\ UNCHANGED <<build, leased, tomb, gc, gcQuarantine, stored, gate, collector,
                   phase, damaged, faults>>

\* A job that fails or is cancelled drops its build in the same transaction.
AbortJob ==
    /\ BuilderAt("ending") /\ B \notin ActiveBuilds \cap damaged
    /\ attempt' = EndJob(B, IF attempt[B].cancel THEN "cancelled" ELSE "failed")
    /\ DropBuilds({B} \cap ActiveBuilds)
    /\ builder' = NoBuilder
    /\ UNCHANGED <<leased, gcQuarantine, stored, gate, collector, phase, damaged, faults>>

\* The transaction raises, for an unreadable build or for the cancellation race
\* of VideoIndexJobs: the job stays running, in nobody's hands.
JobLeft ==
    /\ BuilderAt("ending")
    /\ IF B \in ActiveBuilds \cap damaged THEN UNCHANGED faults ELSE Fault
    /\ builder' = NoBuilder
    /\ UNCHANGED <<tables, stored, gate, collector, phase, damaged>>

Cancel(g) ==
    /\ phase = "up" /\ Ours(g)
    /\ attempt' = [attempt EXCEPT ![g].cancel = TRUE]
    /\ UNCHANGED <<build, leased, tomb, gc, gcQuarantine, stored, threads, damaged,
                   faults>>

-----------------------------------------------------------------------------
(* The collector thread *)

C == collector.gen

CollectorAt(at) == collector.at = at

CollectorTo(at) == collector' = [collector EXCEPT !.at = at]

\* Mutant: maintenance starts beside an active build.
MutStartMaintenance ==
    /\ phase = "up" /\ CollectorAt("idle")
    /\ gate.waiting = 0 /\ ~gate.maintenance
    /\ gate' = [gate EXCEPT !.maintenance = TRUE]
    /\ CollectorTo("recovering")
    /\ UNCHANGED <<tables, stored, builder, phase, damaged, faults>>

\* Mutant: maintenance overtakes a waiting build.
MutOvertake ==
    /\ phase = "up" /\ CollectorAt("idle")
    /\ gate.active = 0 /\ ~gate.maintenance
    /\ gate' = [gate EXCEPT !.maintenance = TRUE]
    /\ CollectorTo("recovering")
    /\ UNCHANGED <<tables, stored, builder, phase, damaged, faults>>

StartMaintenance ==
    /\ phase = "up" /\ CollectorAt("idle")
    /\ gate.active = 0 /\ gate.waiting = 0 /\ ~gate.maintenance
    /\ gate' = [gate EXCEPT !.maintenance = TRUE]
    /\ CollectorTo("recovering")
    /\ UNCHANGED <<tables, stored, builder, phase, damaged, faults>>

\* Mutant: only builds whose run still runs are looked for.
MutExpired == {g \in ActiveBuilds : ~leased[g] /\ attempt[g].run = "running"}

Expired == {g \in ActiveBuilds : ~leased[g]}

RecoverExpired ==
    /\ CollectorAt("recovering")
    /\ RecoverRows(FirstRows(Expired, BatchSize))
    /\ collector' = [collector EXCEPT !.at = "claiming", !.done = 0]
    /\ UNCHANGED <<stored, gate, builder, phase, damaged, faults>>

\* Mutant: only pending jobs are claimed.
MutReady == {g \in Gens : gc[g].state = "pending" /\ gc[g].due /\ g \notin gcQuarantine}

\* Pending jobs whose backoff is over and running ones whose lease ran out.
Ready == {g \in Gens : /\ gc[g].state \in {"pending", "running"}
                       /\ gc[g].due /\ g \notin gcQuarantine}

Claimable(g) == gc[g].state = "pending" /\ g \notin damaged

\* What one claim does to the rows it passes: unreadable ones are quarantined,
\* expired leases end and the job waits for its next turn.
Passed(seen, g) ==
    IF g \in seen \ damaged THEN [gc[g] EXCEPT !.state = "pending", !.due = FALSE]
    ELSE gc[g]

Claim(g) ==
    /\ CollectorAt("claiming") /\ collector.done < BatchSize
    /\ g \in Ready /\ Claimable(g)
    /\ \E seen \in SUBSET (Ready \ {g}) :
          /\ Cardinality(seen) < ScanLimit /\ \A h \in seen : ~Claimable(h)
          /\ gc' = [h \in Gens |->
                      IF h = g THEN [state |-> "running", due |-> FALSE,
                                     attempt |-> gc[g].attempt + 1]
                      ELSE Passed(seen, h)]
          /\ gcQuarantine' = gcQuarantine \cup (seen \cap damaged)
    /\ collector' = [at |-> "deleting", gen |-> g, attempt |-> gc[g].attempt + 1,
                     lost |-> FALSE, outcome |-> "success", done |-> collector.done + 1]
    /\ UNCHANGED <<attempt, build, leased, tomb, stored, gate, builder, phase,
                   damaged, faults>>

\* Nothing to claim among the rows examined, or the batch is full.
EndBatch ==
    /\ CollectorAt("claiming")
    /\ \/ collector.done = BatchSize /\ UNCHANGED <<gc, gcQuarantine>>
       \/ /\ collector.done < BatchSize
          /\ \E seen \in SUBSET Ready :
                /\ Cardinality(seen) <= ScanLimit
                /\ seen = Ready \/ Cardinality(seen) = ScanLimit
                /\ \A h \in seen : ~Claimable(h)
                /\ gc' = [h \in Gens |-> Passed(seen, h)]
                /\ gcQuarantine' = gcQuarantine \cup (seen \cap damaged)
    /\ CollectorTo("releasing")
    /\ UNCHANGED <<attempt, build, leased, tomb, stored, gate, builder, phase,
                   damaged, faults>>

\* The claim is still the collector's: same attempt, lease not run out.
Holds(g) ==
    /\ gc[g].state = "running" /\ gc[g].attempt = collector.attempt
    /\ ~gc[g].due /\ g \notin damaged

\* Mutant: the filter selects the collection instead of the generation.
MutErase(g, rest) == stored' = [h \in Gens |-> rest]

Erase(g, rest) == stored' = [stored EXCEPT ![g] = rest]

\* Deletion is verified by a count; an error of the heartbeat then surfaces.
Delete ==
    /\ CollectorAt("deleting") /\ Erase(C, {})
    /\ IF collector.lost THEN CollectorTo("claiming")
       ELSE collector' = [collector EXCEPT !.at = "finishing", !.outcome = "success"]
    /\ UNCHANGED <<tables, gate, builder, phase, damaged, faults>>

\* Storage fails before, during or after the deletion.
DeleteFails ==
    /\ CollectorAt("deleting") /\ Fault
    /\ \E rest \in SUBSET stored[C] : Erase(C, rest)
    /\ collector' = [collector EXCEPT !.at = "finishing", !.outcome = "transient_failure"]
    /\ UNCHANGED <<tables, gate, builder, phase, damaged>>

\* The storage scope is refused, before anything is deleted.
DeleteRefused ==
    /\ CollectorAt("deleting") /\ Fault
    /\ collector' = [collector EXCEPT !.at = "finishing", !.outcome = "permanent_failure"]
    /\ UNCHANGED <<tables, stored, gate, builder, phase, damaged>>

GCHeartbeatFails ==
    /\ CollectorAt("deleting") /\ ~collector.lost
    /\ IF Holds(C) THEN Fault ELSE UNCHANGED faults
    /\ collector' = [collector EXCEPT !.lost = TRUE]
    /\ UNCHANGED <<tables, stored, gate, builder, phase, damaged>>

Finish ==
    /\ CollectorAt("finishing") /\ CollectorTo("claiming")
    /\ IF ~Holds(C) THEN UNCHANGED <<gc, tomb>>
       ELSE CASE collector.outcome = "success" ->
                    /\ gc' = [gc EXCEPT ![C].state = "complete"]
                    /\ tomb' = [tomb EXCEPT ![C] = "gc_complete"]
              [] collector.outcome = "permanent_failure" ->
                    /\ gc' = [gc EXCEPT ![C].state = "failed"]
                    /\ tomb' = [tomb EXCEPT ![C] = "gc_failed"]
              [] OTHER ->
                    /\ gc' = [gc EXCEPT ![C].state = "pending"]
                    /\ UNCHANGED tomb
    /\ UNCHANGED <<attempt, build, leased, gcQuarantine, stored, gate, builder, phase,
                   damaged, faults>>

\* The database raises: a pass ends early, a result goes unrecorded.
CollectorRaises ==
    /\ collector.at \in {"recovering", "claiming", "finishing"} /\ Fault
    /\ CollectorTo(IF CollectorAt("finishing") THEN "claiming" ELSE "releasing")
    /\ UNCHANGED <<tables, stored, gate, builder, phase, damaged>>

EndMaintenance ==
    /\ CollectorAt("releasing")
    /\ gate' = [gate EXCEPT !.maintenance = FALSE]
    /\ collector' = Resting
    /\ UNCHANGED <<tables, stored, builder, phase, damaged, faults>>

-----------------------------------------------------------------------------
(* Time, crashes and startup *)

\* A lease runs out: in time when nobody renews it, else because its holder stalled.
BuildLeaseExpires(g) ==
    /\ build[g] = "active" /\ leased[g]
    /\ IF builder.at # "idle" /\ B = g THEN Fault ELSE UNCHANGED faults
    /\ leased' = [leased EXCEPT ![g] = FALSE]
    /\ UNCHANGED <<attempt, build, tomb, gc, gcQuarantine, stored, threads, damaged>>

GCFallsDue(g) ==
    /\ gc[g].state \in {"pending", "running"} /\ ~gc[g].due
    /\ IF /\ collector.at \in {"deleting", "finishing"} /\ C = g
          /\ ~collector.lost /\ Holds(g)
       THEN Fault ELSE UNCHANGED faults
    /\ gc' = [gc EXCEPT ![g].due = TRUE]
    /\ UNCHANGED <<attempt, build, leased, tomb, gcQuarantine, stored, threads, damaged>>

\* A build or GC row is damaged from outside the program.
Damage(g) ==
    /\ g \notin damaged /\ Fault
    /\ build[g] = "active" \/ gc[g].state \in {"pending", "running"}
    /\ damaged' = damaged \cup {g}
    /\ UNCHANGED <<tables, stored, threads>>

Crash ==
    /\ phase # "down" /\ Fault
    /\ phase' = "down" /\ gate' = Open
    /\ builder' = NoBuilder /\ collector' = Resting
    /\ UNCHANGED <<tables, stored, damaged>>

\* Startup recovery asks for one row more than it accepts, if the repository
\* serves that many, and gives up when there are more: the process ends.
StartupRows == FirstRows(ActiveBuilds, IF StartupLimit < MaxBatch
                                       THEN StartupLimit + 1 ELSE MaxBatch)

RecoverBuilds ==
    /\ phase = "down"
    /\ RecoverRows(StartupRows)
    /\ phase' = IF ActiveBuilds' = {} /\ Cardinality(StartupRows) <= StartupLimit
                THEN "recovered" ELSE "down"
    /\ UNCHANGED <<stored, gate, builder, collector, damaged, faults>>

\* Then the abandoned jobs end (VideoIndexJobs) and both threads start.
RecoverJobs ==
    /\ phase = "recovered" /\ phase' = "up"
    /\ LET end(g) == IF attempt[g].cancel THEN "cancelled" ELSE "failed"
       IN  attempt' = [g \in Gens |->
                         IF attempt[g].job = "running" THEN EndJob(g, end(g))[g]
                         ELSE attempt[g]]
    /\ UNCHANGED <<build, leased, tomb, gc, gcQuarantine, stored, gate, builder,
                   collector, damaged, faults>>

-----------------------------------------------------------------------------
Builds ==
    \/ Enter \/ Reserve \/ WritePoints \/ WriteManifest \/ StopHeartbeat \/ Commit
    \/ BuildRefused \/ FailBuild \/ Leave

Ends == CompleteJob \/ AbortJob

Collects ==
    \/ StartMaintenance \/ RecoverExpired \/ EndBatch \/ Delete \/ Finish
    \/ EndMaintenance \/ \E g \in Gens : Claim(g)

Deadlines == \E g \in Gens : BuildLeaseExpires(g) \/ GCFallsDue(g)

Startup == RecoverBuilds \/ RecoverJobs

Troubles ==
    \/ BuildRaises \/ HeartbeatFails \/ JobLeft \/ DeleteFails \/ DeleteRefused
    \/ GCHeartbeatFails \/ CollectorRaises \/ Crash \/ \E g \in Gens : Damage(g)

Requests == (\E v \in Videos : Begin(v)) \/ \E g \in Gens : Cancel(g)

Next == Builds \/ Ends \/ Collects \/ Deadlines \/ Startup \/ Troubles \/ Requests

Spec == Init /\ [][Next]_vars

\* Threads are scheduled, calls return, deadlines pass, a process that is down
\* is started again.  A deadline that only a stall can pass is not forced.
Fairness ==
    /\ WF_vars(Builds) /\ WF_vars(Ends \/ JobLeft)
    /\ WF_vars(Collects) /\ WF_vars(Startup)
    /\ \A g \in Gens :
          /\ WF_vars(BuildLeaseExpires(g) /\ UNCHANGED faults)
          /\ WF_vars(GCFallsDue(g) /\ UNCHANGED faults)

FairSpec == Spec /\ Fairness

-----------------------------------------------------------------------------
(* Refinement of GenerationLife *)

Life(t) ==
    CASE t = None          -> "free"
      [] t = "building"    -> "reserved"
      [] t = "committed"   -> "published"
      [] t = "gc_pending"  -> "dropped"
      [] t = "gc_complete" -> "erased"
      [] t = "gc_failed"   -> "abandoned"

Promise == INSTANCE GenerationLife
    WITH Generations <- Gens, life <- [g \in Gens |-> Life(tomb[g])], content <- stored

\* Builder, collector, gate, leases and recovery together keep the promise: no
\* late write reaches a dropped generation, no deletion a reserved or
\* published one (TextVectorStorageGate, and the tables behind it).
ImplementsGenerationLife == Promise!Spec

-----------------------------------------------------------------------------
(* Properties *)

\* Every variable has its type.
TypeOK ==
    /\ attempt \in [Gens -> Attempts]
    /\ build \in [Gens -> {None, "active", "quarantined"}]
    /\ leased \in [Gens -> BOOLEAN]
    /\ tomb \in [Gens -> Tombs] /\ gc \in [Gens -> GCJobs]
    /\ gcQuarantine \subseteq damaged /\ damaged \subseteq Gens
    /\ stored \in [Gens -> SUBSET Parts]
    /\ gate \in Gates /\ builder \in Builders /\ collector \in Collectors
    /\ phase \in {"down", "recovered", "up"}
    /\ faults \in 0..MaxFaults

\* Four tables tell one story of every generation, whatever order the two
\* threads, recovery and crashes write them in: a reservation has a build row,
\* a committed generation a complete run, garbage a GC job in the state the
\* tombstone names.  A disagreement is what the code takes for corruption.
TablesAgree ==
    \A g \in Gens :
        /\ tomb[g] = "building" <=> build[g] # None
        /\ tomb[g] = "committed" <=> attempt[g].run = "complete"
        /\ tomb[g] = "gc_pending" <=> gc[g].state \in {"pending", "running"}
        /\ tomb[g] = "gc_complete" <=> gc[g].state = "complete"
        /\ tomb[g] = "gc_failed" <=> gc[g].state = "failed"

\* "Committed generations are never eligible for GC, and exact deletion is
\* verified before a job completes" (architecture.md): a committed generation
\* is stored whole, a collected one not at all and for ever, though the two
\* threads work on one collection.
StorageFollowsTables ==
    \A g \in Gens :
        /\ tomb[g] = "committed" => stored[g] = Parts
        /\ tomb[g] \in {None, "gc_complete"} => stored[g] = {}

\* A retry never runs into the build of an attempt that failed, was cancelled
\* or died with the process; only a damaged build, or one whose attempt
\* completed after its cleanup was deferred, can be in the way.
RetriesAreUnblocked ==
    BuilderAt("reserving") =>
        \A g \in Blocking : g \in damaged \/ attempt[g].job = "complete"

\* Every dropped generation leaves the queue of the collector: its vectors are
\* deleted, given up by contract, or its rows quarantined, across crashes,
\* lost leases and storage failures (claim_next_artifact_gc_job).
GarbageIsCollected ==
    \A g \in Gens :
        tomb[g] = "gc_pending" ~>
            tomb[g] \in {"gc_complete", "gc_failed"} \/ g \in gcQuarantine

\* A build that waits at the gate gets in, however often the collector polls,
\* unless the process dies (TextVectorStorageGate).
BuildsAreAdmitted == BuilderAt("waiting") ~> ~BuilderAt("waiting")

\* A build nobody works on any more does not stay active: the lease runs out
\* and the collector drops or quarantines it.
AbandonedBuildsEnd ==
    \A g \in Gens : build[g] = "active" /\ B # g ~> build[g] # "active"

\* Startup recovery gets through, also when there are more builds than one
\* start accepts or some of them cannot be read (recover_startup).
StartupCompletes == phase = "down" ~> phase = "up"
=============================================================================
