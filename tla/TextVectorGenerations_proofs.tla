-------------------- MODULE TextVectorGenerations_proofs --------------------
(***************************************************************************)
(* Proofs about TextVectorGenerations, for any videos and bounds: its      *)
(* tables agree, its storage follows them, and it implements               *)
(* GenerationLife.  The argument is one inductive invariant.  The gate     *)
(* keeps the collector out of recovery while the dispatcher is inside, so  *)
(* the reservation the dispatcher writes under cannot be dropped between   *)
(* two of its steps; and the generation the collector deletes is garbage,  *)
(* which is nobody's reservation.                                          *)
(***************************************************************************)
EXTENDS TextVectorGenerations, TLAPS

InGate  == {"reserving", "writing", "sealing", "checking", "committing", "failing",
            "leaving"}
Writing == {"writing", "sealing", "checking", "committing"}

\* An attempt that has not begun owns nothing.
Unused == \A g \in Gens : attempt[g].video = None => tomb[g] = None

\* The gate counts the dispatcher and the collector, never both inside, and a
\* process that is not up has neither thread.
GateHeld ==
    /\ gate.waiting = IF builder.at = "waiting" THEN 1 ELSE 0
    /\ gate.active = IF builder.at \in InGate THEN 1 ELSE 0
    /\ gate.maintenance <=> collector.at # "idle"
    /\ gate.maintenance => gate.active = 0
    /\ phase # "up" => builder.at = "idle" /\ collector.at = "idle"

\* The dispatcher writes under its own reservation, in order.
BuilderSound ==
    /\ builder.at # "idle" => B \in Gens /\ attempt[B].video # None
    /\ builder.at \in {"waiting", "reserving"} => tomb[B] = None
    /\ builder.at \in Writing => tomb[B] = "building"
    /\ BuilderAt("sealing") => "points" \in stored[B]
    /\ builder.at \in {"checking", "committing"} => stored[B] = Parts

\* The collector deletes garbage; a success it has yet to record is real.
CollectorSound ==
    collector.at \in {"deleting", "finishing"} =>
        /\ C \in Gens /\ tomb[C] = "gc_pending"
        /\ CollectorAt("finishing") /\ collector.outcome = "success" => stored[C] = {}

Inv ==
    /\ TypeOK /\ TablesAgree /\ Unused /\ GateHeld /\ BuilderSound /\ CollectorSound
    /\ StorageFollowsTables

-----------------------------------------------------------------------------
(* What the shared writes do *)

\* Ending runs touches nothing but runs, and completes none.
LEMMA RunsEnded ==
    ASSUME TypeOK, NEW G, NEW outcome \in {"failed", "cancelled"}
    PROVE  /\ EndRuns(G, outcome) \in [Gens -> Attempts]
           /\ \A g \in Gens :
                /\ EndRuns(G, outcome)[g].video = attempt[g].video
                /\ EndRuns(G, outcome)[g].run = "complete" <=> attempt[g].run = "complete"
BY DEF EndRuns, TypeOK, Attempts, Runs, None

\* Ending a job does the same and sets the job's state.
LEMMA JobEnded ==
    ASSUME TypeOK, NEW g \in Gens, NEW outcome \in {"failed", "cancelled"}
    PROVE  /\ EndJob(g, outcome) \in [Gens -> Attempts]
           /\ \A h \in Gens :
                /\ EndJob(g, outcome)[h].video = attempt[h].video
                /\ EndJob(g, outcome)[h].run = "complete" <=> attempt[h].run = "complete"
<1> DEFINE runs == EndRuns({g}, outcome)
<1>1. /\ runs \in [Gens -> Attempts]
      /\ \A h \in Gens : /\ runs[h].video = attempt[h].video
                         /\ runs[h].run = "complete" <=> attempt[h].run = "complete"
  BY RunsEnded
<1>2. EndJob(g, outcome) = [runs EXCEPT ![g].job = outcome]
  BY DEF EndJob
<1> HIDE DEF runs
<1> QED BY <1>1, <1>2 DEF Attempts, Runs

\* Reservations that are dropped become pending garbage, nothing else changes.
LEMMA Dropped ==
    ASSUME TypeOK, TablesAgree, NEW G \in SUBSET Gens, EnqueueGC(G),
           \A g \in G : tomb[g] = "building"
    PROVE  /\ tomb' \in [Gens -> Tombs] /\ gc' \in [Gens -> GCJobs]
           /\ \A g \in G : tomb'[g] = "gc_pending" /\ gc'[g].state = "pending"
           /\ \A g \in Gens \ G : tomb'[g] = tomb[g] /\ gc'[g] = gc[g]
<1>1. \A g \in G : gc[g].state = None
  BY DEF TypeOK, TablesAgree, GCJobs, None
<1>2. [state |-> "pending", attempt |-> 0, due |-> TRUE] \in GCJobs
  BY DEF GCJobs
<1> QED BY <1>1, <1>2 DEF EnqueueGC, TypeOK, Tombs

\* Recovery turns reservations into garbage or quarantines them.
LEMMA Recovered ==
    ASSUME TypeOK, TablesAgree, NEW rows \in SUBSET ActiveBuilds, RecoverRows(rows)
    PROVE  /\ attempt' \in [Gens -> Attempts]
           /\ build' \in [Gens -> {None, "active", "quarantined"}]
           /\ leased' = leased /\ gcQuarantine' = gcQuarantine
           /\ tomb' \in [Gens -> Tombs] /\ gc' \in [Gens -> GCJobs]
           /\ \A g \in Gens :
                /\ attempt'[g].video = attempt[g].video
                /\ attempt'[g].run = "complete" <=> attempt[g].run = "complete"
           /\ \A g \in rows \ damaged :
                /\ tomb[g] = "building" /\ build'[g] = None
                /\ tomb'[g] = "gc_pending" /\ gc'[g].state = "pending"
           /\ \A g \in rows \cap damaged :
                /\ tomb[g] = "building" /\ build'[g] = "quarantined"
                /\ tomb'[g] = tomb[g] /\ gc'[g] = gc[g]
           /\ \A g \in Gens \ rows :
                build'[g] = build[g] /\ tomb'[g] = tomb[g] /\ gc'[g] = gc[g]
<1> DEFINE good == rows \ damaged
<1>1. rows \subseteq Gens /\ \A g \in rows : tomb[g] = "building"
  BY DEF ActiveBuilds, TablesAgree, None
<1>2. /\ tomb' \in [Gens -> Tombs] /\ gc' \in [Gens -> GCJobs]
      /\ \A g \in good : tomb'[g] = "gc_pending" /\ gc'[g].state = "pending"
      /\ \A g \in Gens \ good : tomb'[g] = tomb[g] /\ gc'[g] = gc[g]
  BY <1>1, Dropped DEF RecoverRows
<1>3. /\ attempt' \in [Gens -> Attempts]
      /\ \A g \in Gens :
           /\ attempt'[g].video = attempt[g].video
           /\ attempt'[g].run = "complete" <=> attempt[g].run = "complete"
  BY RunsEnded DEF RecoverRows
<1>4. /\ build' = [g \in Gens |-> IF g \in good THEN None
                                  ELSE IF g \in rows THEN "quarantined" ELSE build[g]]
      /\ leased' = leased /\ gcQuarantine' = gcQuarantine
  BY DEF RecoverRows
<1>5. /\ build' \in [Gens -> {None, "active", "quarantined"}]
      /\ \A g \in good : build'[g] = None
      /\ \A g \in rows \cap damaged : build'[g] = "quarantined"
      /\ \A g \in Gens \ rows : build'[g] = build[g]
  BY <1>1, <1>4 DEF TypeOK
<1> QED BY <1>1, <1>2, <1>3, <1>4, <1>5

\* A batch of rows is taken from the rows there are.
LEMMA FirstRowsOf ==
    ASSUME NEW S, NEW n
    PROVE  FirstRows(S, n) \subseteq S
BY DEF FirstRows

-----------------------------------------------------------------------------
(* Type correctness *)

LEMMA Bounds == BatchSize \in Nat /\ MaxFaults \in Nat
BY ConstantsAssumption

\* The steps that leave the tables and the storage alone.
Quiet ==
    \/ Enter \/ StopHeartbeat \/ BuildRefused \/ HeartbeatFails \/ Leave \/ JobLeft
    \/ StartMaintenance \/ DeleteRefused \/ GCHeartbeatFails \/ CollectorRaises
    \/ EndMaintenance \/ Crash \/ \E g \in Gens : Damage(g)

\* The states of the gate and of the threads when nothing goes on.
LEMMA Blank == Open \in Gates /\ NoBuilder \in Builders /\ Resting \in Collectors
BY Bounds DEF Open, NoBuilder, Resting, Gates, Builders, Collectors, Outcomes

LEMMA QuietKeeps == Quiet => UNCHANGED <<tables, stored>> /\ damaged \subseteq damaged'
BY DEF Quiet, Enter, StopHeartbeat, BuildRefused, HeartbeatFails, Leave, JobLeft,
       StartMaintenance, DeleteRefused, GCHeartbeatFails, CollectorRaises, EndMaintenance,
       Crash, Damage, tables, threads

\* The types of what a quiet step changes.
LEMMA QuietTypes ==
    ASSUME TypeOK, GateHeld, BuilderSound, Quiet
    PROVE  TypeOK'
<1> USE Bounds
<1>0. UNCHANGED <<tables, stored>>
  BY QuietKeeps
<1>1. CASE Enter
  <2>0. gate.waiting = 1 /\ gate.active = 0
    BY <1>1 DEF Enter, GateHeld, InGate, BuilderAt
  <2>1. gate' \in Gates
    <3>1. gate.waiting - 1 \in 0..1 /\ gate.active + 1 \in 0..1
      BY <2>0
    <3>2. gate' = [gate EXCEPT !.waiting = gate.waiting - 1, !.active = gate.active + 1]
      BY <1>1 DEF Enter
    <3> QED BY <3>1, <3>2 DEF TypeOK, Gates
  <2>2. builder' \in Builders
    BY <1>1 DEF Enter, BuilderTo, TypeOK, Builders
  <2> QED BY <1>0, <1>1, <2>1, <2>2 DEF Enter, TypeOK, tables
<1>2. CASE StopHeartbeat \/ BuildRefused \/ HeartbeatFails
  <2>1. builder' \in Builders
    BY <1>2 DEF StopHeartbeat, BuildRefused, HeartbeatFails, BuilderTo, TypeOK, Builders
  <2> QED BY <1>0, <1>2, <2>1 DEF StopHeartbeat, BuildRefused, HeartbeatFails, TypeOK,
                                  tables, Fault
<1>3. CASE Leave
  <2>1. gate' = [gate EXCEPT !.active = 0] /\ gate' \in Gates
    BY <1>3 DEF Leave, TypeOK, GateHeld, InGate, BuilderAt, Gates
  <2>2. builder' \in Builders
    BY <1>3 DEF Leave, BuilderTo, TypeOK, Builders
  <2> QED BY <1>0, <1>3, <2>1, <2>2 DEF Leave, TypeOK, tables
<1>4. CASE JobLeft
  BY <1>0, <1>4, Blank DEF JobLeft, TypeOK, tables, Fault
<1>5. CASE StartMaintenance \/ EndMaintenance
  <2>1. gate' \in Gates
    BY <1>5 DEF StartMaintenance, EndMaintenance, TypeOK, Gates
  <2>2. collector' \in Collectors
    BY <1>5, Blank DEF StartMaintenance, EndMaintenance, CollectorTo, TypeOK, Collectors
  <2> QED BY <1>0, <1>5, <2>1, <2>2 DEF StartMaintenance, EndMaintenance, TypeOK, tables
<1>6. CASE DeleteRefused \/ GCHeartbeatFails
  <2>1. collector' \in Collectors
    BY <1>6 DEF DeleteRefused, GCHeartbeatFails, TypeOK, Collectors, Outcomes
  <2> QED BY <1>0, <1>6, <2>1 DEF DeleteRefused, GCHeartbeatFails, TypeOK, tables, Fault
<1>9. CASE CollectorRaises
  <2>1. collector' \in Collectors
    BY <1>9 DEF CollectorRaises, CollectorTo, TypeOK, Collectors
  <2> QED BY <1>0, <1>9, <2>1 DEF CollectorRaises, TypeOK, tables, Fault
<1>7. CASE Crash
  BY <1>0, <1>7, Blank DEF Crash, TypeOK, tables, Fault
<1>8. CASE \E g \in Gens : Damage(g)
  BY <1>0, <1>8 DEF Damage, TypeOK, tables, threads, Fault
<1> QED BY <1>1, <1>2, <1>3, <1>4, <1>5, <1>6, <1>7, <1>8, <1>9, Quiet DEF Quiet

\* Every step keeps every type.
LEMMA TypeStep ==
    ASSUME Inv, [Next]_vars
    PROVE  TypeOK'
<1> USE Bounds
<1>0. /\ TypeOK /\ TablesAgree /\ GateHeld /\ BuilderSound /\ CollectorSound
  BY DEF Inv
<1>1. CASE UNCHANGED vars
  BY <1>0, <1>1 DEF TypeOK, vars, tables, threads
<1>2. CASE Quiet
  BY <1>0, <1>2, QuietTypes
<1>3. ASSUME NEW v \in Videos, Begin(v) PROVE TypeOK'
  <2>1. PICK g \in Gens :
           /\ attempt' = [attempt EXCEPT ![g] = [video |-> v, job |-> "running",
                                                 cancel |-> FALSE, run |-> "running"]]
           /\ builder' = [at |-> "waiting", gen |-> g, lost |-> FALSE]
    BY <1>3 DEF Begin
  <2>2. gate' = [gate EXCEPT !.waiting = 1] /\ gate' \in Gates
    BY <1>0, <1>3 DEF Begin, GateHeld, BuilderAt, TypeOK, Gates
  <2>3. builder' \in Builders
    BY <2>1 DEF Builders
  <2>4. attempt' \in [Gens -> Attempts]
    BY <1>0, <2>1 DEF TypeOK, Attempts, Runs
  <2> QED BY <1>0, <1>3, <2>2, <2>3, <2>4 DEF Begin, TypeOK
<1>21. \A at \in {"writing", "sealing", "checking", "leaving", "failing"} :
        BuilderTo(at) => builder' \in Builders
  BY <1>0 DEF TypeOK, BuilderTo, Builders
<1>22. ASSUME NEW part \in Parts, Write(part) PROVE stored' \in [Gens -> SUBSET Parts]
  <2>1. CASE B \in Gens
    <3>1. stored[B] \cup {part} \in SUBSET Parts
      BY <1>0, <2>1 DEF TypeOK
    <3> QED BY <1>0, <1>22, <3>1 DEF TypeOK, Write
  <2>2. CASE B \notin Gens
    BY <1>0, <1>22, <2>2 DEF TypeOK, Write
  <2> QED BY <2>1, <2>2
<1>23. {"points", "manifest"} = Parts
  BY DEF Parts
<1>4. CASE Reserve
  BY <1>0, <1>4, <1>21 DEF Reserve, TypeOK, Tombs
<1>5. CASE WritePoints \/ WriteManifest
  BY <1>0, <1>5, <1>21, <1>22, <1>23 DEF WritePoints, WriteManifest, TypeOK, tables
<1>6. CASE Commit
  <2>1. B \in Gens => [attempt[B] EXCEPT !.run = "complete"] \in Attempts
    <3>1. "complete" \in Runs
      BY DEF Runs
    <3> QED BY <1>0, <3>1 DEF TypeOK, Attempts
  <2>4. attempt' \in [Gens -> Attempts]
    BY <1>0, <1>6, <2>1 DEF Commit, TypeOK
  <2>3. tomb' \in [Gens -> Tombs]
    BY <1>0, <1>6 DEF Commit, TypeOK, Tombs
  <2>2. build' \in [Gens -> {None, "active", "quarantined"}] /\ builder' \in Builders
    BY <1>0, <1>6, <1>21 DEF Commit, TypeOK
  <2> QED BY <1>0, <1>6, <2>2, <2>3, <2>4 DEF Commit, TypeOK
<1>7. CASE BuildRaises
  <2>1. stored' \in [Gens -> SUBSET Parts]
    BY <1>0, <1>7, <1>22, <1>23 DEF BuildRaises, TypeOK
  <2> QED BY <1>0, <1>7, <1>21, <2>1 DEF BuildRaises, TypeOK, tables, Fault
<1>8. CASE FailBuild
  <2>1. /\ attempt' \in [Gens -> Attempts]
        /\ UNCHANGED <<leased, gcQuarantine>>
    BY <1>0, <1>8, RunsEnded DEF FailBuild, TypeOK, tables
  <2>2. /\ build' \in [Gens -> {None, "active", "quarantined"}]
        /\ tomb' \in [Gens -> Tombs] /\ gc' \in [Gens -> GCJobs]
    <3>1. CASE UNCHANGED <<build, tomb, gc>>
      BY <1>0, <3>1 DEF TypeOK
    <3>2. CASE build[B] = "active" /\ DropBuilds({B})
      <4>1. B \in Gens /\ tomb[B] = "building"
        BY <1>0, <1>8, <3>2 DEF FailBuild, BuilderSound, BuilderAt, TablesAgree, None
      <4> QED BY <1>0, <3>2, <4>1, Dropped DEF DropBuilds, TypeOK
    <3> QED BY <1>8, <3>1, <3>2 DEF FailBuild, tables
  <2>3. builder' \in Builders /\ faults' \in 0..MaxFaults
    BY <1>0, <1>8, <1>21 DEF FailBuild, Fault, TypeOK
  <2> QED BY <1>0, <1>8, <2>1, <2>2, <2>3 DEF FailBuild, TypeOK
<1>9. CASE CompleteJob
  <2>1. attempt' \in [Gens -> Attempts]
    <3>1. B \in Gens => [attempt[B] EXCEPT !.job = "complete"] \in Attempts
      <4>1. "complete" \in Runs
        BY DEF Runs
      <4> QED BY <1>0, <4>1 DEF TypeOK, Attempts
    <3> QED BY <1>0, <1>9, <3>1 DEF CompleteJob, TypeOK
  <2>2. builder' \in Builders
    BY <1>9, Blank DEF CompleteJob
  <2>3. UNCHANGED <<build, leased, tomb, gc, gcQuarantine, stored, gate, collector,
                    phase, damaged, faults>>
    BY <1>9 DEF CompleteJob
  <2> QED BY <1>0, <2>1, <2>2, <2>3 DEF TypeOK
<1>10. CASE AbortJob
  <2>1. B \in Gens
    BY <1>0, <1>10 DEF AbortJob, BuilderSound, BuilderAt
  <2>2. attempt' \in [Gens -> Attempts]
    BY <1>0, <1>10, <2>1, JobEnded DEF AbortJob
  <2>3. \A g \in {B} \cap ActiveBuilds : tomb[g] = "building"
    BY <1>0 DEF ActiveBuilds, TablesAgree, None
  <2>4. tomb' \in [Gens -> Tombs] /\ gc' \in [Gens -> GCJobs]
    BY <1>0, <1>10, <2>1, <2>3, Dropped DEF AbortJob, DropBuilds, ActiveBuilds
  <2> QED BY <1>0, <1>10, <2>2, <2>4, Blank DEF AbortJob, DropBuilds, TypeOK
<1>11. ASSUME NEW g \in Gens, Cancel(g) PROVE TypeOK'
  <2>1. attempt' \in [Gens -> Attempts]
    BY <1>0, <1>11 DEF Cancel, TypeOK, Attempts
  <2> QED BY <1>0, <1>11, <2>1 DEF Cancel, TypeOK, threads
<1>12. CASE RecoverExpired
  <2>1. FirstRows(Expired, BatchSize) \in SUBSET ActiveBuilds
    BY FirstRowsOf, Expired \subseteq ActiveBuilds DEF Expired
  <2>2. collector' \in Collectors
    <3>1. 0 \in 0..BatchSize
      OBVIOUS
    <3> QED BY <1>0, <1>12, <3>1 DEF RecoverExpired, TypeOK, Collectors
  <2> QED BY <1>0, <1>12, <2>1, <2>2, Recovered DEF RecoverExpired, TypeOK
<1>24. ASSUME NEW seen, NEW h \in Gens PROVE Passed(seen, h) \in GCJobs
  <2>1. gc[h] \in GCJobs
    BY <1>0 DEF TypeOK
  <2> QED BY <2>1 DEF Passed, GCJobs
<1>13. ASSUME NEW g \in Gens, Claim(g) PROVE TypeOK'
  <2>1. PICK seen \in SUBSET (Ready \ {g}) :
           /\ gc' = [h \in Gens |->
                       IF h = g THEN [state |-> "running", due |-> FALSE,
                                      attempt |-> gc[g].attempt + 1]
                       ELSE Passed(seen, h)]
           /\ gcQuarantine' = gcQuarantine \cup (seen \cap damaged)
    BY <1>13 DEF Claim
  <2>2. gc[g].attempt \in Nat /\ gc[g].attempt + 1 \in Nat
    BY <1>0 DEF TypeOK, GCJobs
  <2>3. \A h \in Gens : Passed(seen, h) \in GCJobs
    BY <1>24
  <2>4. gc' \in [Gens -> GCJobs]
    BY <2>1, <2>2, <2>3 DEF GCJobs
  <2>5. collector.done + 1 \in 0..BatchSize
    BY <1>0, <1>13 DEF Claim, TypeOK, Collectors
  <2>6. collector' \in Collectors
    BY <1>13, <2>2, <2>5 DEF Claim, Collectors, Outcomes
  <2> QED BY <1>0, <1>13, <2>1, <2>4, <2>6 DEF Claim, TypeOK
<1>14. CASE EndBatch
  <2>1. collector' \in Collectors
    BY <1>0, <1>14 DEF EndBatch, CollectorTo, TypeOK, Collectors
  <2>2. gc' \in [Gens -> GCJobs] /\ gcQuarantine' \subseteq damaged
    BY <1>0, <1>14, <1>24 DEF EndBatch, TypeOK
  <2> QED BY <1>0, <1>14, <2>1, <2>2 DEF EndBatch, TypeOK
<1>15. CASE Delete \/ DeleteFails
  <2>1. collector' \in Collectors
    <3>1. CollectorTo("claiming") => collector' \in Collectors
      BY <1>0 DEF CollectorTo, TypeOK, Collectors
    <3>2. \A o \in {"success", "transient_failure"} :
            [collector EXCEPT !.at = "finishing", !.outcome = o] \in Collectors
      BY <1>0 DEF TypeOK, Collectors, Outcomes
    <3> QED BY <1>15, <3>1, <3>2 DEF Delete, DeleteFails
  <2>2. stored' \in [Gens -> SUBSET Parts]
    BY <1>0, <1>15 DEF Delete, DeleteFails, Erase, TypeOK
  <2>3. faults' \in 0..MaxFaults
    BY <1>0, <1>15 DEF Delete, DeleteFails, Fault, TypeOK
  <2>4. UNCHANGED <<attempt, build, leased, tomb, gc, gcQuarantine, damaged, gate,
                    builder, phase>>
    BY <1>15 DEF Delete, DeleteFails, tables
  <2> QED BY <1>0, <2>1, <2>2, <2>3, <2>4 DEF TypeOK
<1>16. CASE Finish
  <2>1. tomb' \in [Gens -> Tombs]
    BY <1>0, <1>16 DEF Finish, TypeOK, Tombs
  <2>2. \A state \in {"complete", "failed", "pending"} :
           [gc EXCEPT ![C].state = state] \in [Gens -> GCJobs]
    BY <1>0 DEF TypeOK, GCJobs
  <2>3. gc' \in [Gens -> GCJobs]
    BY <1>0, <1>16, <2>2 DEF Finish, TypeOK
  <2>4. collector' \in Collectors
    BY <1>0, <1>16 DEF Finish, CollectorTo, TypeOK, Collectors
  <2> QED BY <1>0, <1>16, <2>1, <2>3, <2>4 DEF Finish, TypeOK
<1>17. ASSUME NEW g \in Gens, BuildLeaseExpires(g) PROVE TypeOK'
  BY <1>0, <1>17 DEF BuildLeaseExpires, TypeOK, threads, Fault
<1>18. ASSUME NEW g \in Gens, GCFallsDue(g) PROVE TypeOK'
  <2>1. gc' \in [Gens -> GCJobs]
    BY <1>0, <1>18 DEF GCFallsDue, TypeOK, GCJobs
  <2> QED BY <1>0, <1>18, <2>1 DEF GCFallsDue, TypeOK, threads, Fault
<1>19. CASE RecoverBuilds
  <2>1. StartupRows \in SUBSET ActiveBuilds
    BY FirstRowsOf DEF StartupRows
  <2> QED BY <1>0, <1>19, <2>1, Recovered DEF RecoverBuilds, TypeOK
<1>20. CASE RecoverJobs
  <2>1. \A g \in Gens : EndJob(g, "cancelled")[g] \in Attempts
                        /\ EndJob(g, "failed")[g] \in Attempts
    BY <1>0, JobEnded
  <2>2. attempt' \in [Gens -> Attempts]
    BY <1>0, <1>20, <2>1 DEF RecoverJobs, TypeOK
  <2> QED BY <1>0, <1>20, <2>2 DEF RecoverJobs, TypeOK
<1> QED
  BY <1>1, <1>2, <1>3, <1>4, <1>5, <1>6, <1>7, <1>8, <1>9, <1>10, <1>11, <1>12, <1>13,
     <1>14, <1>15, <1>16, <1>17, <1>18, <1>19, <1>20
  DEF Next, Builds, Ends, Collects, Deadlines, Startup, Troubles, Requests, Quiet

-----------------------------------------------------------------------------
(* The tables agree *)

\* The steps, apart from quiet ones, that leave runs, builds, tombstones and GC
\* states alone.
Plain ==
    \/ WritePoints \/ WriteManifest \/ BuildRaises \/ Delete \/ DeleteFails
    \/ \E g \in Gens : BuildLeaseExpires(g)

LEMMA PlainKeeps == Plain => UNCHANGED <<attempt, build, tomb, gc, gate, phase>>
BY DEF Plain, WritePoints, WriteManifest, BuildRaises, Delete, DeleteFails,
       BuildLeaseExpires, tables, threads

\* What dropping a set of builds does to the tables, given what it does to runs.
LEMMA DroppedAgree ==
    ASSUME TypeOK, TablesAgree, Unused, NEW G \in SUBSET Gens, DropBuilds(G),
           \A g \in G : tomb[g] = "building",
           \A g \in Gens :
              /\ attempt'[g].video = attempt[g].video
              /\ attempt'[g].run = "complete" <=> attempt[g].run = "complete"
    PROVE  TablesAgree' /\ Unused'
<1>1. /\ \A g \in G : tomb'[g] = "gc_pending" /\ gc'[g].state = "pending"
      /\ \A g \in Gens \ G : tomb'[g] = tomb[g] /\ gc'[g] = gc[g]
  BY Dropped DEF DropBuilds
<1>2. \A g \in Gens : build'[g] = IF g \in G THEN None ELSE build[g]
  BY DEF DropBuilds
<1> QED BY <1>1, <1>2 DEF TablesAgree, Unused, None

\* The same for recovery.
LEMMA RecoveredAgree ==
    ASSUME TypeOK, TablesAgree, Unused, NEW rows \in SUBSET ActiveBuilds,
           RecoverRows(rows)
    PROVE  TablesAgree' /\ Unused'
<1> DEFINE Same(g) == build'[g] = build[g] /\ tomb'[g] = tomb[g] /\ gc'[g] = gc[g]
<1>1. \A g \in Gens : /\ attempt'[g].video = attempt[g].video
                      /\ attempt'[g].run = "complete" <=> attempt[g].run = "complete"
  BY Recovered
<1>2. \A g \in Gens :
        \/ /\ tomb[g] = "building" /\ build'[g] = None
           /\ tomb'[g] = "gc_pending" /\ gc'[g].state = "pending"
        \/ /\ tomb[g] = "building" /\ build'[g] = "quarantined"
           /\ tomb'[g] = tomb[g] /\ gc'[g] = gc[g]
        \/ Same(g)
  <2>1. rows \subseteq Gens
    BY DEF ActiveBuilds
  <2> QED BY <2>1, Recovered
<1> QED BY <1>1, <1>2 DEF TablesAgree, Unused, None

\* Every step keeps the four tables in agreement.
LEMMA TablesStep ==
    ASSUME Inv, [Next]_vars
    PROVE  TablesAgree' /\ Unused'
<1>0. /\ TypeOK /\ TablesAgree /\ Unused /\ GateHeld /\ BuilderSound /\ CollectorSound
  BY DEF Inv
<1>1. CASE UNCHANGED <<attempt, build, tomb, gc>>
  BY <1>0, <1>1 DEF TablesAgree, Unused
<1>2. CASE Quiet
  BY <1>1, <1>2, QuietKeeps DEF tables
<1>3. CASE Plain
  BY <1>1, <1>3, PlainKeeps
<1>4. ASSUME NEW v \in Videos, Begin(v) PROVE TablesAgree' /\ Unused'
  <2>1. PICK g \in Gens :
           /\ attempt[g].video = None
           /\ attempt' = [attempt EXCEPT ![g] = [video |-> v, job |-> "running",
                                                 cancel |-> FALSE, run |-> "running"]]
    BY <1>4 DEF Begin
  <2>2. tomb[g] = None /\ v # None
    BY <1>0, <2>1, ConstantsAssumption DEF Unused
  <2>3. UNCHANGED <<build, tomb, gc>>
    BY <1>4 DEF Begin
  <2> QED BY <1>0, <2>1, <2>2, <2>3 DEF TablesAgree, Unused, TypeOK, None
<1>5. CASE Reserve
  <2>1. /\ B \in Gens /\ tomb[B] = None /\ attempt[B].video # None
        /\ UNCHANGED <<attempt, gc>>
        /\ build' = [build EXCEPT ![B] = "active"]
        /\ tomb' = [tomb EXCEPT ![B] = "building"]
    BY <1>0, <1>5 DEF Reserve, BuilderSound, BuilderAt
  <2> QED BY <1>0, <2>1 DEF TablesAgree, Unused, TypeOK, None
<1>6. CASE Commit
  <2>1. /\ B \in Gens /\ tomb[B] = "building" /\ attempt[B].video # None
        /\ attempt' = [attempt EXCEPT ![B].run = "complete"]
        /\ tomb' = [tomb EXCEPT ![B] = "committed"]
        /\ build' = [build EXCEPT ![B] = None] /\ UNCHANGED gc
    BY <1>0, <1>6 DEF Commit, BuilderSound, BuilderAt, Writing
  <2>2. \A g \in Gens :
           /\ attempt'[g].video = attempt[g].video
           /\ attempt'[g].run = IF g = B THEN "complete" ELSE attempt[g].run
    BY <1>0, <2>1 DEF TypeOK, Attempts
  <2> QED BY <1>0, <2>1, <2>2 DEF TablesAgree, Unused, TypeOK, None
<1>7. CASE FailBuild
  <2>1. \A g \in Gens : /\ attempt'[g].video = attempt[g].video
                        /\ attempt'[g].run = "complete" <=> attempt[g].run = "complete"
    BY <1>0, <1>7, RunsEnded DEF FailBuild, tables
  <2>2. CASE build[B] = "active" /\ DropBuilds({B})
    <3>1. B \in Gens /\ tomb[B] = "building"
      BY <1>0, <1>7, <2>2 DEF FailBuild, BuilderSound, BuilderAt, TablesAgree, None
    <3> QED BY <1>0, <2>1, <2>2, <3>1, DroppedAgree
  <2>3. CASE UNCHANGED <<build, tomb, gc>>
    BY <1>0, <2>1, <2>3 DEF TablesAgree, Unused
  <2> QED BY <1>7, <2>2, <2>3 DEF FailBuild, tables
<1>8. CASE CompleteJob
  <2>1. \A g \in Gens : /\ attempt'[g].video = attempt[g].video
                        /\ attempt'[g].run = attempt[g].run
    BY <1>0, <1>8 DEF CompleteJob, TypeOK, Attempts
  <2> QED BY <1>0, <1>8, <2>1 DEF CompleteJob, TablesAgree, Unused
<1>9. CASE AbortJob
  <2>1. B \in Gens
    BY <1>0, <1>9 DEF AbortJob, BuilderSound, BuilderAt
  <2>2. \A g \in Gens : /\ attempt'[g].video = attempt[g].video
                        /\ attempt'[g].run = "complete" <=> attempt[g].run = "complete"
    BY <1>0, <1>9, <2>1, JobEnded DEF AbortJob
  <2>3. \A g \in {B} \cap ActiveBuilds : tomb[g] = "building"
    BY <1>0 DEF ActiveBuilds, TablesAgree, None
  <2> QED BY <1>0, <1>9, <2>1, <2>2, <2>3, DroppedAgree DEF AbortJob
<1>10. ASSUME NEW g \in Gens, Cancel(g) PROVE TablesAgree' /\ Unused'
  <2>1. \A h \in Gens : /\ attempt'[h].video = attempt[h].video
                        /\ attempt'[h].run = attempt[h].run
    BY <1>0, <1>10 DEF Cancel, TypeOK, Attempts
  <2> QED BY <1>0, <1>10, <2>1 DEF Cancel, TablesAgree, Unused
<1>11. CASE RecoverExpired
  <2>1. FirstRows(Expired, BatchSize) \in SUBSET ActiveBuilds
    BY FirstRowsOf, Expired \subseteq ActiveBuilds DEF Expired
  <2> QED BY <1>0, <1>11, <2>1, RecoveredAgree DEF RecoverExpired
<1>12. CASE RecoverBuilds
  <2>1. StartupRows \in SUBSET ActiveBuilds
    BY FirstRowsOf DEF StartupRows
  <2> QED BY <1>0, <1>12, <2>1, RecoveredAgree DEF RecoverBuilds
<1>13. CASE EndBatch \/ (\E g \in Gens : Claim(g)) \/ \E g \in Gens : GCFallsDue(g)
  <2>1. \A g \in Gens : gc'[g].state \in {"pending", "running"}
                          <=> gc[g].state \in {"pending", "running"}
    <3>1. CASE \E g \in Gens : GCFallsDue(g)
      BY <1>0, <3>1 DEF GCFallsDue, TypeOK, GCJobs
    <3>2. ASSUME NEW seen \in SUBSET Ready, NEW h \in Gens
          PROVE  Passed(seen, h).state \in {"pending", "running"}
                   <=> gc[h].state \in {"pending", "running"}
      <4>1. gc[h] \in GCJobs
        BY <1>0 DEF TypeOK
      <4> QED BY <3>2, <4>1 DEF Passed, Ready, GCJobs
    <3>3. CASE EndBatch
      BY <1>0, <3>2, <3>3 DEF EndBatch
    <3>4. ASSUME NEW g \in Gens, Claim(g)
          PROVE  \A h \in Gens : gc'[h].state \in {"pending", "running"}
                                   <=> gc[h].state \in {"pending", "running"}
      BY <3>2, <3>4 DEF Claim, Claimable
    <3> QED BY <1>13, <3>1, <3>3, <3>4
  <2>2. \A g \in Gens : gc'[g].state \in {"pending", "running"} \/ gc'[g] = gc[g]
    <3>1. CASE \E g \in Gens : GCFallsDue(g)
      BY <1>0, <3>1 DEF GCFallsDue, TypeOK, GCJobs
    <3>2. ASSUME NEW seen \in SUBSET Ready, NEW h \in Gens
          PROVE  Passed(seen, h).state \in {"pending", "running"} \/ Passed(seen, h) = gc[h]
      <4>1. gc[h] \in GCJobs
        BY <1>0 DEF TypeOK
      <4> QED BY <4>1 DEF Passed, GCJobs
    <3>3. CASE EndBatch
      BY <3>2, <3>3 DEF EndBatch
    <3>4. ASSUME NEW g \in Gens, Claim(g)
          PROVE  \A h \in Gens : gc'[h].state \in {"pending", "running"} \/ gc'[h] = gc[h]
      BY <3>2, <3>4 DEF Claim
    <3> QED BY <1>13, <3>1, <3>3, <3>4
  <2>3. UNCHANGED <<attempt, build, tomb>>
    BY <1>13 DEF EndBatch, Claim, GCFallsDue, threads
  <2> QED BY <1>0, <2>1, <2>2, <2>3 DEF TablesAgree, Unused
<1>14. CASE Finish
  <2>1. C \in Gens /\ tomb[C] = "gc_pending" /\ UNCHANGED <<attempt, build>>
    BY <1>0, <1>14 DEF Finish, CollectorSound, CollectorAt
  <2>2. \A state \in {"complete", "failed", "pending"} :
           LET jobs == [gc EXCEPT ![C].state = state]
           IN  \A g \in Gens : jobs[g].state = IF g = C THEN state ELSE gc[g].state
    BY <1>0 DEF TypeOK, GCJobs
  <2>3. \/ UNCHANGED <<gc, tomb>>
        \/ /\ gc' = [gc EXCEPT ![C].state = "complete"]
           /\ tomb' = [tomb EXCEPT ![C] = "gc_complete"]
        \/ /\ gc' = [gc EXCEPT ![C].state = "failed"]
           /\ tomb' = [tomb EXCEPT ![C] = "gc_failed"]
        \/ gc' = [gc EXCEPT ![C].state = "pending"] /\ UNCHANGED tomb
    BY <1>14 DEF Finish
  <2>4. attempt[C].run # "complete" /\ build[C] = None /\ attempt[C].video # None
    BY <1>0, <2>1 DEF TablesAgree, Unused, None
  <2>5. CASE UNCHANGED <<gc, tomb>>
    BY <1>1, <2>1, <2>5
  <2>6. CASE gc' = [gc EXCEPT ![C].state = "pending"] /\ UNCHANGED tomb
    BY <1>0, <2>1, <2>2, <2>6 DEF TablesAgree, Unused, None
  <2>7. ASSUME NEW end \in {<<"complete", "gc_complete">>, <<"failed", "gc_failed">>},
               gc' = [gc EXCEPT ![C].state = end[1]], tomb' = [tomb EXCEPT ![C] = end[2]]
        PROVE  TablesAgree' /\ Unused'
    <3>1. \A g \in Gens : gc'[g].state = IF g = C THEN end[1] ELSE gc[g].state
      BY <2>2, <2>7
    <3>2. \A g \in Gens : tomb'[g] = IF g = C THEN end[2] ELSE tomb[g]
      BY <1>0, <2>7 DEF TypeOK
    <3> QED BY <1>0, <2>1, <2>4, <3>1, <3>2 DEF TablesAgree, Unused, None
  <2> QED BY <2>3, <2>5, <2>6, <2>7
<1>15. CASE RecoverJobs
  <2>1. \A g \in Gens : /\ attempt'[g].video = attempt[g].video
                        /\ attempt'[g].run = "complete" <=> attempt[g].run = "complete"
    BY <1>0, <1>15, JobEnded DEF RecoverJobs
  <2> QED BY <1>0, <1>15, <2>1 DEF RecoverJobs, TablesAgree, Unused
<1>16. CASE UNCHANGED vars
  BY <1>1, <1>16 DEF vars, tables
<1> QED
  BY <1>2, <1>3, <1>4, <1>5, <1>6, <1>7, <1>8, <1>9, <1>10, <1>11, <1>12, <1>13,
     <1>14, <1>15, <1>16
  DEF Next, Builds, Ends, Collects, Deadlines, Startup, Troubles, Requests, Quiet, Plain

-----------------------------------------------------------------------------
(* The gate and the dispatcher *)

\* Every step keeps the gate's account of the two threads.
LEMMA GateStep ==
    ASSUME TypeOK, GateHeld, BuilderSound, [Next]_vars
    PROVE  GateHeld'
<1>1. /\ gate.active \in 0..1 /\ gate.waiting \in 0..1 /\ gate.maintenance \in BOOLEAN
      /\ DOMAIN gate = {"active", "waiting", "maintenance"}
  BY DEF TypeOK, Gates
<1>2. \A at : BuilderTo(at) => builder'.at = at
  BY DEF TypeOK, Builders, BuilderTo
<1>3. \A at : CollectorTo(at) => collector'.at = at
  BY DEF TypeOK, Collectors, CollectorTo
<1>4. CASE UNCHANGED <<gate, phase, builder, collector>>
  BY <1>4 DEF GateHeld
<1>5. CASE \E v \in Videos : Begin(v)
  BY <1>1, <1>5 DEF Begin, GateHeld, BuilderAt, InGate
<1>6. CASE Enter
  <2>1. builder'.at = "reserving" /\ gate.waiting = 1 /\ gate.active = 0
    BY <1>2, <1>6 DEF Enter, BuilderAt, GateHeld, InGate
  <2>2. /\ gate'.waiting = 0 /\ gate'.active = 1
        /\ gate'.maintenance = gate.maintenance /\ ~gate.maintenance
    BY <1>1, <1>6, <2>1 DEF Enter
  <2> QED BY <1>6, <2>1, <2>2 DEF Enter, GateHeld, InGate, BuilderAt
<1>7. CASE Leave
  <2>1. builder'.at = "ending" /\ gate.waiting = 0 /\ gate.active = 1
    BY <1>2, <1>7 DEF Leave, BuilderAt, GateHeld, InGate
  <2>2. /\ gate'.waiting = 0 /\ gate'.active = 0
        /\ gate'.maintenance = gate.maintenance
    BY <1>1, <1>7, <2>1 DEF Leave
  <2> QED BY <1>7, <2>1, <2>2 DEF Leave, GateHeld, InGate, BuilderAt
<1>8. CASE /\ UNCHANGED <<gate, phase, collector>>
           /\ builder.at \in InGate /\ builder'.at \in InGate
  BY <1>8 DEF GateHeld, InGate
<1>9. CASE Reserve \/ WritePoints \/ WriteManifest \/ StopHeartbeat \/ Commit
           \/ BuildRefused \/ BuildRaises \/ HeartbeatFails \/ FailBuild
  <2>1. UNCHANGED <<gate, phase, collector>> /\ builder.at \in InGate
    BY <1>9 DEF Reserve, WritePoints, WriteManifest, StopHeartbeat, Commit, BuildRefused,
                BuildRaises, HeartbeatFails, FailBuild, BuilderAt, InGate
  <2>2. builder'.at \in InGate
    <3>1. CASE HeartbeatFails
      BY <3>1 DEF HeartbeatFails, TypeOK, Builders, InGate
    <3>2. CASE Reserve \/ WritePoints \/ WriteManifest \/ StopHeartbeat \/ Commit
               \/ BuildRefused \/ BuildRaises \/ FailBuild
      <4>1. \E at \in InGate : BuilderTo(at)
        BY <3>2 DEF Reserve, WritePoints, WriteManifest, StopHeartbeat, Commit,
                    BuildRefused, BuildRaises, FailBuild, InGate
      <4> QED BY <1>2, <4>1
    <3> QED BY <1>9, <3>1, <3>2
  <2> QED BY <1>8, <2>1, <2>2
<1>10. CASE CompleteJob \/ AbortJob \/ JobLeft
  <2>1. /\ UNCHANGED <<gate, phase, collector>>
        /\ builder.at = "ending" /\ builder'.at = "idle"
    BY <1>10 DEF CompleteJob, AbortJob, JobLeft, BuilderAt, NoBuilder
  <2> QED BY <2>1 DEF GateHeld, InGate
<1>11. CASE StartMaintenance
  <2>1. collector'.at = "recovering"
    BY <1>3, <1>11 DEF StartMaintenance
  <2>2. /\ gate'.waiting = gate.waiting /\ gate'.active = gate.active
        /\ gate'.maintenance = TRUE /\ gate.active = 0
    BY <1>1, <1>11 DEF StartMaintenance
  <2> QED BY <1>11, <2>1, <2>2 DEF StartMaintenance, GateHeld
<1>12. CASE EndMaintenance
  <2>1. collector'.at = "idle"
    BY <1>12 DEF EndMaintenance, Resting
  <2>2. /\ gate'.waiting = gate.waiting /\ gate'.active = gate.active
        /\ gate'.maintenance = FALSE
    BY <1>1, <1>12 DEF EndMaintenance
  <2> QED BY <1>12, <2>1, <2>2 DEF EndMaintenance, GateHeld
<1>13. CASE RecoverExpired \/ EndBatch \/ Delete \/ DeleteFails \/ DeleteRefused
            \/ GCHeartbeatFails \/ CollectorRaises \/ Finish \/ \E g \in Gens : Claim(g)
  <2>1. UNCHANGED <<gate, phase, builder>> /\ collector.at # "idle"
    BY <1>13 DEF RecoverExpired, EndBatch, Delete, DeleteFails, DeleteRefused,
                 GCHeartbeatFails, CollectorRaises, Finish, Claim, CollectorAt
  <2>2. collector'.at # "idle"
    <3>1. CASE EndBatch \/ Delete \/ Finish
      BY <1>3, <3>1 DEF EndBatch, Delete, Finish, TypeOK, Collectors
    <3>2. CASE RecoverExpired
      BY <3>2 DEF RecoverExpired, TypeOK, Collectors
    <3>3. CASE DeleteFails \/ DeleteRefused
      BY <3>3 DEF DeleteFails, DeleteRefused, TypeOK, Collectors
    <3>4. CASE GCHeartbeatFails
      BY <2>1, <3>4 DEF GCHeartbeatFails, TypeOK, Collectors
    <3>5. CASE \E g \in Gens : Claim(g)
      BY <3>5 DEF Claim
    <3>6. CASE CollectorRaises
      BY <1>3, <3>6 DEF CollectorRaises
    <3> QED BY <1>13, <3>1, <3>2, <3>3, <3>4, <3>5, <3>6
  <2> QED BY <2>1, <2>2 DEF GateHeld
<1>14. CASE Crash
  BY <1>14 DEF Crash, GateHeld, Open, NoBuilder, Resting, InGate
<1>15. CASE RecoverBuilds \/ RecoverJobs
  <2>1. UNCHANGED <<gate, builder, collector>> /\ phase # "up"
    BY <1>15 DEF RecoverBuilds, RecoverJobs
  <2> QED BY <2>1 DEF GateHeld
<1>16. CASE \E g \in Gens : Cancel(g) \/ BuildLeaseExpires(g) \/ GCFallsDue(g) \/ Damage(g)
  BY <1>4, <1>16 DEF Cancel, BuildLeaseExpires, GCFallsDue, Damage, threads
<1>17. CASE UNCHANGED vars
  BY <1>4, <1>17 DEF vars, threads
<1> QED
  BY <1>5, <1>6, <1>7, <1>9, <1>10, <1>11, <1>12, <1>13, <1>14, <1>15, <1>16, <1>17
  DEF Next, Builds, Ends, Collects, Deadlines, Startup, Troubles, Requests

\* Every step leaves the dispatcher with the reservation it works under.
LEMMA BuilderStep ==
    ASSUME Inv, [Next]_vars
    PROVE  BuilderSound'
<1>0. /\ TypeOK /\ TablesAgree /\ Unused /\ GateHeld /\ BuilderSound /\ CollectorSound
  BY DEF Inv
<1>1. \A at : BuilderTo(at) => builder'.at = at /\ builder'.gen = B
  BY <1>0 DEF TypeOK, Builders, BuilderTo, B
<1>2. ASSUME UNCHANGED builder,
             builder.at # "idle" => attempt'[B].video # None,
             builder.at \in {"waiting", "reserving"} \cup Writing => tomb'[B] = tomb[B],
             builder.at \in Writing => stored'[B] = stored[B]
      PROVE  BuilderSound'
  BY <1>0, <1>2 DEF BuilderSound, BuilderAt, Writing, B
<1>3. CASE UNCHANGED <<builder, attempt, tomb, stored>>
  BY <1>0, <1>2, <1>3 DEF BuilderSound
<1>4. CASE \E v \in Videos : Begin(v)
  <2>1. PICK v \in Videos, g \in Gens :
           /\ attempt[g].video = None
           /\ attempt' = [attempt EXCEPT ![g] = [video |-> v, job |-> "running",
                                                 cancel |-> FALSE, run |-> "running"]]
           /\ builder' = [at |-> "waiting", gen |-> g, lost |-> FALSE]
           /\ UNCHANGED tomb
    BY <1>4 DEF Begin
  <2>2. tomb'[g] = None /\ attempt'[g].video # None
    BY <1>0, <2>1, ConstantsAssumption DEF Unused, TypeOK
  <2> QED BY <2>1, <2>2 DEF BuilderSound, BuilderAt, Writing, B
<1>5. ASSUME builder.at # "idle", builder'.gen = B, attempt'[B].video = attempt[B].video,
             builder'.at \in {"failing", "leaving", "ending"}
      PROVE  BuilderSound'
  BY <1>0, <1>5 DEF BuilderSound, BuilderAt, Writing, B
<1>6. CASE Enter \/ Reserve \/ StopHeartbeat
  <2>1. B \in Gens /\ attempt'[B].video # None /\ builder'.gen = B
    BY <1>0, <1>1, <1>6 DEF Enter, Reserve, StopHeartbeat, BuilderSound, BuilderAt, tables
  <2>2. CASE Enter
    <3>1. builder'.at = "reserving" /\ tomb'[B] = None
      BY <1>0, <1>1, <2>2 DEF Enter, BuilderSound, BuilderAt, tables
    <3> QED BY <2>1, <3>1 DEF BuilderSound, BuilderAt, Writing, B
  <2>3. CASE Reserve
    <3>1. builder'.at = "writing" /\ tomb'[B] = "building"
      BY <1>0, <1>1, <2>1, <2>3 DEF Reserve, TypeOK
    <3> QED BY <2>1, <3>1 DEF BuilderSound, BuilderAt, Writing, B
  <2>4. CASE StopHeartbeat
    <3>1. builder'.at = "committing" /\ tomb'[B] = "building" /\ stored'[B] = Parts
      BY <1>0, <1>1, <2>4 DEF StopHeartbeat, BuilderSound, BuilderAt, Writing, tables
    <3> QED BY <2>1, <3>1 DEF BuilderSound, BuilderAt, Writing, B
  <2> QED BY <1>6, <2>2, <2>3, <2>4
<1>7. CASE WritePoints \/ WriteManifest
  <2>1. /\ B \in Gens /\ attempt'[B].video # None /\ builder'.gen = B
        /\ tomb'[B] = "building"
    BY <1>0, <1>1, <1>7 DEF WritePoints, WriteManifest, BuilderSound, BuilderAt, Writing,
                            tables
  <2>2. CASE WritePoints
    <3>1. builder'.at = "sealing" /\ "points" \in stored'[B]
      BY <1>0, <1>1, <2>1, <2>2 DEF WritePoints, Write, TypeOK
    <3> QED BY <2>1, <3>1 DEF BuilderSound, BuilderAt, Writing, B
  <2>3. CASE WriteManifest
    <3>1. "points" \in stored[B] /\ stored[B] \subseteq Parts
      BY <1>0, <2>1, <2>3 DEF WriteManifest, BuilderSound, BuilderAt, TypeOK
    <3>2. builder'.at = "checking" /\ stored'[B] = stored[B] \cup {"manifest"}
      BY <1>0, <1>1, <2>1, <2>3 DEF WriteManifest, Write, TypeOK
    <3>3. stored'[B] = Parts
      BY <3>1, <3>2 DEF Parts
    <3> QED BY <2>1, <3>2, <3>3 DEF BuilderSound, BuilderAt, Writing, B
  <2> QED BY <1>7, <2>2, <2>3
<1>8. CASE Commit
  <2>1. attempt'[B].video = attempt[B].video
    BY <1>0, <1>8 DEF Commit, BuilderSound, BuilderAt, TypeOK, Attempts
  <2> QED BY <1>1, <1>5, <1>8, <2>1 DEF Commit, BuilderAt
<1>9. CASE BuildRefused \/ BuildRaises \/ Leave
  BY <1>1, <1>5, <1>9 DEF BuildRefused, BuildRaises, Leave, BuilderAt, tables
<1>10. CASE FailBuild
  <2>1. attempt'[B].video = attempt[B].video
    BY <1>0, <1>10, RunsEnded DEF FailBuild, BuilderSound, BuilderAt, tables
  <2> QED BY <1>1, <1>5, <1>10, <2>1 DEF FailBuild, BuilderAt
<1>11. CASE HeartbeatFails
  <2>1. builder'.at = builder.at /\ builder'.gen = B
    BY <1>0, <1>11 DEF HeartbeatFails, TypeOK, Builders, B
  <2> QED BY <1>0, <1>11, <2>1 DEF HeartbeatFails, BuilderSound, BuilderAt, Writing, B, tables
<1>12. CASE CompleteJob \/ AbortJob \/ JobLeft \/ Crash
  BY <1>12 DEF CompleteJob, AbortJob, JobLeft, Crash, NoBuilder, BuilderSound, BuilderAt,
               Writing
<1>13. CASE \E g \in Gens : Cancel(g)
  <2>1. \A h \in Gens : attempt'[h].video = attempt[h].video
    BY <1>0, <1>13 DEF Cancel, TypeOK, Attempts
  <2>2. UNCHANGED <<builder, tomb, stored>>
    BY <1>13 DEF Cancel, threads
  <2> QED BY <1>0, <1>2, <2>1, <2>2 DEF BuilderSound
<1>14. CASE StartMaintenance \/ EndMaintenance \/ DeleteRefused \/ GCHeartbeatFails
            \/ CollectorRaises \/ EndBatch
            \/ \E g \in Gens : Claim(g) \/ BuildLeaseExpires(g) \/ GCFallsDue(g) \/ Damage(g)
  BY <1>3, <1>14 DEF StartMaintenance, EndMaintenance, DeleteRefused, GCHeartbeatFails,
                     CollectorRaises, EndBatch, Claim, BuildLeaseExpires, GCFallsDue,
                     Damage, tables, threads
<1>15. CASE RecoverExpired
  <2>1. FirstRows(Expired, BatchSize) \in SUBSET ActiveBuilds
    BY FirstRowsOf, Expired \subseteq ActiveBuilds DEF Expired
  <2>2. \A g \in Gens : /\ attempt'[g].video = attempt[g].video
                        /\ tomb[g] # "building" => tomb'[g] = tomb[g]
    BY <1>0, <1>15, <2>1, Recovered DEF RecoverExpired
  <2>3. builder.at \notin InGate
    BY <1>0, <1>15 DEF RecoverExpired, CollectorAt, GateHeld
  <2>4. UNCHANGED <<builder, stored>>
    BY <1>15 DEF RecoverExpired
  <2> QED BY <1>0, <1>2, <2>2, <2>3, <2>4, None # "building"
          DEF BuilderSound, InGate, Writing, None
<1>16. CASE Delete \/ DeleteFails \/ Finish
  <2>1. C \in Gens /\ tomb[C] = "gc_pending"
    BY <1>0, <1>16 DEF Delete, DeleteFails, Finish, CollectorSound, CollectorAt
  <2>2. \A g \in Gens \ {C} : tomb'[g] = tomb[g] /\ stored'[g] = stored[g]
    BY <1>0, <1>16, <2>1 DEF Delete, DeleteFails, Erase, Finish, TypeOK, tables
  <2>3. UNCHANGED <<builder, attempt>>
    BY <1>16 DEF Delete, DeleteFails, Finish, tables
  <2>4. builder.at \in {"waiting", "reserving"} \cup Writing => B \in Gens \ {C}
    BY <1>0, <2>1 DEF BuilderSound, Writing, None
  <2> QED BY <1>0, <1>2, <2>2, <2>3, <2>4 DEF BuilderSound
<1>17. CASE RecoverBuilds \/ RecoverJobs
  <2>1. builder'.at = "idle"
    BY <1>0, <1>17 DEF RecoverBuilds, RecoverJobs, GateHeld
  <2> QED BY <2>1 DEF BuilderSound, BuilderAt, Writing, B
<1>18. CASE UNCHANGED vars
  BY <1>3, <1>18 DEF vars, tables, threads
<1> QED
  BY <1>4, <1>6, <1>7, <1>8, <1>9, <1>10, <1>11, <1>12, <1>13, <1>14, <1>15, <1>16,
     <1>17, <1>18
  DEF Next, Builds, Ends, Collects, Deadlines, Startup, Troubles, Requests

-----------------------------------------------------------------------------
(* Tombstones and storage *)

Moved(g, from, to) ==
    tomb[g] = from /\ tomb' = [tomb EXCEPT ![g] = to] /\ UNCHANGED stored

Reservations == {g \in Gens : tomb[g] = "building"}

\* What a step may do to tombstones and storage.
Move ==
    \/ UNCHANGED <<tomb, stored>>
    \/ \E g \in Gens :
          \/ Moved(g, None, "building")
          \/ stored[g] = Parts /\ Moved(g, "building", "committed")
          \/ stored[g] = {} /\ Moved(g, "gc_pending", "gc_complete")
          \/ Moved(g, "gc_pending", "gc_failed")
          \/ /\ tomb[g] = "building" /\ UNCHANGED tomb
             /\ \E more \in SUBSET Parts : stored' = [stored EXCEPT ![g] = @ \cup more]
          \/ /\ tomb[g] = "gc_pending" /\ UNCHANGED tomb
             /\ \E rest \in SUBSET stored[g] : stored' = [stored EXCEPT ![g] = rest]
    \/ \E G \in SUBSET Reservations :
          /\ tomb' = [g \in Gens |-> IF g \in G THEN "gc_pending" ELSE tomb[g]]
          /\ UNCHANGED stored

\* Every step of the program does one of these.
LEMMA EveryMove ==
    ASSUME Inv, [Next]_vars
    PROVE  Move
<1>0. /\ TypeOK /\ TablesAgree /\ BuilderSound /\ CollectorSound
  BY DEF Inv
<1>1. CASE UNCHANGED <<tomb, stored>>
  BY <1>1 DEF Move
<1>2. CASE Quiet \/ RecoverJobs \/ CompleteJob \/ EndBatch
           \/ (\E v \in Videos : Begin(v))
           \/ \E g \in Gens : Cancel(g) \/ Claim(g) \/ BuildLeaseExpires(g) \/ GCFallsDue(g)
  BY <1>1, <1>2, QuietKeeps
  DEF RecoverJobs, CompleteJob, EndBatch, Begin, Cancel, Claim, BuildLeaseExpires,
      GCFallsDue, tables
<1>3. CASE Reserve
  BY <1>0, <1>3 DEF Reserve, BuilderSound, BuilderAt, Moved, Move
<1>4. CASE Commit
  BY <1>0, <1>4 DEF Commit, BuilderSound, BuilderAt, Writing, Moved, Move
<1>5. ASSUME NEW part \in Parts, Write(part), builder.at \in Writing, UNCHANGED tomb
      PROVE  Move
  BY <1>0, <1>5, {part} \in SUBSET Parts DEF Write, BuilderSound, Writing, Move
<1>6. CASE WritePoints \/ WriteManifest \/ BuildRaises
  BY <1>1, <1>5, <1>6
  DEF WritePoints, WriteManifest, BuildRaises, BuilderAt, Writing, Parts, tables
<1>7. ASSUME NEW G \in SUBSET ActiveBuilds, EnqueueGC(G), UNCHANGED stored
      PROVE  Move
  <2>1. G \in SUBSET Reservations
    BY <1>0 DEF ActiveBuilds, Reservations, TablesAgree, None
  <2> QED BY <1>7, <2>1 DEF EnqueueGC, Move
<1>8. CASE FailBuild
  <2>1. CASE build[B] = "active" /\ DropBuilds({B})
    <3>1. {B} \in SUBSET ActiveBuilds
      BY <1>0, <1>8, <2>1 DEF FailBuild, BuilderSound, BuilderAt, ActiveBuilds
    <3> QED BY <1>7, <1>8, <2>1, <3>1 DEF FailBuild, DropBuilds
  <2> QED BY <1>1, <1>8, <2>1 DEF FailBuild, tables
<1>9. CASE AbortJob
  BY <1>7, <1>9, {B} \cap ActiveBuilds \in SUBSET ActiveBuilds DEF AbortJob, DropBuilds
<1>10. ASSUME NEW rows \in SUBSET ActiveBuilds, RecoverRows(rows), UNCHANGED stored
       PROVE  Move
  BY <1>7, <1>10, rows \ damaged \in SUBSET ActiveBuilds DEF RecoverRows
<1>11. CASE RecoverExpired
  BY <1>10, <1>11, FirstRowsOf, Expired \subseteq ActiveBuilds DEF RecoverExpired, Expired
<1>12. CASE RecoverBuilds
  BY <1>10, <1>12, FirstRowsOf DEF RecoverBuilds, StartupRows
<1>13. CASE Delete \/ DeleteFails
  <2>1. C \in Gens /\ tomb[C] = "gc_pending" /\ UNCHANGED tomb
    BY <1>0, <1>13 DEF Delete, DeleteFails, CollectorSound, CollectorAt, tables
  <2>2. \E rest \in SUBSET stored[C] : stored' = [stored EXCEPT ![C] = rest]
    BY <1>13 DEF Delete, DeleteFails, Erase
  <2> QED BY <2>1, <2>2 DEF Move
<1>14. CASE Finish
  <2>1. C \in Gens /\ tomb[C] = "gc_pending" /\ UNCHANGED stored
    BY <1>0, <1>14 DEF Finish, CollectorSound, CollectorAt
  <2>2. \/ UNCHANGED tomb
        \/ collector.outcome = "success" /\ tomb' = [tomb EXCEPT ![C] = "gc_complete"]
        \/ tomb' = [tomb EXCEPT ![C] = "gc_failed"]
    BY <1>14 DEF Finish
  <2>3. collector.outcome = "success" => stored[C] = {}
    BY <1>0, <1>14 DEF Finish, CollectorSound, CollectorAt
  <2> QED BY <1>1, <2>1, <2>2, <2>3 DEF Moved, Move
<1>15. CASE UNCHANGED vars
  BY <1>1, <1>15 DEF vars, tables
<1> QED
  BY <1>2, <1>3, <1>4, <1>6, <1>8, <1>9, <1>11, <1>12, <1>13, <1>14, <1>15
  DEF Next, Builds, Ends, Collects, Deadlines, Startup, Troubles, Requests, Quiet

\* None of these moves lets storage contradict the tombstones.
LEMMA StorageStep ==
    ASSUME TypeOK, StorageFollowsTables, Move
    PROVE  StorageFollowsTables'
<1>1. CASE UNCHANGED <<tomb, stored>>
  BY <1>1 DEF StorageFollowsTables
<1>2. ASSUME NEW g \in Gens, NEW from, NEW to, Moved(g, from, to), to # None,
             to = "committed" => stored[g] = Parts,
             to = "gc_complete" => stored[g] = {}
      PROVE  StorageFollowsTables'
  BY <1>2 DEF Moved, StorageFollowsTables, TypeOK
<1>3. ASSUME NEW g \in Gens, NEW parts, stored' = [stored EXCEPT ![g] = parts],
             UNCHANGED tomb, tomb[g] \in {"building", "gc_pending"}
      PROVE  StorageFollowsTables'
  BY <1>3 DEF StorageFollowsTables, TypeOK, None
<1>4. ASSUME NEW G \in SUBSET Reservations, UNCHANGED stored,
             tomb' = [g \in Gens |-> IF g \in G THEN "gc_pending" ELSE tomb[g]]
      PROVE  StorageFollowsTables'
  BY <1>4 DEF StorageFollowsTables, None
<1> QED BY <1>1, <1>2, <1>3, <1>4 DEF Move, None

-----------------------------------------------------------------------------
(* The collector *)

\* Every step leaves the collector with garbage to delete.
LEMMA CollectorStep ==
    ASSUME Inv, [Next]_vars
    PROVE  CollectorSound'
<1>0. /\ TypeOK /\ TablesAgree /\ GateHeld /\ BuilderSound /\ CollectorSound
  BY DEF Inv
<1>1. CASE collector'.at \notin {"deleting", "finishing"}
  BY <1>1 DEF CollectorSound
<1>2. ASSUME UNCHANGED collector,
             \A g \in Gens : tomb[g] = "gc_pending" =>
                tomb'[g] = "gc_pending" /\ stored'[g] = stored[g]
      PROVE  CollectorSound'
  BY <1>0, <1>2 DEF CollectorSound, CollectorAt, C
<1>3. CASE UNCHANGED <<collector, tomb, stored>>
  BY <1>2, <1>3
<1>4. CASE Quiet
  <2>1. CASE Crash \/ StartMaintenance \/ EndMaintenance \/ CollectorRaises
    <3>1. collector'.at \in {"idle", "recovering", "claiming", "releasing"}
      BY <1>0, <2>1 DEF Crash, StartMaintenance, EndMaintenance, CollectorRaises,
                        CollectorTo, Resting, TypeOK, Collectors
    <3> QED BY <1>1, <3>1
  <2>2. CASE DeleteRefused \/ GCHeartbeatFails
    <3>1. /\ collector.at = "deleting" /\ collector'.gen = C
          /\ collector'.at = "finishing" => collector'.outcome = "permanent_failure"
      BY <1>0, <2>2 DEF DeleteRefused, GCHeartbeatFails, CollectorAt, TypeOK, Collectors, C
    <3> QED BY <1>0, <1>4, <3>1, QuietKeeps DEF CollectorSound, CollectorAt, C, tables
  <2>3. CASE ~(Crash \/ StartMaintenance \/ EndMaintenance \/ CollectorRaises
               \/ DeleteRefused \/ GCHeartbeatFails)
    <3>1. UNCHANGED collector
      BY <1>4, <2>3 DEF Quiet, Enter, StopHeartbeat, BuildRefused, HeartbeatFails, Leave,
                        JobLeft, Damage, threads
    <3> QED BY <1>3, <1>4, <3>1, QuietKeeps DEF tables
  <2> QED BY <2>1, <2>2, <2>3
<1>5. CASE (\E v \in Videos : Begin(v)) \/ CompleteJob
           \/ \E g \in Gens : Cancel(g) \/ BuildLeaseExpires(g) \/ GCFallsDue(g)
  BY <1>3, <1>5 DEF Begin, CompleteJob, Cancel, BuildLeaseExpires, GCFallsDue, threads
<1>6. CASE Reserve \/ Commit
  <2>1. /\ \A g \in Gens \ {B} : tomb'[g] = tomb[g]
        /\ tomb[B] \in {None, "building"} /\ UNCHANGED <<collector, stored>>
    BY <1>0, <1>6 DEF Reserve, Commit, BuilderSound, BuilderAt, Writing, TypeOK
  <2> QED BY <1>2, <2>1, None # "gc_pending" DEF None
<1>7. CASE WritePoints \/ WriteManifest \/ BuildRaises
  <2>1. /\ \A g \in Gens \ {B} : stored'[g] = stored[g]
        /\ stored' = stored \/ tomb[B] = "building"
        /\ UNCHANGED <<collector, tomb>>
    BY <1>0, <1>7 DEF WritePoints, WriteManifest, BuildRaises, Write, BuilderSound,
                      BuilderAt, Writing, TypeOK, tables
  <2> QED BY <1>2, <2>1
<1>8. ASSUME NEW G \in SUBSET ActiveBuilds, EnqueueGC(G), UNCHANGED <<collector, stored>>
      PROVE  CollectorSound'
  BY <1>2, <1>8 DEF EnqueueGC, ActiveBuilds
<1>9. CASE FailBuild
  <2>1. CASE build[B] = "active" /\ DropBuilds({B})
    <3>1. {B} \in SUBSET ActiveBuilds
      BY <1>0, <1>9, <2>1 DEF FailBuild, BuilderSound, BuilderAt, ActiveBuilds
    <3> QED BY <1>8, <1>9, <2>1, <3>1 DEF FailBuild, DropBuilds
  <2> QED BY <1>3, <1>9, <2>1 DEF FailBuild, tables
<1>10. CASE AbortJob
  BY <1>8, <1>10, {B} \cap ActiveBuilds \in SUBSET ActiveBuilds DEF AbortJob, DropBuilds
<1>11. CASE RecoverExpired \/ EndBatch \/ Finish
  <2>1. collector'.at \in {"claiming", "releasing"}
    BY <1>0, <1>11 DEF RecoverExpired, EndBatch, Finish, CollectorTo, TypeOK, Collectors
  <2> QED BY <1>1, <2>1
<1>12. ASSUME NEW g \in Gens, Claim(g) PROVE CollectorSound'
  <2>1. tomb'[g] = "gc_pending"
    BY <1>0, <1>12 DEF Claim, Claimable, TablesAgree
  <2>2. collector'.gen = g /\ collector'.at = "deleting"
    BY <1>12 DEF Claim
  <2> QED BY <2>1, <2>2 DEF CollectorSound, CollectorAt, C
<1>13. CASE Delete \/ DeleteFails
  <2>1. C \in Gens /\ tomb'[C] = "gc_pending"
    BY <1>0, <1>13 DEF Delete, DeleteFails, CollectorSound, CollectorAt, tables
  <2>2. CASE Delete /\ ~collector.lost
    <3>1. stored'[C] = {} /\ collector'.gen = C
      BY <1>0, <2>1, <2>2 DEF Delete, Erase, TypeOK, Collectors, C
    <3> QED BY <2>1, <3>1 DEF CollectorSound, CollectorAt, C
  <2>3. CASE Delete /\ collector.lost
    <3>1. collector'.at = "claiming"
      BY <1>0, <2>3 DEF Delete, CollectorTo, TypeOK, Collectors
    <3> QED BY <1>1, <3>1
  <2>4. CASE DeleteFails
    <3>1. collector'.gen = C /\ collector'.outcome = "transient_failure"
      BY <1>0, <2>4 DEF DeleteFails, TypeOK, Collectors, C
    <3> QED BY <2>1, <3>1 DEF CollectorSound, CollectorAt, C
  <2> QED BY <1>13, <2>2, <2>3, <2>4
<1>14. CASE RecoverBuilds \/ RecoverJobs
  <2>1. collector'.at = "idle"
    BY <1>0, <1>14 DEF RecoverBuilds, RecoverJobs, GateHeld
  <2> QED BY <1>1, <2>1
<1>15. CASE UNCHANGED vars
  BY <1>3, <1>15 DEF vars, tables, threads
<1> QED
  BY <1>4, <1>5, <1>6, <1>7, <1>9, <1>10, <1>11, <1>12, <1>13, <1>14, <1>15
  DEF Next, Builds, Ends, Collects, Deadlines, Startup, Troubles, Requests, Quiet

-----------------------------------------------------------------------------
(* The theorems *)

LEMMA InitInv == Init => Inv
<1> SUFFICES ASSUME Init PROVE Inv
  OBVIOUS
<1>1. TypeOK
  <2>1. /\ attempt \in [Gens -> Attempts] /\ gc \in [Gens -> GCJobs]
        /\ tomb \in [Gens -> Tombs] /\ stored \in [Gens -> SUBSET Parts]
    BY DEF Init, Attempts, Runs, GCJobs, Tombs
  <2>2. /\ build \in [Gens -> {None, "active", "quarantined"}]
        /\ leased \in [Gens -> BOOLEAN]
        /\ gcQuarantine \subseteq damaged /\ damaged \subseteq Gens
    BY DEF Init
  <2>3. /\ gate \in Gates /\ builder \in Builders /\ collector \in Collectors
        /\ phase \in {"down", "recovered", "up"} /\ faults \in 0..MaxFaults
    BY Blank, Bounds DEF Init
  <2> QED BY <2>1, <2>2, <2>3 DEF TypeOK
<1>2. TablesAgree /\ Unused
  BY DEF Init, TablesAgree, Unused, None
<1>3. GateHeld /\ BuilderSound /\ CollectorSound
  BY DEF Init, GateHeld, BuilderSound, CollectorSound, Open, NoBuilder, Resting, InGate,
         Writing, BuilderAt, CollectorAt
<1>4. StorageFollowsTables
  BY DEF Init, StorageFollowsTables, None
<1> QED BY <1>1, <1>2, <1>3, <1>4 DEF Inv

LEMMA NextInv == Inv /\ [Next]_vars => Inv'
<1> SUFFICES ASSUME Inv, [Next]_vars PROVE Inv'
  OBVIOUS
<1>1. TypeOK /\ GateHeld /\ BuilderSound /\ StorageFollowsTables /\ Move
  BY EveryMove DEF Inv
<1> QED BY <1>1, TypeStep, TablesStep, GateStep, BuilderStep, CollectorStep, StorageStep
        DEF Inv

\* The invariant holds in every reachable state.
THEOREM Invariance == Spec => []Inv
BY InitInv, NextInv, PTL DEF Spec

\* The types of the tables, the threads and the storage, for any constants.
THEOREM TypesHold == Spec => []TypeOK
<1>1. Inv => TypeOK
  BY DEF Inv
<1> QED BY <1>1, Invariance, PTL

\* Builds, tombstones, stage runs and GC jobs agree after any interleaving of
\* dispatcher, collector, recovery and crashes: the program never meets what it
\* would take for corruption of its own making (repository.py).
THEOREM TablesHold == Spec => []TablesAgree
<1>1. Inv => TablesAgree
  BY DEF Inv
<1> QED BY <1>1, Invariance, PTL

\* A committed generation is stored whole and a collected one not at all
\* (docs/architecture.md, "Failure isolation").
THEOREM StorageHolds == Spec => []StorageFollowsTables
<1>1. Inv => StorageFollowsTables
  BY DEF Inv
<1> QED BY <1>1, Invariance, PTL

-----------------------------------------------------------------------------
(* The refinement *)

\* What the tombstones mean.
LEMMA Lives ==
    /\ Life(None) = "free" /\ Life("building") = "reserved"
    /\ Life("committed") = "published" /\ Life("gc_pending") = "dropped"
    /\ Life("gc_complete") = "erased" /\ Life("gc_failed") = "abandoned"
BY DEF Life, None

\* The initial states are initial states of the promise.
LEMMA InitRefines == Init => Promise!Init
BY Lives DEF Init, Promise!Init

\* Every move is a step of the promise or leaves it where it is.
LEMMA MoveRefines ==
    ASSUME TypeOK, Move
    PROVE  [Promise!Next]_Promise!vars
<1> DEFINE life == [g \in Gens |-> Life(tomb[g])]
<1>1. CASE UNCHANGED <<tomb, stored>>
  BY <1>1 DEF Promise!vars
<1>2. ASSUME NEW g \in Gens, NEW from, NEW to, Moved(g, from, to)
      PROVE  Promise!Becomes(g, Life(from), Life(to))
  <2>1. /\ life[g] = Life(from) /\ UNCHANGED stored
        /\ life' = [life EXCEPT ![g] = Life(to)]
    BY <1>2 DEF Moved, TypeOK
  <2> QED BY <2>1 DEF Promise!Becomes
<1>3. ASSUME NEW g \in Gens, UNCHANGED tomb, tomb[g] = "building",
             NEW more \in SUBSET Parts, stored' = [stored EXCEPT ![g] = @ \cup more]
      PROVE  Promise!Write(g)
  BY <1>3, Lives DEF Promise!Write
<1>4. ASSUME NEW g \in Gens, UNCHANGED tomb, tomb[g] = "gc_pending",
             NEW rest \in SUBSET stored[g], stored' = [stored EXCEPT ![g] = rest]
      PROVE  Promise!Delete(g)
  BY <1>4, Lives DEF Promise!Delete
<1>5. ASSUME NEW G \in SUBSET Reservations, UNCHANGED stored,
             tomb' = [g \in Gens |-> IF g \in G THEN "gc_pending" ELSE tomb[g]]
      PROVE  G \in SUBSET Gens /\ Promise!Drop(G)
  <2>1. \A g \in G : g \in Gens /\ life[g] = "reserved"
    BY Lives DEF Reservations
  <2>2. life' = [g \in Gens |-> IF g \in G THEN "dropped" ELSE life[g]]
    BY <1>5, Lives
  <2> QED BY <1>5, <2>1, <2>2 DEF Promise!Drop
<1>6. ASSUME NEW g \in Gens,
             \/ Moved(g, None, "building")
             \/ stored[g] = Parts /\ Moved(g, "building", "committed")
             \/ stored[g] = {} /\ Moved(g, "gc_pending", "gc_complete")
             \/ Moved(g, "gc_pending", "gc_failed")
      PROVE  Promise!Reserve(g) \/ Promise!Publish(g) \/ Promise!Erased(g)
             \/ Promise!GiveUp(g)
  BY <1>2, <1>6, Lives
  DEF Promise!Reserve, Promise!Publish, Promise!Erased, Promise!GiveUp
<1> QED BY <1>1, <1>3, <1>4, <1>5, <1>6 DEF Move, Promise!Next

\* Dispatcher, collector, gate, leases, startup and crashes together implement
\* GenerationLife, for any constants: vectors are written to reserved
\* generations only and deleted from dropped ones only.
THEOREM Refinement == Spec => ImplementsGenerationLife
<1>1. Inv /\ [Next]_vars => [Promise!Next]_Promise!vars
  <2> SUFFICES ASSUME Inv, [Next]_vars PROVE [Promise!Next]_Promise!vars
    OBVIOUS
  <2>1. TypeOK
    BY DEF Inv
  <2> QED BY <2>1, EveryMove, MoveRefines
<1> QED BY <1>1, Invariance, InitRefines, PTL
        DEF Spec, ImplementsGenerationLife, Promise!Spec

-----------------------------------------------------------------------------
(* Retries and the builds in their way *)

\* The strengthening.  A build that is in the way of a reservation is
\* quarantined, hence damaged, or its attempt has not failed; one running
\* attempt per video is the one in the dispatcher's hands while it works; and
\* startup ends the running attempts only once no build is active.
Unblocked ==
    /\ \A g \in Gens : build[g] = "quarantined" => g \in damaged
    /\ \A g \in Gens : build[g] = "active" /\ g \notin damaged =>
          attempt[g].job \in {"running", "complete"}
    /\ \A g, h \in Gens :
          attempt[g].job = "running" /\ attempt[h].job = "running"
            /\ attempt[g].video = attempt[h].video => g = h
    /\ \A g \in Gens : attempt[g].video = None => attempt[g].job = None
    /\ builder.at # "idle" => attempt[B].job = "running"
    /\ phase = "recovered" => \A g \in Gens : build[g] # "active"

\* A step that touches neither videos nor jobs, and at most ends builds.
JobsKept ==
    \A g \in Gens : /\ attempt'[g].video = attempt[g].video
                    /\ attempt'[g].job = attempt[g].job

LEMMA RunsKeepJobs ==
    ASSUME TypeOK, NEW G, NEW outcome \in Runs
    PROVE  \A g \in Gens : /\ EndRuns(G, outcome)[g].video = attempt[g].video
                           /\ EndRuns(G, outcome)[g].job = attempt[g].job
BY DEF EndRuns, TypeOK, Attempts

LEMMA JobEnds ==
    ASSUME TypeOK, NEW g \in Gens, NEW outcome \in Runs
    PROVE  /\ EndJob(g, outcome)[g].video = attempt[g].video
           /\ EndJob(g, outcome)[g].job = outcome
           /\ \A h \in Gens : h # g =>
                /\ EndJob(g, outcome)[h].video = attempt[h].video
                /\ EndJob(g, outcome)[h].job = attempt[h].job
<1> DEFINE runs == EndRuns({g}, outcome)
<1>1. \A h \in Gens : /\ runs[h].video = attempt[h].video
                      /\ runs[h].job = attempt[h].job
  BY RunsKeepJobs
<1>2. runs \in [Gens -> Attempts]
  BY DEF EndRuns, TypeOK, Attempts
<1>3. EndJob(g, outcome) = [runs EXCEPT ![g].job = outcome]
  BY DEF EndJob
<1> HIDE DEF runs
<1> QED BY <1>1, <1>2, <1>3 DEF Attempts

\* Builds only go away, or are quarantined because they are damaged.
BuildsEnd ==
    \A g \in Gens : \/ build'[g] = build[g] \/ build'[g] = None
                    \/ build'[g] = "quarantined" /\ g \in damaged

LEMMA EndingKeeps ==
    ASSUME Unblocked, BuilderSound, JobsKept, BuildsEnd, damaged \subseteq damaged',
           builder'.at # "idle" => builder.at # "idle" /\ builder'.gen = builder.gen,
           phase' = "recovered" => phase = "recovered" \/ \A g \in Gens : build'[g] # "active"
    PROVE  Unblocked'
<1>1. \A g \in Gens : /\ build'[g] = "quarantined" => g \in damaged'
                      /\ build'[g] = "active" => build[g] = "active"
  BY DEF Unblocked, BuildsEnd, None
<1>2. \A g \in Gens : build'[g] = "active" /\ g \notin damaged' =>
         attempt'[g].job \in {"running", "complete"}
  BY <1>1 DEF Unblocked, JobsKept
<1>3. /\ \A g, h \in Gens :
            attempt'[g].job = "running" /\ attempt'[h].job = "running"
              /\ attempt'[g].video = attempt'[h].video => g = h
      /\ \A g \in Gens : attempt'[g].video = None => attempt'[g].job = None
  BY DEF Unblocked, JobsKept
<1>4. builder'.at # "idle" => attempt'[builder'.gen].job = "running"
  BY DEF Unblocked, JobsKept, BuilderSound, B
<1>5. phase' = "recovered" => \A g \in Gens : build'[g] # "active"
  BY <1>1 DEF Unblocked
<1> QED BY <1>1, <1>2, <1>3, <1>4, <1>5 DEF Unblocked, B

LEMMA RecoveryKeeps ==
    ASSUME Inv, NEW rows, RecoverRows(rows)
    PROVE  JobsKept /\ BuildsEnd
BY RunsKeepJobs DEF Inv, RecoverRows, JobsKept, BuildsEnd, Runs, TypeOK

LEMMA UnblockedStep == Inv /\ Unblocked /\ [Next]_vars => Unblocked'
<1> SUFFICES ASSUME Inv, Unblocked, [Next]_vars PROVE Unblocked'
  OBVIOUS
<1>0. TypeOK /\ TablesAgree /\ Unused /\ GateHeld /\ BuilderSound
  BY DEF Inv
<1>1. ASSUME UNCHANGED <<attempt, build>>, damaged \subseteq damaged', phase' = phase,
             builder'.at # "idle" => builder.at # "idle" /\ builder'.gen = builder.gen
      PROVE  Unblocked'
  BY <1>0, <1>1, EndingKeeps DEF JobsKept, BuildsEnd
<1>2. \A at : builder.at # "idle" /\ BuilderTo(at) => builder'.gen = builder.gen
  BY <1>0 DEF BuilderTo, TypeOK, Builders
<1>3. CASE Enter \/ WritePoints \/ WriteManifest \/ StopHeartbeat \/ BuildRefused
           \/ BuildRaises \/ Leave
  <2>1. /\ UNCHANGED <<attempt, build, phase, damaged>>
        /\ builder.at # "idle" /\ \E at : BuilderTo(at)
    BY <1>3 DEF Enter, WritePoints, WriteManifest, StopHeartbeat, BuildRefused,
                BuildRaises, Leave, BuilderAt, tables
  <2> QED BY <1>1, <1>2, <2>1
<1>4. CASE HeartbeatFails
  <2>1. builder'.gen = builder.gen /\ builder.at # "idle"
    BY <1>0, <1>4 DEF HeartbeatFails, TypeOK, Builders
  <2> QED BY <1>1, <1>4, <2>1 DEF HeartbeatFails, tables
<1>5. CASE JobLeft
  BY <1>1, <1>5 DEF JobLeft, NoBuilder, tables
<1>6. CASE StartMaintenance \/ EndBatch \/ Delete \/ Finish \/ EndMaintenance
           \/ DeleteFails \/ DeleteRefused \/ GCHeartbeatFails \/ CollectorRaises
           \/ (\E g \in Gens : Claim(g) \/ BuildLeaseExpires(g) \/ GCFallsDue(g) \/ Damage(g))
           \/ UNCHANGED vars
  <2>1. UNCHANGED <<attempt, build, phase, builder>> /\ damaged \subseteq damaged'
    BY <1>6 DEF StartMaintenance, EndBatch, Delete, Finish, EndMaintenance, DeleteFails,
                DeleteRefused, GCHeartbeatFails, CollectorRaises, Claim,
                BuildLeaseExpires, GCFallsDue, Damage, tables, threads, vars
  <2> QED BY <1>1, <2>1
<1>7. CASE Crash
  BY <1>0, <1>7, EndingKeeps DEF Crash, NoBuilder, tables, JobsKept, BuildsEnd
<1>8. ASSUME NEW v \in Videos, Begin(v) PROVE Unblocked'
  <2>1. PICK g \in Gens :
           /\ attempt[g].video = None
           /\ attempt' = [attempt EXCEPT ![g] = [video |-> v, job |-> "running",
                                                 cancel |-> FALSE, run |-> "running"]]
           /\ builder' = [at |-> "waiting", gen |-> g, lost |-> FALSE]
    BY <1>8 DEF Begin
  <2>2. /\ attempt'[g].video = v /\ attempt'[g].job = "running"
        /\ \A h \in Gens : h # g => attempt'[h] = attempt[h]
    BY <1>0, <2>1 DEF TypeOK
  <2>3. /\ \A h \in Gens : attempt[h].video = v => attempt[h].job # "running"
        /\ phase = "up" /\ UNCHANGED <<build, phase, damaged>>
    BY <1>8 DEF Begin
  <2>4. v # None
    BY ConstantsAssumption
  <2> QED BY <2>1, <2>2, <2>3, <2>4 DEF Unblocked, B
<1>9. CASE Reserve
  <2>1. B \in Gens /\ builder.at # "idle" /\ attempt[B].job = "running" /\ phase = "up"
    BY <1>0, <1>9 DEF Reserve, BuilderAt, Ours, BuilderSound, GateHeld
  <2>2. /\ build' = [build EXCEPT ![B] = "active"] /\ UNCHANGED <<attempt, phase, damaged>>
        /\ builder'.gen = builder.gen
    BY <1>2, <1>9, <2>1 DEF Reserve
  <2>3. build'[B] = "active" /\ \A g \in Gens : g # B => build'[g] = build[g]
    BY <1>0, <2>1, <2>2 DEF TypeOK
  <2> QED BY <2>1, <2>2, <2>3 DEF Unblocked, B
<1>10. CASE Commit \/ FailBuild
  <2>1. builder.at # "idle" /\ B \in Gens /\ builder'.gen = builder.gen
        /\ UNCHANGED <<phase, damaged>>
    BY <1>0, <1>2, <1>10 DEF Commit, FailBuild, BuilderAt, BuilderSound
  <2>2. JobsKept
    <3>1. CASE Commit
      BY <1>0, <3>1 DEF Commit, JobsKept, TypeOK, Attempts
    <3>2. CASE FailBuild
      BY <1>0, <3>2, RunsKeepJobs DEF FailBuild, JobsKept, Runs, tables
    <3> QED BY <1>10, <3>1, <3>2
  <2>3. BuildsEnd
    BY <1>0, <1>10 DEF Commit, FailBuild, DropBuilds, BuildsEnd, TypeOK, tables
  <2> QED BY <1>0, <2>1, <2>2, <2>3, EndingKeeps
<1>11. CASE CompleteJob
  <2>1. B \in Gens /\ UNCHANGED <<build, phase, damaged>> /\ builder'.at = "idle"
    BY <1>0, <1>11 DEF CompleteJob, BuilderAt, BuilderSound, NoBuilder
  <2>2. /\ attempt'[B].video = attempt[B].video /\ attempt'[B].job = "complete"
        /\ attempt[B].job = "running"
        /\ \A h \in Gens : h # B => attempt'[h] = attempt[h]
    BY <1>0, <1>11, <2>1 DEF CompleteJob, Ours, TypeOK, Attempts
  <2> QED BY <2>1, <2>2 DEF Unblocked, None
<1>12. CASE AbortJob
  <2> DEFINE outcome == IF attempt[B].cancel THEN "cancelled" ELSE "failed"
  <2>1. /\ B \in Gens /\ UNCHANGED <<phase, damaged>> /\ builder'.at = "idle"
        /\ attempt[B].job = "running"
    BY <1>0, <1>12 DEF AbortJob, BuilderAt, BuilderSound, NoBuilder, Unblocked
  <2>2. outcome \in Runs /\ outcome \in {"failed", "cancelled"}
    BY DEF Runs
  <2>3. attempt' = EndJob(B, outcome)
    BY <1>12 DEF AbortJob
  <2> HIDE DEF outcome
  <2>4. /\ attempt'[B].video = attempt[B].video /\ attempt'[B].job = outcome
        /\ \A h \in Gens : h # B => /\ attempt'[h].video = attempt[h].video
                                    /\ attempt'[h].job = attempt[h].job
    BY <1>0, <2>1, <2>2, <2>3, JobEnds
  <2>5. /\ build'[B] = "active" => B \in damaged
        /\ \A h \in Gens : build'[h] = build[h] \/ build'[h] = None
    BY <1>0, <1>12, <2>1 DEF AbortJob, DropBuilds, ActiveBuilds, TypeOK, None
  <2>6. attempt[B].video # None
    BY <2>1 DEF Unblocked, None
  <2>7. builder.at # "idle" /\ phase = "up"
    BY <1>0, <1>12 DEF AbortJob, BuilderAt, GateHeld
  <2> QED BY <2>1, <2>2, <2>4, <2>5, <2>6, <2>7 DEF Unblocked, None
<1>13. ASSUME NEW g \in Gens, Cancel(g) PROVE Unblocked'
  <2>1. JobsKept
    BY <1>0, <1>13 DEF Cancel, JobsKept, TypeOK, Attempts
  <2> QED BY <1>0, <1>13, <2>1, EndingKeeps DEF Cancel, BuildsEnd, threads
<1>14. CASE RecoverExpired
  BY <1>0, <1>14, RecoveryKeeps, EndingKeeps DEF RecoverExpired
<1>15. CASE RecoverBuilds
  <2>1. JobsKept /\ BuildsEnd
    BY <1>15, RecoveryKeeps DEF RecoverBuilds
  <2>2. phase' = "recovered" => \A g \in Gens : build'[g] # "active"
    BY <1>15 DEF RecoverBuilds, ActiveBuilds
  <2> QED BY <1>0, <1>15, <2>1, <2>2, EndingKeeps DEF RecoverBuilds
<1>16. CASE RecoverJobs
  <2>1. builder.at = "idle" /\ UNCHANGED <<build, builder, damaged>> /\ phase' = "up"
        /\ \A g \in Gens : build[g] # "active"
    BY <1>0, <1>16 DEF RecoverJobs, GateHeld, Unblocked
  <2>2. ASSUME NEW g \in Gens
        PROVE  /\ attempt'[g].video = attempt[g].video /\ attempt'[g].job # "running"
               /\ attempt[g].job # "running" => attempt'[g].job = attempt[g].job
    <3> DEFINE outcome == IF attempt[g].cancel THEN "cancelled" ELSE "failed"
    <3>1. outcome \in Runs /\ outcome # "running"
      BY DEF Runs
    <3>2. attempt'[g] = IF attempt[g].job = "running" THEN EndJob(g, outcome)[g]
                        ELSE attempt[g]
      BY <1>16 DEF RecoverJobs
    <3> HIDE DEF outcome
    <3> QED BY <1>0, <3>1, <3>2, JobEnds
  <2>3. \A g \in Gens : attempt[g].video = None => attempt[g].job # "running"
    BY DEF Unblocked, None
  <2> QED BY <2>1, <2>2, <2>3 DEF Unblocked
<1> QED
  BY <1>3, <1>4, <1>5, <1>6, <1>7, <1>8, <1>9, <1>10, <1>11, <1>12, <1>13, <1>14,
     <1>15, <1>16
  DEF Next, Builds, Ends, Collects, Deadlines, Startup, Troubles, Requests

\* A retry is blocked by a damaged build or by one whose attempt completed
\* before it was cleaned up, never by an attempt that failed, was cancelled or
\* died with the process, for any bounds on batches, faults and startup.
THEOREM RetriesUnblocked == Spec => []RetriesAreUnblocked
<1>1. Init => Unblocked
  BY DEF Init, Unblocked, NoBuilder, None
<1>2. Inv /\ Unblocked => RetriesAreUnblocked
  <2> SUFFICES ASSUME Inv, Unblocked, BuilderAt("reserving"), NEW g \in Blocking
               PROVE  g \in damaged \/ attempt[g].job = "complete"
    BY DEF RetriesAreUnblocked
  <2>1. g \in Gens /\ build[g] # None /\ attempt[g].video = attempt[B].video
    BY DEF Blocking
  <2>2. B \in Gens /\ attempt[B].job = "running" /\ build[B] = None
    BY DEF Inv, BuilderSound, BuilderAt, TablesAgree, Unblocked, None
  <2>3. build[g] \in {"active", "quarantined"}
    BY <2>1 DEF Inv, TypeOK
  <2>4. CASE build[g] = "quarantined"
    BY <2>1, <2>4 DEF Unblocked
  <2>5. CASE build[g] = "active"
    BY <2>1, <2>2, <2>5 DEF Unblocked
  <2> QED BY <2>3, <2>4, <2>5
<1> QED BY <1>1, <1>2, UnblockedStep, Invariance, PTL DEF Spec
=============================================================================
