-------------------------- MODULE RegressionBatch ---------------------------
(***************************************************************************)
(* execute_phase0_regression_batch and ManagedRegressionWorkerCluster: one *)
(* command starts five worker processes, indexes the fixture, stops the    *)
(* workers only indexing needs, runs the benchmark profiles, stops the     *)
(* rest, and writes a receipt.  Workers crash, ignore SIGTERM, and lose    *)
(* their port to a stranger; steps fail; the user interrupts.              *)
(*                                                                         *)
(* Abstractions.  A worker is the state of its process.  The inputs that   *)
(* must not change are a set of names, the changed ones.  A profile run is *)
(* its begin and its end (BenchmarkRun and RssMeasurement are its inside). *)
(***************************************************************************)
EXTENDS Naturals, Sequences, SequencesExt

CONSTANTS
    IngestOnly, Retrieval,   \* roles: ("vision_index", "whisper"), and the others
    StartOrder,              \* MANAGED_WORKER_ROLES
    NProfiles,               \* the length of REQUIRED_PROFILE_IDS
    Inputs, ProfileInputs,   \* what must not change; what every profile checks
    SlowKills,               \* whether a killed process may outlive five seconds
    MaxInterrupts            \* bound: interrupts

Roles == IngestOnly \cup Retrieval

ConstantsAssumption ==
    /\ IngestOnly \cap Retrieval = {}
    /\ ToSet(StartOrder) = Roles /\ IsInjective(StartOrder)
    /\ NProfiles \in Nat \ {0} /\ ProfileInputs \subseteq Inputs
    /\ SlowKills \in BOOLEAN /\ MaxInterrupts \in Nat

VARIABLES
    pc,         \* the step of the batch
    proc,       \* the state of each worker process
    foreign,    \* roles whose port a stranger listens on
    owned,      \* cluster._processes, or the list of the start
    bound,      \* cluster.managed_workers
    pending,    \* wait_ready: the roles not seen listening
    targets,    \* the processes that _stop_processes stops
    failed,     \* _stop_processes met a failure
    primary,    \* the error the batch is leaving with
    published,  \* the profiles published so far
    receipt,    \* the batch receipt has been written
    changed,    \* inputs changed since they were validated
    tainted,    \* ghost: something ran while an input was changed
    cut,        \* ghost: a stop failed or was cut short, or the start was
    interrupts

control == <<pc, primary, interrupts>>
cluster == <<owned, bound, pending>>
stopping == <<targets, failed>>
progress == <<published, receipt, tainted>>
world == <<foreign, changed>>
vars == <<control, cluster, stopping, progress, world, proc, cut>>

Alive(role) == proc[role] \notin {"none", "dead"}

Init ==
    /\ pc = "prepare" /\ primary = "none" /\ interrupts = 0
    /\ proc = [role \in Roles |-> "none"] /\ foreign = {}
    /\ owned = {} /\ bound = {} /\ pending = {} /\ targets = {} /\ failed = FALSE
    /\ published = 0 /\ receipt = FALSE /\ changed = {} /\ tainted = FALSE /\ cut = FALSE

(***************************************************************************)
(* Where an error or an interrupt leads.                                   *)
(***************************************************************************)
Starting == {"spawn", "bind", "ready"}
Using == {"ingest", "retire", "profile", "running"}

\* The handler of the start and the finally clause of the batch stop what is owned.
Fail(error) ==
    /\ primary' = error
    /\ CASE pc \in Starting -> pc' = "undoing" /\ targets' = owned /\ failed' = FALSE
         [] pc \in Using -> pc' = "closing" /\ targets' = owned /\ failed' = FALSE
         [] OTHER -> pc' = "end" /\ UNCHANGED stopping

StepFails ==
    /\ pc \in ({"prepare", "final", "write"} \cup Starting \cup Using) \ {"retire"}
    /\ Fail("error")
    /\ UNCHANGED <<interrupts, cluster, progress, world, proc, cut>>

Interrupt ==
    /\ pc \in {"prepare", "final", "write"} \cup Starting \cup Using
    /\ interrupts < MaxInterrupts /\ interrupts' = interrupts + 1
    /\ Fail("interrupt")
    /\ UNCHANGED <<cluster, progress, world, proc, cut>>

(***************************************************************************)
(* start_regression_worker_cluster.                                        *)
(***************************************************************************)
\* _prevalidate_batch_inputs, prepare_regression_fixture, the empty registry.
Prepare ==
    /\ pc = "prepare"
    /\ pc' = "spawn"
    /\ UNCHANGED <<primary, interrupts, cluster, stopping, progress, world, proc, cut>>

NextRole == StartOrder[1 + Len(SelectSeq(StartOrder, LAMBDA role : proc[role] # "none"))]

Spawn ==
    /\ pc = "spawn" /\ \E role \in Roles : proc[role] = "none"
    /\ proc' = [proc EXCEPT ![NextRole] = "loading"]
    /\ owned' = owned \cup {NextRole}
    /\ UNCHANGED <<control, bound, pending, stopping, progress, world, cut>>

\* An interrupt between the fork and the append: nobody owns the child.
SpawnInterrupted ==
    /\ pc = "spawn" /\ \E role \in Roles : proc[role] = "none"
    /\ interrupts < MaxInterrupts /\ interrupts' = interrupts + 1
    /\ proc' = [proc EXCEPT ![NextRole] = "loading"] /\ cut' = TRUE
    /\ Fail("interrupt")
    /\ UNCHANGED <<cluster, progress, world>>

Spawned ==
    /\ pc = "spawn" /\ \A role \in Roles : proc[role] # "none"
    /\ pc' = "bind"
    /\ UNCHANGED <<primary, interrupts, cluster, stopping, progress, world, proc, cut>>

\* _capture_bindings: every child is in the process tree.
Bind ==
    /\ pc = "bind" /\ \A role \in owned : Alive(role)
    /\ bound' = owned /\ pending' = owned /\ pc' = "ready"
    /\ UNCHANGED <<primary, interrupts, owned, stopping, progress, world, proc, cut>>

\* wait_ready: a live child and a listener, whoever it is.
SeenReady(role) ==
    /\ pc = "ready" /\ role \in pending
    /\ \/ proc[role] = "serving"
       \/ Alive(role) /\ role \in foreign
    /\ pending' = pending \ {role}
    /\ UNCHANGED <<control, owned, bound, stopping, progress, world, proc, cut>>

\* The cluster is returned, and validated: all roles, in their order.
Ready ==
    /\ pc = "ready" /\ pending = {}
    /\ IF bound = Roles THEN pc' = "ingest" /\ UNCHANGED <<primary, stopping>> ELSE Fail("error")
    /\ UNCHANGED <<interrupts, cluster, progress, world, proc, cut>>

\* wait_ready: a child has exited, or 300 seconds are over.
MutReadyTimeout ==
    /\ pc = "ready" /\ \E role \in pending : ~Alive(role)
    /\ Fail("error")
    /\ UNCHANGED <<interrupts, cluster, progress, world, proc, cut>>
ReadyTimeout ==
    /\ pc = "ready" /\ pending # {}
    /\ Fail("error")
    /\ UNCHANGED <<interrupts, cluster, progress, world, proc, cut>>

(***************************************************************************)
(* Using the cluster.                                                      *)
(***************************************************************************)
Serving(roles) == \A role \in roles : proc[role] = "serving"

\* complete_regression_fixture: the production index of every asset.
Ingest ==
    /\ pc = "ingest" /\ Serving(IngestOnly)
    /\ pc' = "retire" /\ targets' = IngestOnly /\ failed' = FALSE
    /\ tainted' = (tainted \/ changed # {})
    /\ UNCHANGED <<primary, interrupts, cluster, published, receipt, world, proc, cut>>

\* The checks before a profile, and the first sample of its measurement.
MutProfileBegins ==
    /\ pc = "profile" /\ published <= NProfiles
    /\ changed \cap ProfileInputs = {} /\ \A role \in bound : Alive(role)
    /\ pc' = "running"
    /\ tainted' = (tainted \/ changed # {})
    /\ UNCHANGED <<primary, interrupts, cluster, stopping, published, receipt, world, proc, cut>>
ProfileBegins ==
    /\ pc = "profile" /\ published < NProfiles
    /\ changed \cap ProfileInputs = {} /\ \A role \in bound : Alive(role)
    /\ pc' = "running"
    /\ tainted' = (tainted \/ changed # {})
    /\ UNCHANGED <<primary, interrupts, cluster, stopping, published, receipt, world, proc, cut>>

\* The run was published, and audited.
ProfileEnds ==
    /\ pc = "running" /\ Serving(Retrieval)
    /\ pc' = "profile" /\ published' = published + 1
    /\ tainted' = (tainted \/ changed # {})
    /\ UNCHANGED <<primary, interrupts, cluster, stopping, receipt, world, proc, cut>>

ProfilesDone ==
    /\ pc = "profile" /\ published >= NProfiles
    /\ pc' = "closing" /\ targets' = owned /\ failed' = FALSE
    /\ UNCHANGED <<primary, interrupts, cluster, progress, world, proc, cut>>

\* Code, dataset, policy, toolchain and environment are what they were.
MutFinal ==
    /\ pc = "final"
    /\ pc' = "write"
    /\ UNCHANGED <<primary, interrupts, cluster, stopping, progress, world, proc, cut>>
Final ==
    /\ pc = "final" /\ changed = {}
    /\ pc' = "write"
    /\ UNCHANGED <<primary, interrupts, cluster, stopping, progress, world, proc, cut>>

Write ==
    /\ pc = "write"
    /\ receipt' = TRUE /\ pc' = "end"
    /\ UNCHANGED <<primary, interrupts, cluster, stopping, published, tainted, world, proc, cut>>

(***************************************************************************)
(* _stop_processes, for the start's handler, retire_ingest_workers and     *)
(* close: terminate, wait fifteen seconds, kill, wait five seconds.        *)
(***************************************************************************)
Stopping == pc \in {"undoing", "retire", "closing"}

Terminate ==
    /\ Stopping /\ \E role \in targets : proc[role] \in {"loading", "serving"}
    /\ ~failed
    /\ \E sent \in {targets} \cup {targets \ {role} : role \in targets} :
         /\ proc' = [role \in Roles |-> IF role \in sent /\ Alive(role) THEN "terminated" ELSE proc[role]]
         /\ failed' = (sent # targets)
    /\ UNCHANGED <<control, cluster, targets, progress, world, cut>>

LastOf(step) ==
    CASE step = "undoing" -> "undoing last"
      [] step = "retire"  -> "retire last"
      [] step = "closing" -> "closing last"

\* The wait is over: everything is dead, or it took too long.
MutKill ==
    /\ Stopping /\ \A role \in targets : proc[role] \notin {"loading", "serving"} \/ failed
    /\ \A role \in targets : ~Alive(role) \/ failed
    /\ proc' = [role \in Roles |-> IF role \in targets /\ Alive(role) THEN "killed" ELSE proc[role]]
    /\ pc' = LastOf(pc)
    /\ UNCHANGED <<primary, interrupts, cluster, stopping, progress, world, cut>>
Kill ==
    /\ Stopping /\ \A role \in targets : proc[role] \notin {"loading", "serving"} \/ failed
    /\ proc' = [role \in Roles |-> IF role \in targets /\ Alive(role) THEN "killed" ELSE proc[role]]
    /\ pc' = LastOf(pc)
    /\ UNCHANGED <<primary, interrupts, cluster, stopping, progress, world, cut>>

Stopped == \A role \in targets : ~Alive(role)

\* After the start's handler the start's own error is raised, whatever came of it.
Undone ==
    /\ pc = "undoing last" /\ (Stopped \/ SlowKills)
    /\ pc' = "end" /\ cut' = (cut \/ failed \/ ~Stopped)
    /\ UNCHANGED <<primary, interrupts, cluster, stopping, progress, world, proc>>

\* Only a stop without a failure takes the ingest workers out of the cluster.
MutRetired ==
    /\ pc = "retire last" /\ (Stopped \/ SlowKills)
    /\ owned' = Retrieval /\ bound' = Retrieval /\ pc' = "profile"
    /\ UNCHANGED <<primary, interrupts, pending, stopping, progress, world, proc, cut>>
MutRetiredEarly ==
    /\ pc = "retire last" /\ (Stopped \/ SlowKills)
    /\ owned' = Retrieval /\ bound' = Retrieval
    /\ IF failed \/ ~Stopped
       THEN pc' = "closing" /\ targets' = Retrieval /\ failed' = FALSE /\ primary' = "error"
       ELSE pc' = "profile" /\ UNCHANGED <<stopping, primary>>
    /\ UNCHANGED <<interrupts, pending, progress, world, proc, cut>>
Retired ==
    /\ pc = "retire last" /\ (Stopped \/ SlowKills)
    /\ IF failed \/ ~Stopped
       THEN /\ pc' = "closing" /\ targets' = owned /\ failed' = FALSE /\ primary' = "error"
            /\ UNCHANGED <<owned, bound>>
       ELSE /\ owned' = Retrieval /\ bound' = Retrieval /\ pc' = "profile"
            /\ UNCHANGED <<stopping, primary>>
    /\ UNCHANGED <<interrupts, pending, progress, world, proc, cut>>

\* A failed close replaces success, and hides behind an earlier error.
MutClosed ==
    /\ pc = "closing last" /\ (Stopped \/ SlowKills)
    /\ pc' = IF primary = "none" THEN "final" ELSE "end"
    /\ cut' = (cut \/ failed \/ ~Stopped)
    /\ UNCHANGED <<primary, interrupts, cluster, stopping, progress, world, proc>>
Closed ==
    /\ pc = "closing last" /\ (Stopped \/ SlowKills)
    /\ cut' = (cut \/ failed \/ ~Stopped)
    /\ IF primary # "none" THEN pc' = "end" /\ UNCHANGED primary
       ELSE IF failed \/ ~Stopped THEN pc' = "end" /\ primary' = "error"
       ELSE pc' = "final" /\ UNCHANGED primary
    /\ UNCHANGED <<interrupts, cluster, stopping, progress, world, proc>>

\* An interrupt during a stop leaves it: the rest is not killed.  retire hands
\* over to close; in close it becomes an error, or is dropped.
StopInterrupted ==
    /\ pc \in {"undoing", "undoing last", "retire last", "closing", "closing last"}
    /\ interrupts < MaxInterrupts /\ interrupts' = interrupts + 1
    /\ IF pc = "retire last"
       THEN pc' = "closing" /\ targets' = owned /\ failed' = FALSE /\ primary' = "interrupt" /\ UNCHANGED cut
       ELSE /\ pc' = "end" /\ cut' = TRUE /\ UNCHANGED stopping
            /\ primary' = IF primary # "none" THEN primary ELSE "error"
    /\ UNCHANGED <<cluster, progress, world, proc>>

(***************************************************************************)
(* The worker processes, and the world.                                    *)
(***************************************************************************)
\* A worker listens once it has loaded; without its port it exits.
Listen(role) ==
    /\ proc[role] = "loading" /\ role \notin foreign
    /\ proc' = [proc EXCEPT ![role] = "serving"]
    /\ UNCHANGED <<control, cluster, stopping, progress, world, cut>>

Die(role) ==
    /\ Alive(role)
    /\ proc' = [proc EXCEPT ![role] = "dead"]
    /\ UNCHANGED <<control, cluster, stopping, progress, world, cut>>

\* A stranger binds the port that _allocate_ports found free and released.
TakePort ==
    /\ \E role \in Roles : proc[role] \in {"none", "loading"} /\ foreign' = foreign \cup {role}
    /\ UNCHANGED <<control, cluster, stopping, progress, changed, proc, cut>>

Change ==
    /\ \E input \in Inputs : changed' = changed \cup {input}
    /\ UNCHANGED <<control, cluster, stopping, progress, foreign, proc, cut>>

Main ==
    \/ Prepare \/ Spawn \/ Spawned \/ Bind \/ Ready \/ ReadyTimeout
    \/ \E role \in Roles : SeenReady(role)
    \/ Ingest \/ ProfileBegins \/ ProfileEnds \/ ProfilesDone \/ Final \/ Write
    \/ StepFails \/ Terminate \/ Kill \/ Undone \/ Retired \/ Closed
Signals == Interrupt \/ SpawnInterrupted \/ StopInterrupted
World == TakePort \/ Change \/ \E role \in Roles : Listen(role) \/ Die(role)

Next == Main \/ Signals \/ World

Spec == Init /\ [][Next]_vars
\* The command runs, its calls time out, and a killed process dies.
FairSpec ==
    Spec /\ WF_vars(Main) /\ \A role \in Roles : WF_vars(proc[role] = "killed" /\ Die(role))

(***************************************************************************)
(* Properties.                                                             *)
(***************************************************************************)
\* Every variable stays within what the code can put there, and no more
\* profiles are published than the batch has.
TypeOK ==
    /\ pc \in {"prepare", "final", "write", "undoing", "closing", "end",
               "undoing last", "retire last", "closing last"} \cup Starting \cup Using
    /\ primary \in {"none", "error", "interrupt"} /\ interrupts \in 0..MaxInterrupts
    /\ proc \in [Roles -> {"none", "loading", "serving", "terminated", "killed", "dead"}]
    /\ {foreign, owned, bound, pending, targets} \subseteq SUBSET Roles
    /\ changed \subseteq Inputs /\ published \in 0..NProfiles
    /\ {failed, receipt, tainted, cut} \subseteq BOOLEAN

\* A receipt says that the workers' cleanup is complete: no process of the
\* cluster is alive, and every profile was published.
ReceiptMeansStopped ==
    receipt => published = NProfiles /\ \A role \in Roles : ~Alive(role)

\* While a profile is measured, the workers that only indexing needs are gone.
MeasuredAlone == pc = "running" => \A role \in IngestOnly : ~Alive(role)

\* A receipt is written only if everything ran on the inputs it names.
SameInputs == receipt => ~tainted

\* The batch leaves no process behind unless a stop failed or was cut short.
NoOrphans == pc = "end" /\ ~cut => \A role \in Roles : ~Alive(role)

\* The batch owns its processes to the end, whatever happens to it.
CleanupIsOwned == pc = "end" => \A role \in Roles : ~Alive(role)

\* The batch ends, also when a worker never listens or ignores SIGTERM.
BatchEnds == <>(pc = "end")
=============================================================================
