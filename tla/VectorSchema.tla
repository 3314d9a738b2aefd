---------------------------- MODULE VectorSchema ----------------------------
(***************************************************************************)
(* What the schema of version 8 and later alone keeps true of text vector  *)
(* generations and their garbage collection (repository.py, migrations 6,  *)
(* 7 and 8): tombstones, builds, generations, GC jobs and the audit of     *)
(* their attempts, under any INSERT, UPDATE or DELETE of one row that the  *)
(* CHECKs, keys and triggers admit.  One thing is assumed of the writer: a *)
(* tombstone begins as building, as in the one INSERT of the program       *)
(* (reserve_text_vector_generation).                                       *)
(*                                                                         *)
(* Abstractions.  Every row is named by its generation, the primary or a   *)
(* unique key of each table; the columns that triggers freeze, the leases' *)
(* holders and times are left out, and so are the runs that builds and     *)
(* generations belong to (IndexJobSchema).  Rows of videos stay.           *)
(***************************************************************************)
EXTENDS Naturals

CONSTANTS
    Generations,
    VideoOf,      \* VideoOf[g]: the video of generation g
    Tokens,       \* lease tokens
    Errors,       \* error codes
    MaxAttempt,   \* bound: claims of one job
    MaxBackoff,   \* ARTIFACT_GC_BACKOFF_LEVEL_MAX
    Retention     \* ARTIFACT_GC_AUDIT_RETENTION_ATTEMPTS

None == "none"

ASSUME ConstantsAssumption ==
    /\ MaxAttempt \in Nat /\ MaxBackoff \in Nat /\ Retention \in Nat
    /\ None \notin Tokens /\ None \notin Errors

Lives    == {"building", "committed", "gc_pending", "gc_complete", "gc_failed"}
GcStates == {"pending", "running", "complete", "failed"}
Outcomes == {"success", "transient_failure", "permanent_failure", "lease_expired"}
Attempts == 1..MaxAttempt

VARIABLES
    tomb,   \* text_vector_generation_tombstones: lifecycle_state, or None
    build,  \* text_vector_builds: recovery_state, or None
    gen,    \* gen[g]: text_vector_generations has a row for g
    gc,     \* artifact_gc_jobs: a row; its state is None when there is none
    audit   \* artifact_gc_attempts: open, an outcome, or None

vars == <<tomb, build, gen, gc, audit>>

GcRows == [state: GcStates, attempt: 0..MaxAttempt, backoff: 0..MaxBackoff,
           token: Tokens \cup {None}, error: Errors \cup {None}]

NoGc == [state |-> None, attempt |-> 0, backoff |-> 0, token |-> None, error |-> None]

Init ==
    /\ tomb = [g \in Generations |-> None]
    /\ build = [g \in Generations |-> None]
    /\ gen = [g \in Generations |-> FALSE]
    /\ gc = [g \in Generations |-> NoGc]
    /\ audit = [g \in Generations |-> [a \in Attempts |-> None]]

-----------------------------------------------------------------------------
(* Tombstones, which are never deleted *)

InsertTombstone(g) ==
    /\ tomb[g] = None
    /\ tomb' = [tomb EXCEPT ![g] = "building"]
    /\ UNCHANGED <<build, gen, gc, audit>>

\* Mutant: a generation can be reserved again once it is collected.
MutValidTransition(old, new) ==
    \/ new = old
    \/ old = "building" /\ new \in {"committed", "gc_pending"}
    \/ old = "gc_pending" /\ new \in {"gc_complete", "gc_failed", "building"}

\* Trigger text_vector_generation_tombstones_valid_transition.
ValidTransition(old, new) ==
    \/ new = old
    \/ old = "building" /\ new \in {"committed", "gc_pending"}
    \/ old = "gc_pending" /\ new \in {"gc_complete", "gc_failed"}

UpdateTombstone(g, life) ==
    /\ tomb[g] # None
    /\ ValidTransition(tomb[g], life)
    /\ tomb' = [tomb EXCEPT ![g] = life]
    /\ UNCHANGED <<build, gen, gc, audit>>

-----------------------------------------------------------------------------
(* Builds and generations *)

InsertBuild(g, recovery) ==
    /\ build[g] = None
    /\ tomb[g] = "building"
    /\ \A h \in Generations : VideoOf[h] = VideoOf[g] => build[h] = None
    /\ build' = [build EXCEPT ![g] = recovery]
    /\ UNCHANGED <<tomb, gen, gc, audit>>

\* A quarantined build is immutable.
UpdateBuild(g, recovery) ==
    /\ build[g] = "active"
    /\ build' = [build EXCEPT ![g] = recovery]
    /\ UNCHANGED <<tomb, gen, gc, audit>>

\* A build is deleted once its tombstone says what became of it.
DeleteBuild(g) ==
    /\ build[g] # None
    /\ tomb[g] # "building"
    /\ build' = [build EXCEPT ![g] = None]
    /\ UNCHANGED <<tomb, gen, gc, audit>>

\* Mutant: a generation needs no reservation.
MutInsertGeneration(g) ==
    /\ ~gen[g]
    /\ tomb[g] # None
    /\ gen' = [gen EXCEPT ![g] = TRUE]
    /\ UNCHANGED <<tomb, build, gc, audit>>

\* Immutable once there.
InsertGeneration(g) ==
    /\ ~gen[g]
    /\ tomb[g] = "building"
    /\ gen' = [gen EXCEPT ![g] = TRUE]
    /\ UNCHANGED <<tomb, build, gc, audit>>

-----------------------------------------------------------------------------
(* GC jobs, which are never deleted *)

\* The CHECK clauses of the table.
RowChecks(row) ==
    /\ (row.state = "running") = (row.token # None)
    /\ row.state \in {"running", "complete"} => row.error = None
    /\ row.state = "failed" => row.error # None

InsertGc(g, row) ==
    /\ gc[g].state = None
    /\ ~gen[g]
    /\ tomb[g] = "gc_pending"
    /\ RowChecks(row)
    /\ gc' = [gc EXCEPT ![g] = row]
    /\ UNCHANGED <<tomb, build, gen, audit>>

GcTransition(old, new) ==
    \/ new = old
    \/ old = "pending" /\ new = "running"
    \/ old = "running" /\ new \in {"pending", "complete", "failed"}

AttemptFence(old, new) ==
    \/ new.attempt = old.attempt
    \/ /\ old.state = "pending" /\ new.state = "running"
       /\ new.attempt = old.attempt + 1

BackoffMonotonic(old, new) == new.backoff \in {old.backoff, old.backoff + 1}

\* Mutant: the CHECK clauses are left out when the table is rebuilt.
MutUpdateGc(g, row) ==
    /\ gc[g].state # None
    /\ ~gen[g]
    /\ gc[g].state \notin {"complete", "failed"}
    /\ GcTransition(gc[g].state, row.state)
    /\ AttemptFence(gc[g], row) /\ BackoffMonotonic(gc[g], row)
    /\ gc' = [gc EXCEPT ![g] = row]
    /\ UNCHANGED <<tomb, build, gen, audit>>

UpdateGc(g, row) ==
    /\ gc[g].state # None
    /\ ~gen[g]
    /\ gc[g].state \notin {"complete", "failed"}
    /\ GcTransition(gc[g].state, row.state)
    /\ AttemptFence(gc[g], row)
    /\ BackoffMonotonic(gc[g], row)
    /\ RowChecks(row)
    /\ gc' = [gc EXCEPT ![g] = row]
    /\ UNCHANGED <<tomb, build, gen, audit>>

-----------------------------------------------------------------------------
(* The audit of attempts *)

InsertAttempt(g, a, outcome) ==
    /\ gc[g].state # None
    /\ audit[g][a] = None
    /\ audit' = [audit EXCEPT ![g][a] = outcome]
    /\ UNCHANGED <<tomb, build, gen, gc>>

\* A finished attempt is immutable.
UpdateAttempt(g, a, outcome) ==
    /\ audit[g][a] = "open"
    /\ audit' = [audit EXCEPT ![g][a] = outcome]
    /\ UNCHANGED <<tomb, build, gen, gc>>

\* Mutant: the window is counted from the attempt before.
MutDeleteAttempt(g, a) ==
    /\ audit[g][a] \in Outcomes
    /\ gc[g].state # None
    /\ a + Retention <= gc[g].attempt + 1
    /\ audit' = [audit EXCEPT ![g][a] = None]
    /\ UNCHANGED <<tomb, build, gen, gc>>

\* Trigger artifact_gc_attempts_bounded_delete.
DeleteAttempt(g, a) ==
    /\ audit[g][a] \in Outcomes
    /\ gc[g].state # None
    /\ a + Retention <= gc[g].attempt
    /\ audit' = [audit EXCEPT ![g][a] = None]
    /\ UNCHANGED <<tomb, build, gen, gc>>

Next ==
    \E g \in Generations :
       \/ InsertTombstone(g)
       \/ \E life \in Lives : UpdateTombstone(g, life)
       \/ \E r \in {"active", "quarantined"} : InsertBuild(g, r) \/ UpdateBuild(g, r)
       \/ DeleteBuild(g)
       \/ InsertGeneration(g)
       \/ \E row \in GcRows : InsertGc(g, row) \/ UpdateGc(g, row)
       \/ \E a \in Attempts :
             \/ \E o \in Outcomes \cup {"open"} : InsertAttempt(g, a, o) \/ UpdateAttempt(g, a, o)
             \/ DeleteAttempt(g, a)

Spec == Init /\ [][Next]_vars

-----------------------------------------------------------------------------
(* Properties *)

TypeOK ==
    /\ tomb \in [Generations -> Lives \cup {None}]
    /\ build \in [Generations -> {None, "active", "quarantined"}]
    /\ gen \in [Generations -> BOOLEAN]
    /\ gc \in [Generations -> GcRows \cup {NoGc}]
    /\ \A g \in Generations : gc[g] # NoGc => RowChecks(gc[g])
    /\ audit \in [Generations -> [Attempts -> Outcomes \cup {"open", None}]]

\* Whatever is written, the collector is never given a published generation,
\* nor can one be published that it was given: a GC job excludes a generation
\* and its tombstone is past the reservation for good.
CollectedIsNotPublished ==
    \A g \in Generations : gc[g].state # None =>
        ~gen[g] /\ tomb[g] \in {"gc_pending", "gc_complete", "gc_failed"}

\* The rows of a build and of a generation have their tombstone.
RowsHaveTombstones ==
    \A g \in Generations : (build[g] # None \/ gen[g]) => tomb[g] # None

\* The life the four tables give a generation.
Life(g) ==
    IF gen[g] \/ tomb[g] = "committed" THEN "published"
    ELSE CASE tomb[g] = None       -> "free"
           [] tomb[g] = "building" -> "reserved"
           [] OTHER -> CASE gc[g].state = "complete" -> "erased"
                         [] gc[g].state = "failed"   -> "abandoned"
                         [] OTHER                    -> "dropped"

Abstract == INSTANCE GenerationLife
    WITH Parts <- {}, life <- [g \in Generations |-> Life(g)],
         content <- [g \in Generations |-> {}]

\* Read together, the tables give every generation the life the store
\* promises, in any order of statements: reserved once, published or dropped,
\* and only what was dropped is ever erased or given up.
ImplementsGenerationLife == Abstract!Spec

\* The recent history of a job survives: an attempt that was recorded is still
\* recorded while fewer than Retention attempts followed it, and what was
\* recorded of its end does not change.
AuditSurvives ==
    [][\A g \in Generations, a \in Attempts :
          (audit[g][a] # None /\ (audit[g][a] = "open" \/ gc'[g].attempt < a + Retention)) =>
             /\ audit'[g][a] # None
             /\ audit[g][a] # "open" => audit'[g][a] = audit[g][a]]_vars
=============================================================================
