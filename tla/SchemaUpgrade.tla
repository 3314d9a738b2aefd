--------------------------- MODULE SchemaUpgrade ---------------------------
(***************************************************************************)
(* Opening the database (Repository.initialize and Repository.open_read_   *)
(* only in repository.py): programs that share one file, each of a version *)
(* of VideoScope that knows schema Latest, read the schema version, take   *)
(* the write lock of SQLite and run, in one transaction, every numbered    *)
(* migration above that version, or repair a database that is already      *)
(* there.  A program can die anywhere; a newer VideoScope can upgrade the  *)
(* file between the two reads of its version.                              *)
(*                                                                         *)
(* Abstractions.  Of the rows, those the migrations rewrite: text vector   *)
(* builds, generations, GC jobs, tombstones and the audit of attempts.     *)
(* The objects of a schema are told apart by what checks or repairs them.  *)
(* Schema 0 stands for every library older than text vector generations    *)
(* (versions 0 to 5), whose rows the migrations keep as they are.  Every   *)
(* other row, timestamps and the journal mode are left out.                *)
(***************************************************************************)
EXTENDS Naturals, FiniteSets

CONSTANTS
    Openers,        \* programs that open the database to write
    Readers,        \* programs that open it read-only
    Generations, VideoOf, Tokens,
    Errors,         \* GC error codes
    Transient,      \* ARTIFACT_GC_TRANSIENT_LEGACY_ERROR_CODES
    Legacy,         \* the code legacy_gc_failed
    MaxAttempt,     \* bound: attempts of a GC job
    V7Limit,        \* attempts a version 7 GC job may have (16 in the code)
    MaxBackoff, Retention,
    Databases       \* the databases that may be found

None   == "none"
Latest == 9

\* Objects told apart: those that the checks of migrations 7, 8 and 9 require,
\* those that migration 9 creates again, and those nobody but a reader checks.
Objects == {"v7", "v8", "jobs", "links", "old"}

\* A failure that time may heal.
Retried(j) == j.state = "failed" /\ j.error \in Transient

\* What the programs of every schema left behind: one GC job of a generation at most
\* since schema 7, and a failure that can be retried in schema 7 only (schema 6 has
\* no error codes, the program of schema 8 retries such a failure itself).
LeftBehind(d) ==
    /\ d.version \in Nat /\ d.schema \in 0..Latest
    /\ \A g \in Generations :
          /\ IsFiniteSet(d.rows[g].gc)
          /\ d.schema >= 7 => Cardinality(d.rows[g].gc) <= 1
          /\ d.schema # 7 => \A j \in d.rows[g].gc : ~Retried(j)

ConstantsAssumption ==
    /\ Transient \subseteq Errors /\ Legacy \in Errors \ Transient /\ None \notin Openers
    /\ {MaxAttempt, V7Limit, MaxBackoff, Retention} \subseteq Nat
    /\ \A d \in Databases :
          /\ DOMAIN d = {"version", "schema", "missing", "frozenAudit", "rows"}
          /\ DOMAIN d.rows = Generations
          /\ \A g \in Generations :
                /\ DOMAIN d.rows[g] = {"tomb", "build", "gen", "gc", "audit"}
                /\ \A j \in d.rows[g].gc :
                      DOMAIN j = {"job", "state", "attempt", "backoff", "token", "error"}
          /\ LeftBehind(d)

VARIABLES
    db,     \* the committed database
    found,  \* the database as it was found, for the properties
    txn,    \* the open write transaction: its owner, level and working copy
    at      \* at[o]: where program o is

vars == <<db, found, txn, at>>

\* A database: [version, schema, missing, frozenAudit, rows]: the version marker,
\* the schema that is really there, the objects missing from it, whether the
\* audit still has its trigger against any deletion, and rows[g]: tombstone,
\* build, generation, GC jobs and audit of g, as in VectorSchema.
NoTxn == [owner |-> None, next |-> 0, copy |-> None]

Init ==
    /\ db \in Databases
    /\ found = db
    /\ txn = NoTxn
    /\ at = [o \in Openers \cup Readers |-> "closed"]

-----------------------------------------------------------------------------
(* The migrations, as functions of the working copy *)

Failed == [ok |-> FALSE]
Done(d) == [ok |-> TRUE, db |-> d]

\* Migrations 1 to 6 create what is not there.
CreateTables(d) == Done([d EXCEPT !.schema = IF @ < 6 THEN 6 ELSE @, !.missing = @ \ {"old"}])

\* A generation of schema 6 is known once: as build, as generation or as the
\* target of one GC job, tried no more often than schema 7 allows.
HistoryIsSound(r) ==
    /\ ~(r.build # None /\ r.gen) /\ ~(r.build # None /\ r.gc # {}) /\ ~(r.gen /\ r.gc # {})
    /\ Cardinality(r.gc) <= 1
    /\ \A j \in r.gc : j.attempt <= V7Limit

\* The tombstone of a row that schema 6 left behind.
Backfill(r) ==
    IF r.build # None THEN "building"
    ELSE IF r.gen THEN "committed"
    ELSE IF r.gc = {} THEN None
    ELSE CASE \A j \in r.gc : j.state = "complete" -> "gc_complete"
           [] \A j \in r.gc : j.state = "failed"   -> "gc_failed"
           [] OTHER                                -> "gc_pending"

\* Mutant: a job that was running keeps its state, without a lease.
MutRebuild7(j) == [j EXCEPT !.error = IF j.state = "failed" THEN Legacy ELSE None]

\* A lease did not exist: running work is to be claimed again.
Rebuild7(j) ==
    [j EXCEPT !.state = IF @ = "running" THEN "pending" ELSE @,
              !.error = IF j.state = "failed" THEN Legacy ELSE None]

Migrate7(d) ==
    IF d.schema >= 7
    THEN IF "v7" \in d.missing THEN Failed ELSE Done(d)
    ELSE IF \A g \in Generations : HistoryIsSound(d.rows[g])
         THEN Done([d EXCEPT !.schema = 7, !.rows =
                 [g \in Generations |-> [d.rows[g] EXCEPT
                     !.tomb = Backfill(d.rows[g]), !.gc = {Rebuild7(j) : j \in @}]]])
         ELSE Failed

Capped(n) == IF n < MaxBackoff THEN n ELSE MaxBackoff

\* Mutant: the failure is kept although the tombstone is taken back.
MutRebuild8(j) == [j EXCEPT !.backoff = Capped(j.attempt)]

\* Failures that time may heal are retried, with the backoff they have earned.
Rebuild8(j) ==
    [j EXCEPT !.state = IF Retried(j) THEN "pending" ELSE @, !.backoff = Capped(j.attempt)]

\* The audit begins with the attempts that are under way.
UnderWay(jobs) == {[attempt |-> j.attempt, outcome |-> "open"] :
                      j \in {i \in jobs : i.state = "running"}}

\* Records the retention window no longer holds.
Prune(r) ==
    [r EXCEPT !.audit = {a \in @ : a.outcome = "open"
                            \/ \E j \in r.gc : a.attempt + Retention > j.attempt}]

\* Schema 8 is there: replace the old trigger of the audit, then check.
Reenter8(d) ==
    LET thawed == IF d.frozenAudit
                  THEN [d EXCEPT !.frozenAudit = FALSE,
                                 !.rows = [g \in Generations |-> Prune(d.rows[g])]]
                  ELSE d
    IN  IF {"v7", "v8"} \cap d.missing # {} THEN Failed ELSE Done(thawed)

Migrate8(d) ==
    IF d.schema >= 8 THEN Reenter8(d)
    ELSE IF d.schema < 7 THEN Failed        \* no trigger to drop
    ELSE IF \E g \in Generations : \E j \in d.rows[g].gc : j.state = "running" /\ j.attempt = 0
         THEN Failed
         ELSE Done([d EXCEPT !.schema = 8, !.rows =
                 [g \in Generations |-> [d.rows[g] EXCEPT
                     !.tomb = IF @ = "gc_failed" /\ \E j \in d.rows[g].gc : Retried(j)
                              THEN "gc_pending" ELSE @,
                     !.gc = {Rebuild8(j) : j \in @},
                     !.audit = UnderWay(d.rows[g].gc)]]])

\* _ensure_video_index_job_quarantines and the other _ensure_ functions.
Ensure(d) == [d EXCEPT !.missing = @ \ {"links"}]

Migrate9(d) ==
    LET checked == Migrate8(d) IN
    IF ~checked.ok THEN Failed
    ELSE IF checked.db.schema < 9 THEN Done([checked.db EXCEPT !.schema = 9])
    ELSE IF "jobs" \in checked.db.missing THEN Failed
    ELSE Done(Ensure(checked.db))

Migrate(n, d) ==
    CASE n <= 6 -> CreateTables(d)
      [] n = 7  -> Migrate7(d)
      [] n = 8  -> Migrate8(d)
      [] OTHER  -> Migrate9(d)

-----------------------------------------------------------------------------
(* Opening the database to write *)

\* The version is read before the transaction, so that WAL is set only for a
\* database this program may change.
ReadVersion(o) ==
    /\ at[o] = "closed"
    /\ at' = [at EXCEPT ![o] = IF db.version > Latest THEN "refused" ELSE "supported"]
    /\ UNCHANGED <<db, found, txn>>

\* Mutant: the version read before the lock is believed, at worst an old one.
MutBegin(o) ==
    /\ at[o] = "supported" /\ txn = NoTxn
    /\ txn' = [owner |-> o, copy |-> db,
               next |-> IF db.version > Latest THEN 1 ELSE db.version + 1]
    /\ at' = [at EXCEPT ![o] = "migrating"]
    /\ UNCHANGED <<db, found>>

\* BEGIN IMMEDIATE, the version read again.
Begin(o) ==
    /\ at[o] = "supported" /\ txn = NoTxn
    /\ IF db.version > Latest
       THEN /\ at' = [at EXCEPT ![o] = "refused"] /\ UNCHANGED txn
       ELSE /\ at' = [at EXCEPT ![o] = "migrating"]
            /\ txn' = [owner |-> o, next |-> db.version + 1, copy |-> db]
    /\ UNCHANGED <<db, found>>

RollBack(o, pc) ==
    /\ txn' = NoTxn
    /\ at' = [at EXCEPT ![o] = pc]
    /\ UNCHANGED <<db, found>>

\* Mutant: each migration is committed on its own.
MutMigrateStep(o) ==
    LET result == Migrate(txn.next, txn.copy) IN
    /\ txn.owner = o /\ txn.next <= Latest
    /\ IF result.ok
       THEN /\ db' = [result.db EXCEPT !.version = txn.next]
            /\ txn' = [txn EXCEPT !.next = @ + 1, !.copy = db']
            /\ UNCHANGED <<found, at>>
       ELSE RollBack(o, "refused")

\* One migration and its version marker, or the rollback of them all.
MigrateStep(o) ==
    LET result == Migrate(txn.next, txn.copy) IN
    /\ txn.owner = o /\ txn.next <= Latest
    /\ IF result.ok
       THEN /\ txn' = [txn EXCEPT !.next = @ + 1,
                                  !.copy = [result.db EXCEPT !.version = txn.next]]
            /\ UNCHANGED <<db, found, at>>
       ELSE RollBack(o, "refused")

\* The end of the transaction; a database found at Latest is checked and
\* repaired by migration 9 run once more.
Finish(o) ==
    LET result == IF db.version = Latest THEN Migrate9(txn.copy) ELSE Done(txn.copy) IN
    /\ txn.owner = o /\ txn.next > Latest
    /\ IF result.ok
       THEN /\ db' = result.db
            /\ txn' = NoTxn
            /\ at' = [at EXCEPT ![o] = "open"]
            /\ UNCHANGED found
       ELSE RollBack(o, "refused")

\* The program dies; SQLite discards its transaction.
Crash(o) ==
    /\ at[o] \in {"supported", "migrating", "open"}
    /\ at' = [at EXCEPT ![o] = "dead"]
    /\ txn' = IF txn.owner = o THEN NoTxn ELSE txn
    /\ UNCHANGED <<db, found>>

\* A newer VideoScope upgrades the database (external).
NewerUpgrade ==
    /\ txn = NoTxn
    /\ db.version = Latest
    /\ db' = [db EXCEPT !.version = Latest + 1]
    /\ found' = db'
    /\ UNCHANGED <<txn, at>>

-----------------------------------------------------------------------------
(* Opening it read-only *)

\* Mutant: the version marker is believed.
MutComplete(d) == d.version = Latest

\* Version, tables, indexes, triggers and columns must all be there.
Complete(d) ==
    d.version = Latest /\ d.schema = Latest /\ d.missing = {} /\ ~d.frozenAudit

OpenReadOnly(r) ==
    /\ at[r] = "closed"
    /\ at' = [at EXCEPT ![r] = IF Complete(db) THEN "open" ELSE "refused"]
    /\ UNCHANGED <<db, found, txn>>

Next ==
    \/ \E o \in Openers : ReadVersion(o) \/ Begin(o) \/ MigrateStep(o) \/ Finish(o) \/ Crash(o)
    \/ NewerUpgrade
    \/ \E r \in Readers : OpenReadOnly(r)

Spec == Init /\ [][Next]_vars

-----------------------------------------------------------------------------
(* Properties *)

\* The one GC job of g, as a row of VectorSchema.
GcRow(g) ==
    IF db.rows[g].gc = {}
    THEN [state |-> None, attempt |-> 0, backoff |-> 0, token |-> None, error |-> None]
    ELSE LET j == CHOOSE i \in db.rows[g].gc : TRUE
         IN  [state |-> j.state, attempt |-> j.attempt, backoff |-> j.backoff,
              token |-> j.token, error |-> j.error]

Recorded(g, a) ==
    LET found_ == {r \in db.rows[g].audit : r.attempt = a}
    IN  IF found_ = {} THEN None ELSE (CHOOSE r \in found_ : TRUE).outcome

Vectors == INSTANCE VectorSchema
    WITH tomb <- [g \in Generations |-> db.rows[g].tomb],
         build <- [g \in Generations |-> db.rows[g].build],
         gen <- [g \in Generations |-> db.rows[g].gen],
         gc <- [g \in Generations |-> GcRow(g)],
         audit <- [g \in Generations |-> [a \in 1..MaxAttempt |-> Recorded(g, a)]]

\* The tombstone says what became of the GC job.
LifeOfJob(state) ==
    CASE state = "complete" -> "gc_complete"
      [] state = "failed"   -> "gc_failed"
      [] OTHER              -> "gc_pending"

\* What the program relies on: the rows are those the schema of version 8
\* keeps (VectorSchema), tombstones agree with GC jobs, and exactly the running
\* job has an attempt under way.
Sound ==
    /\ Vectors!TypeOK
    /\ Vectors!CollectedIsNotPublished
    /\ Vectors!RowsHaveTombstones
    /\ \A g \in Generations : \A j \in db.rows[g].gc :
          /\ db.rows[g].tomb = LifeOfJob(j.state)
          /\ {r.attempt : r \in {x \in db.rows[g].audit : x.outcome = "open"}}
                = (IF j.state = "running" THEN {j.attempt} ELSE {})

\* A program that has opened a database finds it sound, whatever version it was
\* found at and whatever the marker said.
OpenedIsSound ==
    (db.version = Latest /\ \E o \in Openers : at[o] = "open") => Sound

\* A migration is never seen half done: the database is as it was found or at
\* the latest schema, whoever died and whichever migration failed.
AllOrNothing ==
    db = found \/ (db.version = Latest /\ db.schema = Latest /\ "links" \notin db.missing)

\* The storage still holds what the job is to delete.
Owed(j) == j.state \in {"pending", "running"} \/ Retried(j)

\* No work is forgotten and none is invented: an upgrade keeps every build,
\* generation and GC job with its attempts; a job that was still owed can be
\* claimed, or its lease can run out, and a job that was done stays done.
WorkIsKept ==
    found.version <= Latest =>
        \A g \in Generations :
           LET old == found.rows[g]
               new == db.rows[g]
           IN  /\ new.build = old.build /\ new.gen = old.gen
               /\ \A i \in old.gc : \E j \in new.gc :
                     /\ j.job = i.job /\ j.attempt = i.attempt
                     /\ Owed(i) <=> Owed(j)
                     /\ db # found /\ Owed(j) => j.state # "failed"
                     /\ i.state = "complete" <=> j.state = "complete"
               /\ Cardinality(new.gc) = Cardinality(old.gc)

\* A database of a newer VideoScope is never changed, even when it became newer
\* after this program had looked.
NeverTouchesNewer == [][db.version > Latest => db' = db]_vars

\* A reader is admitted to a sound database of the latest schema only, and what
\* programs that write do while opening it takes nothing away.
ReadersSeeTheLatest ==
    (\E r \in Readers : at[r] = "open") =>
        db.version > Latest \/ (db.schema = Latest /\ db.missing = {} /\ Sound)
=============================================================================
