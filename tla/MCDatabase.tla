----------------------------- MODULE MCDatabase -----------------------------
(***************************************************************************)
(* What is stored: the tables of the durable jobs (IndexJobSchema, which   *)
(* this module extends), the upgrade of a database that an older program   *)
(* left behind, the adoption of the work queued in it, the asset a video   *)
(* is linked to, and the media files of uploads and exports.               *)
(*                                                                         *)
(* The parts share no variable, so a behaviour of this module is one of a  *)
(* single instance, named by `of', and every other part stays as it began. *)
(***************************************************************************)
EXTENDS IndexJobSchema

CONSTANTS
    Parts,  \* the instances whose behaviours are checked
    Nil,    \* the null of the parts that take one
    Openers, Readers, Generations, OwnerOf, Leases, Errors, Transient, Legacy,
    MaxAttempt, V7Limit, MaxBackoff, Retention, Databases,  \* of the upgrade
    Callers, Elsewhere, Contents, MaxChanges,               \* of asset identity
    NVideos, WithAsset, Batch, MaxBatches, NPlans,          \* of the adoption
    Uploads, Exports, MaxNames,                             \* of media files
    MaxFaults

\* Two stages of the external table, whose pointers an UPDATE of stage_kind moves.
MCVideoOf == [w \in Works |-> CHOOSE v \in Videos : TRUE]
MCTableOf == [k \in Kinds |-> "external"]
MCKindOf  == [s \in Specs |-> IF s = "s2" THEN "lighthouse" ELSE "visual_dense"]
MCSpecOf  == [w \in Works |-> [k \in Kinds |-> IF k = "lighthouse" THEN "s2" ELSE "s1"]]

(***************************************************************************)
(* The databases an upgrade may find: one generation in every state the    *)
(* tables of a schema allow (schema 6, which has no triggers between the   *)
(* tables) or the program of that schema leaves (7 and later), any version *)
(* marker, and objects missing.                                            *)
(***************************************************************************)
MCOwnerOf == [g \in Generations |-> "v"]

GcJob(n, state, attempt, backoff, token, error) ==
    [job |-> n, state |-> state, attempt |-> attempt, backoff |-> backoff,
     token |-> token, error |-> error]

DbRow(tomb, build, published, gc, audit) ==
    [tomb |-> tomb, build |-> build, gen |-> published, gc |-> gc, audit |-> audit]
NoRows == DbRow(None, None, FALSE, {}, {})

Jobs6(n) == {GcJob(n, s, a, 0, None, None) :
               s \in {"pending", "running", "complete", "failed"}, a \in 0..MaxAttempt}
Rows6 ==
    {DbRow(None, b, p, {}, {}) : b \in {None, "active"}, p \in BOOLEAN}
    \cup {DbRow(None, b, p, {j}, {}) : b \in {None, "active"}, p \in BOOLEAN, j \in Jobs6(1)}
    \cup {DbRow(None, None, FALSE, {i, j}, {}) : i \in Jobs6(1), j \in Jobs6(2)}

Reserved == {NoRows, DbRow("building", "active", FALSE, {}, {}),
             DbRow("committed", None, TRUE, {}, {})}

\* A GC job of schema 7 or later with its tombstone, its backoff and its audit.
\* A failure that can be retried is left by schema 7 only.
Collected(n, backoffs, failures, audit(_)) ==
    {DbRow("gc_pending", None, FALSE, {GcJob(1, "pending", a, b, None, e)}, audit(a)) :
        a \in 0..n, b \in backoffs, e \in {None, "transient"}}
    \cup {DbRow("gc_complete", None, FALSE, {GcJob(1, "complete", a, b, None, None)}, audit(a)) :
        a \in 1..n, b \in backoffs}
    \cup {DbRow("gc_failed", None, FALSE, {GcJob(1, "failed", a, b, None, e)}, audit(a)) :
        a \in 1..n, b \in backoffs, e \in failures}
Leased(from, n, backoffs, audit(_)) ==
    {DbRow("gc_pending", None, FALSE, {GcJob(1, "running", a, b, "t", None)}, audit(a)) :
        a \in from..n, b \in backoffs}

NoAudit(a)     == {}
Over(as)       == {[attempt |-> a, outcome |-> "transient_failure"] : a \in as}
AllOver(a)     == Over(1..a)
Window(a)      == IF a = 0 THEN {} ELSE Over({a})
Under(a)       == {[attempt |-> a, outcome |-> "open"]}
AllUnder(a)    == Over(1..a - 1) \cup Under(a)

Final == {"permanent", "legacy"}
Rows7 == Reserved \cup Collected(V7Limit, {0}, Final \cup {"transient"}, NoAudit)
                  \cup Leased(0, V7Limit, {0}, NoAudit)
Rows8 == Reserved \cup Collected(MaxAttempt, 0..1, Final, Window)
                  \cup Leased(1, MaxAttempt, 0..1, Under)
Frozen8 == Reserved \cup Collected(MaxAttempt, {0}, Final, AllOver)
                    \cup Leased(1, MaxAttempt, {0}, AllUnder)

Left(schema, missing, frozen, rows, versions) ==
    {[version |-> v, schema |-> schema, missing |-> m, frozenAudit |-> frozen,
      rows |-> [g \in Generations |-> r]] : v \in versions, m \in missing, r \in rows}

MCDatabases ==
    Left(0, {{}}, FALSE, {NoRows}, {0, 5})
    \cup Left(6, {{}, {"old"}}, FALSE, Rows6, {0, 6, 7, 8, 9})
    \cup Left(7, SUBSET {"v7"}, FALSE, Rows7, {0, 6, 7, 8, 9})
    \cup Left(8, SUBSET {"v7", "v8"}, FALSE, Rows8, {6, 7, 8, 9})
    \cup Left(8, {{}, {"v8"}}, TRUE, Frozen8, {7, 8})
    \cup Left(9, {{}, {"v7"}, {"v8"}, {"jobs"}, {"links"}, {"old"}, {"jobs", "links"}},
               FALSE, Rows8, {6, 8, 9, 10})
    \cup Left(9, {{}, {"jobs"}}, TRUE, Frozen8, {8, 9})

\* What a file is replaced by: a copy that differs in one chunk, or in both.
MCContents == {<<0, 1>>, <<1, 1>>}

VARIABLES
    of,  \* the instance that moves in this behaviour
    upgradeDb, upgradeFound, upgradeTxn, upgradeAt,
    identityPath, identityFiles, identityAsset, identityCall, identityLocks,
    identityChanges,
    adoptionStatus, adoptionJob, adoptionAt, adoptionPlan, adoptionBatch,
    adoptionFull, adoptionBatches, adoptionFaults,
    mediaAt, mediaTemp, mediaMedia, mediaRows, mediaClips, mediaName, mediaFaults

upgradeVars ==
    <<upgradeDb, upgradeFound, upgradeTxn, upgradeAt>>
identityVars ==
    <<identityPath, identityFiles, identityAsset, identityCall, identityLocks,
      identityChanges>>
adoptionVars ==
    <<adoptionStatus, adoptionJob, adoptionAt, adoptionPlan, adoptionBatch,
      adoptionFull, adoptionBatches, adoptionFaults>>
mediaVars ==
    <<mediaAt, mediaTemp, mediaMedia, mediaRows, mediaClips, mediaName, mediaFaults>>

Upgrade == INSTANCE SchemaUpgrade WITH
    VideoOf <- OwnerOf, Tokens <- Leases,
    db <- upgradeDb, found <- upgradeFound, txn <- upgradeTxn, at <- upgradeAt
Identity == INSTANCE AssetIdentity WITH
    None <- Nil,
    path <- identityPath, files <- identityFiles, asset <- identityAsset,
    call <- identityCall, locks <- identityLocks, changes <- identityChanges
Adoption == INSTANCE LegacyAdoption WITH
    None <- Nil,
    status <- adoptionStatus, job <- adoptionJob, at <- adoptionAt,
    plan <- adoptionPlan, batch <- adoptionBatch, full <- adoptionFull,
    batches <- adoptionBatches, faults <- adoptionFaults
Media == INSTANCE MediaFiles WITH
    None <- Nil,
    at <- mediaAt, temp <- mediaTemp, media <- mediaMedia, rows <- mediaRows,
    clips <- mediaClips, name <- mediaName, faults <- mediaFaults

ASSUME UpgradeAssumption == Upgrade!ConstantsAssumption
ASSUME IdentityAssumption == Identity!ConstantsAssumption
ASSUME AdoptionAssumption == Adoption!ConstantsAssumption
ASSUME MediaAssumption == Media!ConstantsAssumption

AbsentUpgrade ==
    /\ upgradeDb = Nil /\ upgradeFound = Nil /\ upgradeTxn = Nil /\ upgradeAt = Nil

AbsentIdentity ==
    /\ identityPath = Nil /\ identityFiles = Nil /\ identityAsset = Nil
    /\ identityCall = Nil /\ identityLocks = Nil /\ identityChanges = Nil

AbsentAdoption ==
    /\ adoptionStatus = Nil /\ adoptionJob = Nil /\ adoptionAt = Nil
    /\ adoptionPlan = Nil /\ adoptionBatch = Nil /\ adoptionFull = Nil
    /\ adoptionBatches = Nil /\ adoptionFaults = Nil

GroupInit ==
    /\ of \in Parts
    /\ Init
    /\ IF of = "Upgrade" THEN Upgrade!Init ELSE AbsentUpgrade
    /\ IF of = "Identity" THEN Identity!Init ELSE AbsentIdentity
    /\ IF of = "Adoption" THEN Adoption!Init ELSE AbsentAdoption
    /\ Media!Init

\* The parts of the other instances stay as they began.
Others(p) ==
    /\ UNCHANGED of
    /\ IF p = "Tables" THEN TRUE ELSE UNCHANGED vars
    /\ IF p = "upgrade" THEN TRUE ELSE UNCHANGED upgradeVars
    /\ IF p = "identity" THEN TRUE ELSE UNCHANGED identityVars
    /\ IF p = "adoption" THEN TRUE ELSE UNCHANGED adoptionVars
    /\ IF p = "media" THEN TRUE ELSE UNCHANGED mediaVars

TablesStep == of = "Tables" /\ Next /\ Others("Tables")
UpgradeStep == of = "Upgrade" /\ Upgrade!Next /\ Others("upgrade")
IdentityStep == of = "Identity" /\ Identity!Next /\ Others("identity")
AdoptionStep == of = "Adoption" /\ Adoption!Next /\ Others("adoption")
MediaStep == of = "Media" /\ Media!Next /\ Others("media")

GroupNext ==
    \/ TablesStep \/ UpgradeStep \/ IdentityStep \/ AdoptionStep \/ MediaStep

groupVars ==
    <<of, vars, upgradeVars, identityVars, adoptionVars, mediaVars>>
GroupSpec == GroupInit /\ [][GroupNext]_groupVars
-----------------------------------------------------------------------------
\* Nothing an older program left to do is forgotten or invented: an upgrade keeps
\* every build, generation and GC job with its attempts, what was owed can still be
\* claimed, what was done stays done, whoever dies in between (migrations 7 to 9);
\* and once the runtime runs, no queued video is without a job, in however many
\* batches and starts the jobs were made (adopt_legacy_video_index_jobs).
WorkIsKept ==
    /\ of = "Upgrade" => Upgrade!WorkIsKept
    /\ of = "Adoption" => Adoption!StartedIsAdopted

\* What the database says of files is so: the digest a video is linked by was, at
\* one moment of the call, that of the file at its path (asset identity), a video
\* has its whole media, and a clip that was exported stays its own (uploads, exports).
FilesAreWhatRowsSay ==
    /\ of = "Identity" => Identity!VerifiedWasThere
    /\ Media!RowsHaveMedia
    /\ Media!ExportsKept
=============================================================================
