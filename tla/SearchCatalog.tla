---------------------------- MODULE SearchCatalog ----------------------------
(***************************************************************************)
(* What a search reads while indexing goes on: the status of the videos    *)
(* and the active generations in SQLite (repository.py), the vectors in    *)
(* the text store, and the generations of frames and moments in the        *)
(* directories of the visual index and of Lighthouse, each of which also   *)
(* keeps a pointer, active.json, from before durable jobs existed.  The    *)
(* actions are those of the other parties; the modules that extend this    *)
(* one add a reader.                                                       *)
(*                                                                         *)
(* Generations are numbered in the order of their publication, 0 stands    *)
(* for none, 1 for what an indexing before durable jobs left behind.       *)
(* Speech and OCR stand for the three semantic segment stages.  The        *)
(* specifications of the stages do not change, so that a stage that fails  *)
(* keeps its earlier generation.                                           *)
(***************************************************************************)
EXTENDS Naturals, FiniteSets

CONSTANTS
    Videos,
    Outcomes,     \* the sets of kinds that a job may find
    Providers,    \* the sets of providers of files that may be configured
    MaxReleases,  \* bound: releases published
    MaxBroken     \* bound: generations whose files get lost or damaged

Segments == {"speech", "ocr"}     \* kept in SQLite
Files    == {"visual", "moment"}  \* kept in directories
Kinds    == Segments \cup {"text"} \cup Files

CatalogAssumption ==
    /\ Outcomes \subseteq SUBSET Kinds /\ Providers \subseteq SUBSET Files
    /\ MaxReleases \in Nat /\ MaxBroken \in Nat

Old    == 1
Gens   == 0..MaxReleases + Old
Status == {"absent", "indexing", "reindexing", "ready", "failed"}

VARIABLES
    status,    \* videos.status, queued and processing taken together
    jobs,      \* videos with a row in video_index_jobs
    active,    \* active[v][k]: the active pointers in SQLite
    inputs,    \* inputs[v][g]: the segments whose vectors text generation g has
    stored,    \* stored[v]: generations whose vectors the text store holds
    pointer,   \* pointer[v]: active.json of the two directories
    broken,    \* <<v, f, g>> whose files no longer validate
    provided,  \* the providers of Files this process was configured with
    last,      \* the latest generation published
    past       \* history: every value that active has had

catalog == <<status, jobs, active, inputs, stored, pointer, broken, provided, last, past>>

CatalogTypeOK ==
    /\ status \in [Videos -> Status]
    /\ jobs \subseteq Videos
    /\ active \in [Videos -> [Kinds -> Gens]]
    /\ inputs \in [Videos -> [Gens -> [Segments -> Gens]]]
    /\ stored \in [Videos -> SUBSET Gens]
    /\ pointer \in [Videos -> [Files -> {0, Old}]]
    /\ broken \subseteq Videos \X Files \X Gens
    /\ provided \in Providers
    /\ last \in Gens
    /\ active \in past

\* A video is not there yet, or was indexed before there were jobs: with text
\* in SQLite and, as the providers permitted, pointers in the directories.
CatalogInit ==
    /\ status \in [Videos -> {"absent", "ready"}]
    /\ jobs = {}
    /\ active = [v \in Videos |-> [k \in Kinds |->
                  IF status[v] = "ready" /\ k \notin Files THEN Old ELSE 0]]
    /\ inputs = [v \in Videos |-> [g \in Gens |-> [k \in Segments |->
                  IF g = Old THEN Old ELSE 0]]]
    /\ stored = [v \in Videos |-> {active[v]["text"]} \ {0}]
    /\ pointer \in [Videos -> [Files -> {0, Old}]]
    /\ \A v \in Videos : status[v] = "absent" => pointer[v] = [f \in Files |-> 0]
    /\ broken = {} /\ last = Old
    /\ provided \in Providers
    /\ past = {active}

Usable(v, f, g) == g # 0 /\ <<v, f, g>> \notin broken
Ready == {v \in Videos : status[v] = "ready"}

\* An upload or a reindex: the job exists from here on, and the video is not
\* ready until it ends.
Enqueue(v) ==
    /\ status[v] \notin {"indexing", "reindexing"}
    /\ status' = [status EXCEPT ![v] = IF @ = "ready" THEN "reindexing" ELSE "indexing"]
    /\ jobs' = jobs \cup {v}
    /\ UNCHANGED <<active, inputs, stored, pointer, broken, provided, last, past>>

\* The job completes.  Every stage is optional here: those that failed or had
\* no provider keep the generation that was active, the text vectors only if
\* they are those of the segments now active.
NewSegments(v, fresh) ==
    [k \in Segments |-> IF k \in fresh THEN last + 1 ELSE active[v][k]]
Kept(v, fresh) ==
    IF inputs[v][active[v]["text"]] = NewSegments(v, fresh) THEN active[v]["text"] ELSE 0

Publish(v, fresh) ==
    LET g == last + 1
    IN  /\ status[v] \in {"indexing", "reindexing"} /\ g \in Gens
        /\ fresh \cap Files \subseteq provided
        /\ status' = [status EXCEPT ![v] = "ready"]
        /\ active' = [active EXCEPT ![v] = [k \in Kinds |->
                        IF k \in fresh THEN g
                        ELSE IF k = "text" THEN Kept(v, fresh) ELSE @[k]]]
        /\ inputs' = IF "text" \in fresh
                     THEN [inputs EXCEPT ![v][g] = NewSegments(v, fresh)] ELSE inputs
        /\ stored' = IF "text" \in fresh
                     THEN [stored EXCEPT ![v] = @ \cup {g}] ELSE stored
        /\ last' = g /\ past' = past \cup {active'}
        /\ UNCHANGED <<jobs, pointer, broken, provided>>

\* The job fails or is cancelled: the status from before comes back.
GiveUp(v) ==
    /\ status[v] \in {"indexing", "reindexing"}
    /\ status' = [status EXCEPT ![v] = IF @ = "reindexing" THEN "ready" ELSE "failed"]
    /\ UNCHANGED <<jobs, active, inputs, stored, pointer, broken, provided, last, past>>

\* Garbage collection deletes the vectors of a generation that is not active.
Collect(v, g) ==
    /\ g \in stored[v] /\ g # active[v]["text"]
    /\ stored' = [stored EXCEPT ![v] = @ \ {g}]
    /\ UNCHANGED <<status, jobs, active, inputs, pointer, broken, provided, last, past>>

\* The files of a generation that somebody refers to are damaged or removed.
Break(v, f) ==
    /\ Cardinality(broken) < MaxBroken
    /\ \E g \in {pointer[v][f], active[v][f]} \ {0} :
          /\ <<v, f, g>> \notin broken
          /\ broken' = broken \cup {<<v, f, g>>}
    /\ UNCHANGED <<status, jobs, active, inputs, stored, pointer, provided, last, past>>

Others == \E v \in Videos :
    \/ Enqueue(v) \/ GiveUp(v)
    \/ \E fresh \in Outcomes : Publish(v, fresh)
    \/ \E g \in Gens : Collect(v, g)
    \/ \E f \in Files : Break(v, f)
=============================================================================
