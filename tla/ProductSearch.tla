---------------------------- MODULE ProductSearch ----------------------------
(***************************************************************************)
(* SearchService.search (search/service.py) and its strict form for        *)
(* evaluation, statement by statement, against a catalogue that moves      *)
(* under it.  A search reads each kind of evidence at a moment of its own. *)
(*                                                                         *)
(* The score of a hit does not matter here: a search that asked for a kind *)
(* of evidence of a generation is taken to find some.  What happens to     *)
(* hits afterwards (deduplication, fusion, reranking) is left out.         *)
(***************************************************************************)
EXTENDS SearchCatalog

\* What QueryRouter.route makes of queries, as far as it decides which files are
\* read; the semantic modalities are part of each plan.
CONSTANT Plans
PlansAssumption == Plans \subseteq SUBSET Files

VARIABLE q  \* the search under way, or the answer of the latest one

vars == <<catalog, q>>

NoGens == [v \in Videos |-> 0]
NoSegments == [v \in Videos |-> [k \in Segments |-> 0]]
NoBinding == [v \in Videos |-> [f \in Files |-> 0]]

Points  == {"idle", "precheck", "list", "snapshot", "speech", "ocr", "bind", "inputs",
            "validate", "query", "rebind", "compare", "visual", "visual-end",
            "moment", "moment-end", "done", "refused"}
Reasons == {"", "unconfigured", "stale", "unbound", "text", "files"}

Idle == [at |-> "idle", plan |-> {}, strict |-> FALSE, ready |-> {}, jobs |-> {},
         bound |-> NoBinding, segments |-> NoSegments, bind |-> NoGens, again |-> NoGens,
         whole |-> TRUE, loaded |-> {}, found |-> {}, meant |-> {}, why |-> ""]

TypeOK ==
    /\ CatalogTypeOK
    /\ q \in [at : Points, plan : SUBSET Files, strict : BOOLEAN, ready : SUBSET Videos,
              jobs : SUBSET Videos, bound : [Videos -> [Files -> Gens]],
              segments : [Videos -> [Segments -> Gens]], bind : [Videos -> Gens],
              again : [Videos -> Gens], whole : BOOLEAN,
              loaded : SUBSET (Videos \X Kinds \X Gens),
              found : SUBSET (Videos \X Kinds \X Gens),
              meant : SUBSET (Videos \X Segments \X Gens), why : Reasons]

Init == CatalogInit /\ q = Idle

Refuse(why) == q' = [q EXCEPT !.at = "refused", !.why = why]

Ask(plan, strict) ==
    /\ q.at \in {"idle", "done", "refused"}
    /\ q' = [Idle EXCEPT !.at = IF strict THEN "precheck" ELSE "list",
                         !.plan = plan, !.strict = strict]
    /\ UNCHANGED catalog

\* search_for_evaluation: the providers must be there, and their directories
\* current by their own pointers for every ready video.
Precheck ==
    /\ q.at = "precheck"
    /\ IF ~ q.plan \subseteq provided THEN Refuse("unconfigured")
       ELSE IF \E v \in Ready, f \in q.plan : ~ Usable(v, f, pointer[v][f])
            THEN Refuse("stale")
            ELSE q' = [q EXCEPT !.at = "list"]
    /\ UNCHANGED catalog

List ==
    /\ q.at = "list"
    /\ q' = [q EXCEPT !.at = "snapshot", !.ready = Ready]
    /\ UNCHANGED catalog

\* One read transaction: which of the ready videos have jobs, and the active
\* generations of frames and moments of those.
Release(v) == [f \in Files |-> active[v][f]]
Snapshot ==
    /\ q.at = "snapshot"
    /\ LET durable == q.ready \cap jobs
       IN  IF durable # {} /\ ~ q.plan \subseteq provided
           THEN Refuse("unconfigured")
           ELSE q' = [q EXCEPT !.at = "speech", !.jobs = durable,
                               !.bound = [v \in Videos |->
                                  IF v \in durable THEN Release(v) ELSE NoBinding[v]]]
    /\ UNCHANGED catalog

\* Each of the segment stages is read by itself.  A read that fails leaves
\* nothing, except in a strict search, which also makes sure beforehand that
\* there is something.
ReadSegments(k) ==
    /\ q.at = k
    /\ \E read \in {[v \in Videos |-> IF v \in q.ready THEN active[v][k] ELSE 0], NoGens} :
          IF q.strict /\ \E v \in q.ready : read[v] = 0
          THEN Refuse("text")
          ELSE q' = [q EXCEPT !.at = IF k = "speech" THEN "ocr" ELSE "bind",
                              !.segments = [v \in Videos |-> [@[v] EXCEPT ![k] = read[v]]]]
    /\ UNCHANGED catalog

\* Both readings of the bindings take the pointer first and its inputs later;
\* the first may fail and leave none.
Pointers == [v \in Videos |-> IF v \in q.ready THEN active[v]["text"] ELSE 0]
ActiveSegments(v) == [k \in Segments |-> active[v][k]]
Confirmed(read) == [v \in Videos |->
    IF read[v] # 0 /\ inputs[v][read[v]] = ActiveSegments(v) THEN read[v] ELSE 0]

Bind ==
    /\ q.at = "bind"
    /\ \E read \in {Pointers, NoGens} : q' = [q EXCEPT !.at = "inputs", !.bind = read]
    /\ UNCHANGED catalog

Inputs ==
    /\ q.at = "inputs"
    /\ LET bound == Confirmed(q.bind)
       IN  IF q.strict /\ \E v \in q.ready : bound[v] = 0
           THEN Refuse("text")
           ELSE q' = [q EXCEPT !.at = "validate", !.bind = bound]
    /\ UNCHANGED catalog

Bound == {v \in Videos : q.bind[v] # 0}

\* Words found by spelling, in the segments read at the beginning.
Hits(v, read) == {<<v, k, read[k]>> : k \in {s \in Segments : read[s] # 0}}
LexicalHits == UNION {Hits(v, q.segments[v]) : v \in q.ready}

\* Mutant: an error of the semantic search is tolerated by a strict search too.
MutTextFails == q' = [q EXCEPT !.at = "visual", !.bind = NoGens, !.whole = TRUE,
                               !.again = NoGens, !.found = LexicalHits]

\* An error of the semantic search leaves the other kinds of evidence, except
\* in a strict search.
TextFails ==
    IF q.strict THEN Refuse("text")
    ELSE q' = [q EXCEPT !.at = "visual", !.bind = NoGens, !.whole = TRUE,
                        !.again = NoGens, !.found = LexicalHits]

Validate ==
    /\ q.at = "validate"
    /\ \/ TextFails
       \/ /\ \A v \in Bound : q.bind[v] \in stored[v]
          /\ q' = [q EXCEPT !.at = "query"]
    /\ UNCHANGED catalog

\* The store returns what it holds, which may be less than it was validated
\* to hold.
Query ==
    /\ q.at = "query"
    /\ q' = [q EXCEPT !.at = "rebind",
                      !.whole = \A v \in Bound : q.bind[v] \in stored[v]]
    /\ UNCHANGED catalog

Rebind ==
    /\ q.at = "rebind"
    /\ q' = [q EXCEPT !.at = "compare", !.again = Pointers]
    /\ UNCHANGED catalog

\* What the vectors that were read stand for.
Meant(v) == {<<v, k, inputs[v][q.bind[v]][k]>> : k \in Segments}

\* Mutant: what the store returns counts as it is.
MutSemanticHits == UNION {Meant(v) : v \in Bound}

\* A hit of the store counts only if its segment is one of those read at the
\* beginning.
SemanticHits == UNION {Meant(v) \cap Hits(v, q.segments[v]) : v \in Bound}

\* Mutant: the bindings are not read again.
MutCompare ==
    /\ q.at = "compare"
    /\ q' = [q EXCEPT !.at = "visual", !.again = NoGens,
                      !.found = LexicalHits, !.meant = SemanticHits]
    /\ UNCHANGED catalog

Compare ==
    /\ q.at = "compare"
    /\ IF Confirmed(q.again) = q.bind
       THEN q' = [q EXCEPT !.at = "visual", !.again = NoGens,
                           !.found = LexicalHits, !.meant = SemanticHits]
       ELSE TextFails
    /\ UNCHANGED catalog

\* Mutant: the next step by the name of the provider.
MutAfter(f) == IF f = "visual" THEN "lighthouse" ELSE "done"

After(f) == IF f = "visual" THEN "moment" ELSE "done"
\* Mutant: the pointers of the directories serve all videos.
MutLegacy == q.ready

Legacy == q.ready \ q.jobs

Skip(f) ==
    /\ q.at = f
    /\ ~ f \in q.plan \cap provided \/ q.ready = {}
    /\ q' = [q EXCEPT !.at = After(f)]
    /\ UNCHANGED catalog

FilesFail(f) ==
    IF q.strict \/ q.jobs # {} THEN Refuse("files")
    ELSE q' = [q EXCEPT !.at = After(f)]

\* Videos with jobs are searched in exactly the generations of the snapshot,
\* the others in what the pointer of the directory names, if it loads.
LegacyLoad(f) == {<<v, f, pointer[v][f]>> : v \in
                    {u \in Legacy : Usable(u, f, pointer[u][f])}}
\* Mutant: the active generation is looked up when it is needed.
MutExact(f) == {<<v, f, active[v][f]>> : v \in q.jobs}

Exact(f) == {<<v, f, q.bound[v][f]>> : v \in q.jobs}

Load(f) ==
    /\ q.at = f
    /\ f \in q.plan \cap provided /\ q.ready # {}
    /\ IF \E v \in q.jobs : q.bound[v][f] = 0
       THEN Refuse("unbound")
       ELSE \/ FilesFail(f)
            \/ /\ \A v \in q.jobs : Usable(v, f, q.bound[v][f])
               /\ q' = [q EXCEPT !.at = IF f = "visual" THEN "visual-end" ELSE "moment-end",
                                 !.loaded = Exact(f) \cup LegacyLoad(f)]
    /\ UNCHANGED catalog

\* The descriptors of the bound generations are compared again after the
\* search; then its hits count.
Finish(f) ==
    /\ q.at = IF f = "visual" THEN "visual-end" ELSE "moment-end"
    /\ IF \A v \in q.jobs : Usable(v, f, q.bound[v][f])
       THEN q' = [q EXCEPT !.at = After(f), !.found = @ \cup q.loaded, !.loaded = {}]
       ELSE FilesFail(f)
    /\ UNCHANGED catalog

\* The process starts again, with other providers perhaps.
Restart ==
    /\ q.at \in {"idle", "done", "refused"}
    /\ provided' \in Providers
    /\ q' = Idle
    /\ UNCHANGED <<status, jobs, active, inputs, stored, pointer, broken, last, past>>

Search ==
    \/ \E plan \in Plans, strict \in BOOLEAN : Ask(plan, strict)
    \/ Precheck \/ List \/ Snapshot
    \/ \E k \in Segments : ReadSegments(k)
    \/ Bind \/ Inputs \/ Validate \/ Query \/ Rebind \/ Compare
    \/ \E f \in Files : Skip(f) \/ Load(f) \/ Finish(f)

Next == Search \/ Restart \/ (Others /\ UNCHANGED q)

Spec == Init /\ [][Next]_vars
-----------------------------------------------------------------------------
Answered == q.at = "done"
Found(v, k) == {g \in Gens : <<v, k, g>> \in q.found}

\* All frames and moments in one answer, of all videos with jobs, belong to
\* one state of the active pointers: a release that is published during the
\* search is seen completely by it or not at all.
ExternalEvidenceIsOneRelease ==
    Answered => \E a \in past : \A v \in q.jobs, f \in Files :
                    Found(v, f) \subseteq {a[v][f]}

\* What a search finds by meaning in one video belongs to one release, and the
\* vectors that led to it were the active ones of that release; what it finds by
\* spelling is of the same generation, stage by stage.  The segments of each
\* stage, the vectors and their inputs are all read at different moments.
MeaningIsOfOneRelease ==
    Answered => \A v \in q.ready : \E a \in past : \A k \in Segments, g \in Gens :
        <<v, k, g>> \in q.meant => /\ a[v]["text"] = q.bind[v] /\ a[v][k] = g
                                  /\ Found(v, k) = {g}

\* An answer never lacks hits because garbage collection took the vectors away
\* between their validation and the query.
NoVectorsGoMissing == Answered => q.whole

\* Frames and moments of a video with jobs were published by a job: neither
\* the pointer of a directory nor the output of an unfinished job answers.
OnlyReleasesAnswer ==
    Answered => \A v \in q.jobs, f \in Files : \A g \in Found(v, f) :
                    \E a \in past : a[v][f] = g

\* A strict search that answers has read every kind of text of every video it
\* took, and every kind of file it asked for of the videos with jobs.
StrictAnswersAreComplete ==
    Answered /\ q.strict =>
        /\ \A v \in q.ready : q.bind[v] # 0 /\ \A k \in Segments : Found(v, k) # {}
        /\ \A v \in q.jobs, f \in q.plan : Found(v, f) # {}

\* "the rest of search will continue to work" once Lighthouse is unconfigured
\* (docs/lighthouse-worker.md, in Russian): a search is never refused for it.
SearchWorksWithoutLighthouse ==
    q.at = "refused" /\ ~ q.strict /\ "visual" \in provided => q.why # "unconfigured"

\* "optional failures are isolated" (docs/architecture.md): a video whose job
\* had no frames or moments does not take the answers of other videos away.
OptionalFailuresAreIsolated ==
    q.at = "refused" /\ ~ q.strict /\ q.why = "unbound" =>
        \A v \in q.ready : v \in q.jobs /\ \E f \in q.plan : q.bound[v][f] = 0

\* "active.json files are legacy caches, not authority for job-backed search"
\* (docs/architecture.md): a strict search is not refused for the pointer of a
\* video whose active generations are all there.
PointersAreNotAuthority ==
    [][q.at = "precheck" /\ q'.at = "refused" /\ q'.why = "stale" =>
         \E v \in Ready, f \in q.plan :
            IF v \in jobs THEN ~ Usable(v, f, active[v][f])
                          ELSE ~ Usable(v, f, pointer[v][f])]_vars

\* "infrastructure outages cannot look like misses" (search_for_evaluation): a
\* strict answer has searched every file it asked for of every video it took.
OutagesAreNotMisses ==
    Answered /\ q.strict => \A v \in q.ready, f \in q.plan : Found(v, f) # {}
=============================================================================
