----------------------------- MODULE QwenWorker -----------------------------
(***************************************************************************)
(* The Qwen worker (providers/qwen_worker.py), which judges one clip at a  *)
(* time on a private copy of it, and the reranker of the backend           *)
(* (providers/qwen_video.py), which cuts clips out of the candidates of a  *)
(* search, asks the worker about them, and keeps the judgements in a cache *)
(* on disk that all searches share.                                        *)
(*                                                                         *)
(* A clip is known by its cache key.  The clip file of a search is         *)
(* abstracted to the number of times another program rewrote it, a         *)
(* judgement to what it was made from: the key and the file the client     *)
(* named, the file the model read, and the request whose state the         *)
(* language model still held.  Not modelled: authentication, limits,       *)
(* model and source-bundle identities, the legacy cache keys, the wording  *)
(* and scores of evidence, the deprecated inference in the backend.        *)
(***************************************************************************)
EXTENDS Naturals, FiniteSets

CONSTANTS
    Searches,        \* threads that rerank, once each
    Clips,           \* cache keys of the candidates
    Slots,           \* bound: requests under way at a time, orphans included
    MaxConcurrency,  \* VIDEOSCOPE_QWEN_WORKER_MAX_CONCURRENCY
    MaxRewrites,     \* bound: times a clip file is rewritten by somebody else
    MaxFaults        \* bound: damaged cache files and deaths of the worker

None == "none"
QwenAssumption ==
    /\ MaxConcurrency \in 1..8
    /\ {MaxRewrites, MaxFaults} \subseteq Nat
    /\ None \notin Searches \cup Clips \cup Slots

Judgement == [key : Clips, want : 0..MaxRewrites, read : 0..MaxRewrites,
              residue : Slots \cup {None}]
NoJudgement == [key |-> None, want |-> 0, read |-> 0, residue |-> None]

Admitted == {"admitted", "copied", "locked", "inferred", "released", "verified"}
Points   == {"free", "sent", "answered"} \cup Admitted

VARIABLES
    search,    \* search[s]: [at, strict, asked, todo, key]
    found,     \* found[s]: the judgements attached to the candidates of s
    clip,      \* clip[s]: rewrites of the clip file of s
    slot,      \* slot[i]: [client, key, want, copy, at, result, ok]
    permits,   \* permits of the capacity semaphore
    holder,    \* the slot that holds the inference lock, or None
    residue,   \* the request whose state the language model holds, or None
    healthy,   \* the worker's _healthy flag
    cache,     \* cache[k]: the judgement in the file of k, or NoJudgement
    faults
vars == <<search, found, clip, slot, permits, holder, residue, healthy, cache, faults>>
Worker == <<permits, holder, residue, healthy>>

Free == [client |-> None, key |-> None, want |-> 0, copy |-> 0, at |-> "free",
         result |-> NoJudgement, ok |-> FALSE]

Init ==
    /\ search = [s \in Searches |->
          [at |-> "idle", strict |-> FALSE, asked |-> {}, todo |-> {}, key |-> None]]
    /\ found   = [s \in Searches |-> {}]
    /\ clip    = [s \in Searches |-> 0]
    /\ slot    = [i \in Slots |-> Free]
    /\ permits = MaxConcurrency
    /\ holder  = None /\ residue = None /\ healthy = TRUE
    /\ cache   = [k \in Clips |-> NoJudgement]
    /\ faults  = 0

(***************************************************************************)
(* The reranker.                                                           *)
(***************************************************************************)

Start(s, keys, strict) ==
    /\ search[s].at = "idle"
    /\ search' = [search EXCEPT ![s] = [at |-> "next", strict |-> strict,
                                        asked |-> keys, todo |-> keys, key |-> None]]
    /\ UNCHANGED <<found, clip, slot, Worker, cache, faults>>

\* The next candidate: its judgement is in the cache, or its clip is cut.
Take(s, k) ==
    /\ search[s].at = "next" /\ k \in search[s].todo
    /\ IF cache[k] # NoJudgement
       THEN /\ found' = [found EXCEPT ![s] = @ \cup {cache[k]}]
            /\ search' = [search EXCEPT ![s].todo = @ \ {k}]
       ELSE /\ search' = [search EXCEPT ![s].at = "cut", ![s].key = k]
            /\ UNCHANGED found
    /\ UNCHANGED <<clip, slot, Worker, cache, faults>>

\* The digest and the size of the clip file go into the request.
Send(s, i) ==
    /\ search[s].at = "cut" /\ slot[i].at = "free"
    /\ slot' = [slot EXCEPT ![i] = [Free EXCEPT
          !.client = s, !.key = search[s].key, !.want = clip[s], !.at = "sent"]]
    /\ search' = [search EXCEPT ![s].at = "waiting"]
    /\ UNCHANGED <<found, clip, Worker, cache, faults>>

MutGoOn(s) ==
    search' = [search EXCEPT ![s] = [@ EXCEPT !.key = None, !.at = "next",
                                              !.todo = search[s].todo \ {search[s].key}]]
MutRetry(s) ==
    search' = [search EXCEPT ![s] = [@ EXCEPT !.key = None,
        !.at = IF search[s].strict THEN "failed" ELSE "next"]]
\* A candidate that cannot be judged ends a strict search, and is left as it was
\* in any other.
GoOn(s) ==
    search' = [search EXCEPT ![s] = [@ EXCEPT !.key = None,
        !.at = IF search[s].strict THEN "failed" ELSE "next",
        !.todo = search[s].todo \ {search[s].key}]]

\* Cutting the clip fails, or the client gives up and leaves its request behind.
Fail(s) ==
    /\ search[s].at \in {"cut", "waiting"}
    /\ slot' = [i \in Slots |->
          IF slot[i].client # s THEN slot[i]
          ELSE IF slot[i].at = "answered" THEN Free ELSE [slot[i] EXCEPT !.client = None]]
    /\ GoOn(s)
    /\ clip' = [clip EXCEPT ![s] = 0]
    /\ UNCHANGED <<found, Worker, cache, faults>>

\* The answer: a judgement is saved before it is used, and a judgement that cannot
\* be saved is as good as none.
Receive(s, i, saved) ==
    /\ search[s].at = "waiting" /\ slot[i].client = s /\ slot[i].at = "answered"
    /\ slot' = [slot EXCEPT ![i] = Free]
    /\ IF slot[i].ok /\ saved
       THEN /\ cache' = [cache EXCEPT ![search[s].key] = slot[i].result]
            /\ found' = [found EXCEPT ![s] = @ \cup {slot[i].result}]
            /\ search' = [search EXCEPT ![s] = [@ EXCEPT
                  !.key = None, !.at = "next", !.todo = search[s].todo \ {search[s].key}]]
       ELSE GoOn(s) /\ UNCHANGED <<cache, found>>
    /\ clip' = [clip EXCEPT ![s] = 0]
    /\ UNCHANGED <<Worker, faults>>

Finish(s) ==
    /\ search[s].at = "next" /\ search[s].todo = {}
    /\ search' = [search EXCEPT ![s].at = "done"]
    /\ UNCHANGED <<found, clip, slot, Worker, cache, faults>>

(***************************************************************************)
(* The worker.                                                             *)
(***************************************************************************)

\* The answer of a handler; one that nobody waits for frees its slot.
Answered(i, good) ==
    slot' = [slot EXCEPT ![i] = IF @.client = None THEN Free
                                ELSE [@ EXCEPT !.at = "answered", !.ok = good]]

Admit(i) ==
    /\ slot[i].at = "sent"
    /\ IF permits > 0 THEN /\ permits' = permits - 1
                           /\ slot' = [slot EXCEPT ![i].at = "admitted"]
                      ELSE Answered(i, FALSE) /\ UNCHANGED permits
    /\ UNCHANGED <<search, found, clip, holder, residue, healthy, cache, faults>>

\* What the clip file holds now: nothing once its search is over or went on.
Present(i) == slot[i].client # None
MutIntact(i) == Present(i)
Intact(i)  == Present(i) /\ clip[slot[i].client] = slot[i].want

\* The private copy has the digest the request names, or the request is refused.
Copy(i) ==
    /\ slot[i].at = "admitted"
    /\ IF Intact(i)
       THEN slot' = [slot EXCEPT ![i] = [@ EXCEPT !.copy = clip[slot[i].client], !.at = "copied"]]
       ELSE slot' = [slot EXCEPT ![i] = [@ EXCEPT !.ok = FALSE, !.at = "verified"]]
    /\ UNCHANGED <<search, found, clip, Worker, cache, faults>>

\* The inference lock, and the health of the model under it.
Lock(i) ==
    /\ slot[i].at = "copied" /\ holder = None
    /\ IF healthy THEN holder' = i /\ slot' = [slot EXCEPT ![i].at = "locked"]
                  ELSE /\ slot' = [slot EXCEPT ![i] = [@ EXCEPT !.ok = FALSE, !.at = "verified"]]
                       /\ UNCHANGED holder
    /\ UNCHANGED <<search, found, clip, permits, residue, healthy, cache, faults>>

\* The model generates from the copy, on top of whatever state it has; it raises,
\* does not finish, or leaves its own state behind.
Infer(i, good) ==
    /\ slot[i].at = "locked"
    /\ slot' = [slot EXCEPT ![i] = [@ EXCEPT !.at = "inferred", !.ok = good, !.copy = 0,
          !.result = IF good THEN [key |-> slot[i].key, want |-> slot[i].want,
                                   read |-> slot[i].copy, residue |-> residue]
                             ELSE NoJudgement]]
    /\ residue' = i
    /\ UNCHANGED <<search, found, clip, permits, holder, healthy, cache, faults>>

\* The state of the request is taken out of the model before the lock is free,
\* after a failed inference too; a worker that cannot do so infers no more.
MutRelease(i, cleared) ==
    /\ slot[i].at = "inferred"
    /\ residue' = IF cleared /\ slot[i].ok THEN None ELSE residue
    /\ healthy' = (healthy /\ cleared)
    /\ holder' = None
    /\ slot' = [slot EXCEPT ![i] = [@ EXCEPT !.ok = slot[i].ok /\ cleared, !.at = "released"]]
    /\ UNCHANGED <<search, found, clip, permits, cache, faults>>
Release(i, cleared) ==
    /\ slot[i].at = "inferred"
    /\ residue' = IF cleared THEN None ELSE residue
    /\ healthy' = (healthy /\ cleared)
    /\ holder' = None
    /\ slot' = [slot EXCEPT ![i] = [@ EXCEPT !.ok = slot[i].ok /\ cleared, !.at = "released"]]
    /\ UNCHANGED <<search, found, clip, permits, cache, faults>>

\* The clip must still be the file it was.
Verify(i) ==
    /\ slot[i].at = "released"
    /\ slot' = [slot EXCEPT ![i] = [@ EXCEPT
          !.ok = slot[i].ok /\ Intact(i), !.at = "verified",
          !.result = IF slot[i].ok /\ Intact(i) THEN slot[i].result ELSE NoJudgement]]
    /\ UNCHANGED <<search, found, clip, Worker, cache, faults>>

\* The copy is removed, the permit returned; an answer whose copy could not be
\* removed is an error.
MutClose(i, removed) ==
    /\ slot[i].at = "verified"
    /\ permits' = IF slot[i].ok THEN permits + 1 ELSE permits
    /\ Answered(i, slot[i].ok /\ removed)
    /\ UNCHANGED <<search, found, clip, holder, residue, healthy, cache, faults>>
MutCloseTwice(i, removed) ==
    /\ slot[i].at = "verified"
    /\ permits' = IF removed THEN permits + 1 ELSE permits + 2
    /\ Answered(i, slot[i].ok /\ removed)
    /\ UNCHANGED <<search, found, clip, holder, residue, healthy, cache, faults>>
Close(i, removed) ==
    /\ slot[i].at = "verified"
    /\ permits' = permits + 1
    /\ Answered(i, slot[i].ok /\ removed)
    /\ UNCHANGED <<search, found, clip, holder, residue, healthy, cache, faults>>

(***************************************************************************)
(* What happens around them.                                               *)
(***************************************************************************)

Rewrite(s) ==
    /\ search[s].at \in {"cut", "waiting"} /\ clip[s] < MaxRewrites
    /\ clip' = [clip EXCEPT ![s] = @ + 1]
    /\ UNCHANGED <<search, found, slot, Worker, cache, faults>>

\* A cache file is damaged: it does not parse or names another key.
Damage(k) ==
    /\ faults < MaxFaults /\ cache[k] # NoJudgement
    /\ faults' = faults + 1
    /\ cache' = [cache EXCEPT ![k] = NoJudgement]
    /\ UNCHANGED <<search, found, clip, slot, Worker>>

\* The worker dies and is started again.
Restart ==
    /\ faults < MaxFaults
    /\ faults' = faults + 1
    /\ slot' = [i \in Slots |->
          IF slot[i].at \in {"free", "answered"} THEN slot[i]
          ELSE IF slot[i].client = None THEN Free
          ELSE [Free EXCEPT !.client = slot[i].client, !.at = "answered"]]
    /\ permits' = MaxConcurrency
    /\ holder' = None /\ residue' = None /\ healthy' = TRUE
    /\ UNCHANGED <<search, found, clip, cache>>

Handle(i) ==
    \/ Admit(i) \/ Copy(i) \/ Lock(i) \/ Verify(i)
    \/ \E b \in BOOLEAN : Infer(i, b) \/ Release(i, b) \/ Close(i, b)
Rerank(s) ==
    \/ \E k \in Clips : Take(s, k)
    \/ \E i \in Slots : Send(s, i) \/ \E b \in BOOLEAN : Receive(s, i, b)
    \/ Finish(s)

Next ==
    \/ \E s \in Searches : \/ \E keys \in SUBSET Clips \ {{}}, b \in BOOLEAN : Start(s, keys, b)
                           \/ Rerank(s) \/ Fail(s) \/ Rewrite(s)
    \/ \E i \in Slots : Handle(i)
    \/ \E k \in Clips : Damage(k)
    \/ Restart
    \/ /\ \A s \in Searches : search[s].at \in {"done", "failed"}
       /\ \A i \in Slots : slot[i].at = "free"
       /\ UNCHANGED vars

\* Searches and handlers take their steps; an inference lock is given to everyone
\* who keeps waiting.
Fairness ==
    /\ \A s \in Searches : SF_vars(Rerank(s))
    /\ \A i \in Slots : WF_vars(Handle(i)) /\ SF_vars(Lock(i))
Spec == Init /\ [][Next]_vars /\ Fairness

(***************************************************************************)
(* Properties.                                                             *)
(***************************************************************************)

TypeOK ==
    /\ search \in [Searches -> [at : {"idle", "next", "cut", "waiting", "done", "failed"},
                                strict : BOOLEAN, asked : SUBSET Clips, todo : SUBSET Clips,
                                key : Clips \cup {None}]]
    /\ found \in [Searches -> SUBSET Judgement]
    /\ clip \in [Searches -> 0..MaxRewrites]
    /\ \A i \in Slots :
          /\ slot[i].client \in Searches \cup {None} /\ slot[i].key \in Clips \cup {None}
          /\ slot[i].at \in Points /\ slot[i].ok \in BOOLEAN
          /\ slot[i].result \in Judgement \cup {NoJudgement}
    /\ permits \in 0..MaxConcurrency
    /\ {holder, residue} \subseteq Slots \cup {None} /\ healthy \in BOOLEAN
    /\ cache \in [Clips -> Judgement \cup {NoJudgement}]

\* A judgement that reaches a candidate or the cache all searches share was made
\* for that candidate's clip, from the bytes the client named, by a model that held
\* nothing of another request, although clips are rewritten under way, requests
\* fail in the middle of an inference, and others take their turn.
Exact(j) == j.read = j.want /\ j.residue = None
JudgementsAreExact ==
    /\ \A k \in Clips : cache[k] # NoJudgement => cache[k].key = k /\ Exact(cache[k])
    /\ \A s \in Searches : \A j \in found[s] : j.key \in search[s].asked /\ Exact(j)

\* A worker whose model may hold the state of an earlier request infers for nobody
\* until it is started again (_release_mlx_after_request, _generate).
ResidueIsFenced == \A i \in Slots : slot[i].at = "locked" => healthy /\ residue = None

\* Every way out of a handler returns its permit exactly once.
PermitsConserved ==
    permits + Cardinality({i \in Slots : slot[i].at \in Admitted}) = MaxConcurrency

\* A strict search that ends has a judgement of every candidate it asked about;
\* one that lacks any has failed instead of answering in part (rerank_strict).
StrictIsAllOrNothing ==
    \A s \in Searches : search[s].at = "done" /\ search[s].strict =>
        {j.key : j \in found[s]} = search[s].asked

\* Every search ends, also behind an unhealthy worker, a busy one and one that dies.
SearchesEnd == \A s \in Searches : search[s].at = "next" ~> search[s].at \in {"done", "failed"}
=============================================================================
