---------------------------- MODULE VisionWorker ----------------------------
(***************************************************************************)
(* The vision worker (providers/vision_worker.py), the process that keeps  *)
(* one of two models, SigLIP or RF-DETR, on the device and answers the     *)
(* requests of the backend, and the client that calls it                   *)
(* (providers/vision_worker_client.py) from the dispatcher thread and from *)
(* the threads that serve searches.  The handlers run on one event loop    *)
(* and hand the inference to threads; one inference lock orders those.     *)
(*                                                                         *)
(* A request occupies a slot from its transmission to its answer.  A       *)
(* client that gives up leaves the slot behind without an owner: the       *)
(* worker cannot know and works on.  An image is a file with a content and *)
(* a fingerprint, abstracted to the number of the rewrite that left it.    *)
(* Authentication, limits on sizes and numbers of items, and the identity  *)
(* of the models and of the environment are left out: they reject requests *)
(* before anything changes.                                                *)
(***************************************************************************)
EXTENDS Naturals, FiniteSets

CONSTANTS
    Indexer,         \* the dispatcher thread, which embeds, detects, releases
    Searchers,       \* threads that embed query texts
    Contents,        \* what an image file may contain
    MaxConcurrency,  \* VIDEOSCOPE_VISION_WORKER_MAX_CONCURRENCY
    Slots,           \* bound: requests under way at a time, orphans included
    MaxRewrites      \* bound: times the image file is replaced

None    == "none"
Clients == {Indexer} \cup Searchers

WorkerAssumption ==
    /\ MaxConcurrency \in 1..4
    /\ MaxRewrites \in Nat
    /\ None \notin Clients \cup Slots /\ Indexer \notin Searchers
    /\ Contents # {} /\ None \notin Contents

Models == {"siglip", "detector"}
Ops    == {"embed_images", "embed_texts", "detect", "release_detector"}
HasSource == {"embed_images", "detect"}
ModelFor(op) == IF op = "detect" THEN "detector" ELSE "siglip"
Other(model) == IF model = "siglip" THEN "detector" ELSE "siglip"

\* Where the handler of a slot's request is.
Admitted == {"preparing", "waiting", "loading", "inferring", "checking", "confirming"}
Points   == {"free", "sent", "answered"} \cup Admitted
Answers  == {"ok", "busy", "rejected", "changed", "failed"}

VARIABLES
    slot,       \* slot[i]: [client, op, want, copy, mark, at, answer]
    permits,    \* permits of the capacity semaphore
    holder,     \* the slot that holds the inference lock, or None
    loaded,     \* models on the device
    unhealthy,  \* the worker's _unhealthy event
    file,       \* the image: [content, mark]
    client      \* client[c]: idle, waiting, backoff
vars == <<slot, permits, holder, loaded, unhealthy, file, client>>

Free == [client |-> None, op |-> "embed_texts", want |-> None, copy |-> None,
         mark |-> 0, at |-> "free", answer |-> None]

TypeOK ==
    /\ slot \in [Slots -> [client : Clients \cup {None}, op : Ops,
                           want : Contents \cup {None}, copy : Contents \cup {None},
                           mark : 0..MaxRewrites, at : Points,
                           answer : Answers \cup {None}]]
    /\ permits \in 0..MaxConcurrency
    /\ holder \in Slots \cup {None}
    /\ loaded \in SUBSET Models
    /\ unhealthy \in BOOLEAN
    /\ file \in [content : Contents, mark : 0..MaxRewrites]
    /\ client \in [Clients -> {"idle", "waiting", "backoff"}]

Init ==
    /\ slot = [i \in Slots |-> Free]
    /\ permits = MaxConcurrency
    /\ holder = None /\ loaded = {} /\ unhealthy = FALSE
    /\ file \in [content : Contents, mark : {0}]
    /\ client = [c \in Clients |-> "idle"]

At(i, point)   == slot[i].at = point
Goto(i, point) == slot' = [slot EXCEPT ![i].at = point]

\* The finally clause of a handler gives the permit back with the answer.
Answer(i, answer) ==
    /\ slot' = [slot EXCEPT ![i].at = "answered", ![i].answer = answer]
    /\ permits' = permits + 1
-----------------------------------------------------------------------------
(* The client *)

OpsOf(c) == IF c = Indexer THEN Ops \ {"embed_texts"} ELSE {"embed_texts"}

\* A call hashes the image and sends one request with the digest.
Send(c, op, i) ==
    /\ op \in OpsOf(c) /\ At(i, "free")
    /\ \/ client[c] = "idle"
       \/ client[c] = "backoff" /\ op = "release_detector"
    /\ slot' = [slot EXCEPT ![i] = [Free EXCEPT
                  !.client = c, !.op = op, !.at = "sent",
                  !.want = IF op \in HasSource THEN file.content ELSE None]]
    /\ client' = [client EXCEPT ![c] = "waiting"]
    /\ UNCHANGED <<permits, holder, loaded, unhealthy, file>>

\* The answer reaches the caller: a release that found the worker busy backs
\* off and is sent again until its deadline; any other answer ends the call.
Receive(i) ==
    /\ At(i, "answered")
    /\ slot' = [slot EXCEPT ![i] = Free]
    /\ client' = IF slot[i].client = None THEN client
                 ELSE [client EXCEPT ![slot[i].client] =
                         IF slot[i].op = "release_detector" /\ slot[i].answer = "busy"
                         THEN "backoff" ELSE "idle"]
    /\ UNCHANGED <<permits, holder, loaded, unhealthy, file>>

\* The deadline of the call passes.  The request it sent goes on.
Abandon(c) ==
    /\ client[c] # "idle"
    /\ client' = [client EXCEPT ![c] = "idle"]
    /\ slot' = [i \in Slots |-> IF slot[i].client = c
                                THEN [slot[i] EXCEPT !.client = None] ELSE slot[i]]
    /\ UNCHANGED <<permits, holder, loaded, unhealthy, file>>
-----------------------------------------------------------------------------
(* The handlers *)

MutAdmit(i) ==                   \* the refusal runs the finally clause as well
    /\ At(i, "sent")
    /\ IF permits = 0
          THEN Answer(i, "busy")
          ELSE /\ Goto(i, IF slot[i].op \in HasSource THEN "preparing" ELSE "waiting")
               /\ permits' = permits - 1
    /\ UNCHANGED <<holder, loaded, unhealthy, file, client>>

\* A request that finds no permit is answered 429 at once.
Admit(i) ==
    /\ At(i, "sent")
    /\ IF permits = 0
          THEN /\ slot' = [slot EXCEPT ![i].at = "answered", ![i].answer = "busy"]
               /\ UNCHANGED permits
          ELSE /\ Goto(i, IF slot[i].op \in HasSource THEN "preparing" ELSE "waiting")
               /\ permits' = permits - 1
    /\ UNCHANGED <<holder, loaded, unhealthy, file, client>>

MutPrepare(i) ==                 \* infers on the copy whatever its digest is
    /\ At(i, "preparing")
    /\ slot' = [slot EXCEPT ![i].at = "waiting", ![i].copy = file.content,
                            ![i].mark = file.mark]
    /\ UNCHANGED <<permits, holder, loaded, unhealthy, file, client>>

\* _prepare_image copies the file, the same bytes from the first to the last,
\* and requires the digest the client named.  An unreadable image is rejected.
Prepare(i) ==
    /\ At(i, "preparing")
    /\ \/ /\ file.content = slot[i].want
          /\ slot' = [slot EXCEPT ![i].at = "waiting", ![i].copy = file.content,
                                  ![i].mark = file.mark]
          /\ UNCHANGED permits
       \/ file.content # slot[i].want /\ Answer(i, "changed")
       \/ Answer(i, "rejected")
    /\ UNCHANGED <<holder, loaded, unhealthy, file, client>>

MutLock(i) ==                    \* a release does not wait for the inference lock
    /\ At(i, "waiting") /\ (holder = None \/ slot[i].op = "release_detector")
    /\ holder' = IF holder = None THEN i ELSE holder
    /\ Goto(i, "loading")
    /\ UNCHANGED <<permits, loaded, unhealthy, file, client>>

Lock(i) ==
    /\ At(i, "waiting") /\ holder = None
    /\ holder' = i
    /\ Goto(i, "loading")
    /\ UNCHANGED <<permits, loaded, unhealthy, file, client>>

\* Dropping a model synchronizes the device first; a failure there leaves the
\* model, a failure after it does not, and either marks the worker.
DropFails(model) ==
    /\ model \in loaded
    /\ loaded' \in {loaded, loaded \ {model}}
    /\ unhealthy' = TRUE

MutUnlock(i) == UNCHANGED holder   \* the lock is not given back

\* An exception leaves the with block of the inference lock.
Unlock(i) == holder' = IF holder = i THEN None ELSE holder

MutLoad(i) ==                    \* does not drop the other model
    LET model == ModelFor(slot[i].op)
    IN  /\ At(i, "loading") /\ slot[i].op # "release_detector"
        /\ ~unhealthy
        /\ loaded' = loaded \cup {model}
        /\ Goto(i, "inferring")
        /\ UNCHANGED <<unhealthy, permits, holder, file, client>>

\* _load_siglip and _load_detector: refused by an unhealthy worker; the other
\* model is dropped, then the model is loaded unless it is.
Load(i) ==
    LET model == ModelFor(slot[i].op)
    IN  /\ At(i, "loading") /\ slot[i].op # "release_detector"
        /\ ~unhealthy
        /\ loaded' = (loaded \ {Other(model)}) \cup {model}
        /\ Goto(i, "inferring")
        /\ UNCHANGED <<unhealthy, permits, holder, file, client>>

LoadFails(i) ==
    LET model == ModelFor(slot[i].op)
    IN  /\ At(i, "loading") /\ slot[i].op # "release_detector"
        /\ \/ unhealthy /\ UNCHANGED <<loaded, unhealthy>>
           \/ ~unhealthy /\ DropFails(Other(model))
           \/ ~unhealthy /\ loaded' = loaded \ {Other(model)} /\ UNCHANGED unhealthy
        /\ Answer(i, "failed") /\ Unlock(i)
        /\ UNCHANGED <<file, client>>

Infer(i) ==
    /\ At(i, "inferring")
    /\ IF slot[i].op \in HasSource
          THEN Goto(i, "checking") /\ UNCHANGED permits
          ELSE Answer(i, "ok")
    /\ Unlock(i)
    /\ UNCHANGED <<loaded, unhealthy, file, client>>

InferFails(i) ==
    /\ At(i, "inferring")
    /\ Answer(i, "failed") /\ Unlock(i)
    /\ UNCHANGED <<loaded, unhealthy, file, client>>

\* _verify_source_after_inference: the same file with the same bytes.
Check(i) ==
    /\ At(i, "checking")
    /\ Answer(i, IF file = [content |-> slot[i].copy, mark |-> slot[i].mark]
                 THEN "ok" ELSE "changed")
    /\ UNCHANGED <<holder, loaded, unhealthy, file, client>>

MutReleaseDetector(i) ==         \* the error path keeps the permit
    /\ At(i, "loading") /\ slot[i].op = "release_detector"
    /\ \/ loaded' = loaded \ {"detector"} /\ Goto(i, "confirming") /\ UNCHANGED <<permits, unhealthy>>
       \/ /\ DropFails("detector") /\ UNCHANGED permits
          /\ slot' = [slot EXCEPT ![i].at = "answered", ![i].answer = "failed"]
    /\ Unlock(i)
    /\ UNCHANGED <<file, client>>

\* release_detector, also in an unhealthy worker.
ReleaseDetector(i) ==
    /\ At(i, "loading") /\ slot[i].op = "release_detector"
    /\ \/ loaded' = loaded \ {"detector"} /\ Goto(i, "confirming") /\ UNCHANGED <<permits, unhealthy>>
       \/ DropFails("detector") /\ Answer(i, "failed")
    /\ Unlock(i)
    /\ UNCHANGED <<file, client>>

MutConfirm(i) ==                 \* reports what the lock no longer protects
    /\ At(i, "confirming")
    /\ Answer(i, IF loaded = {} THEN "ok" ELSE "failed")
    /\ UNCHANGED <<holder, loaded, unhealthy, file, client>>

\* The handler reads detector_loaded after the lock is free again.
Confirm(i) ==
    /\ At(i, "confirming")
    /\ Answer(i, IF "detector" \in loaded THEN "failed" ELSE "ok")
    /\ UNCHANGED <<holder, loaded, unhealthy, file, client>>
-----------------------------------------------------------------------------
(* The world *)

Rewrite ==
    /\ file.mark < MaxRewrites
    /\ \E content \in Contents : file' = [content |-> content, mark |-> file.mark + 1]
    /\ UNCHANGED <<slot, permits, holder, loaded, unhealthy, client>>

\* The worker dies and is started again; callers see the connection fail.
Restart ==
    /\ slot' = [i \in Slots |-> Free]
    /\ permits' = MaxConcurrency
    /\ holder' = None /\ loaded' = {} /\ unhealthy' = FALSE
    /\ client' = [c \in Clients |-> IF client[c] = "waiting" THEN "idle" ELSE client[c]]
    /\ UNCHANGED file

Handle(i) ==
    \/ Admit(i) \/ Prepare(i) \/ Lock(i) \/ Load(i) \/ LoadFails(i)
    \/ Infer(i) \/ InferFails(i) \/ Check(i) \/ ReleaseDetector(i) \/ Confirm(i)

Next ==
    \/ \E c \in Clients, op \in Ops, i \in Slots : Send(c, op, i)
    \/ \E c \in Clients : Abandon(c)
    \/ \E i \in Slots : Receive(i) \/ Handle(i)
    \/ Rewrite \/ Restart

Spec == Init /\ [][Next]_vars

\* The event loop and the inference threads run; threads that wait for the
\* inference lock get it in turn.
Fairness ==
    \A i \in Slots : WF_vars(Receive(i)) /\ WF_vars(Handle(i)) /\ SF_vars(Lock(i))

FairSpec == Spec /\ Fairness
-----------------------------------------------------------------------------
(* Properties *)

\* Only one vision backbone is resident at a time, while models replace one
\* another, are released, and fail to be dropped.
OneModelResident == loaded # Models

\* No model is taken away from a request that infers with it, by a release or
\* by the request of another client.
ModelInUseStays ==
    \A i \in Slots : At(i, "inferring") => ModelFor(slot[i].op) \in loaded

\* Vectors and detections are those of the bytes whose digest the client
\* named, although the file may be replaced before, during and after.
EvidenceIsExact ==
    \A i \in Slots :
        At(i, "answered") /\ slot[i].answer = "ok" /\ slot[i].op \in HasSource
            => slot[i].copy = slot[i].want

\* Every permit is free or held by one request under way: no path out of a
\* handler, abandoned or failed, loses one or gives it back twice.
PermitsConserved ==
    permits + Cardinality({i \in Slots : slot[i].at \in Admitted}) = MaxConcurrency

\* With the one permit the worker is deployed with, a release on a device that
\* works is confirmed: no other request, an abandoned one included, brings the
\* detector back before the handler looks.
ReleaseIsConfirmed ==
    MaxConcurrency = 1 => \A i \in Slots :
        At(i, "answered") /\ slot[i].op = "release_detector" /\ slot[i].answer = "failed"
            => unhealthy

\* No request infers on a device that could not be cleaned, whichever request
\* found that out.
UnhealthyNeverInfers == unhealthy => \A i \in Slots : ~At(i, "inferring")

\* Every request the worker received is answered, also when its client is
\* gone, so an abandoned call does not block the next one for ever.
RequestsEnd == \A i \in Slots : At(i, "sent") ~> At(i, "free")
=============================================================================
