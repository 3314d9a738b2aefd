------------------------------ MODULE PaddleOcr ------------------------------
(***************************************************************************)
(* The OCR reader of the backend (providers/paddle_ocr.py) and the child   *)
(* process it talks to over two pipes (scripts/paddle-ocr-worker.py).      *)
(* Indexing threads share one reader: a stage reads its frames one by one, *)
(* each read under the reader's lock, and retires the child at its end.    *)
(* A read ends by a deadline when the child says nothing; whatever goes    *)
(* wrong costs the child its life, and a child that cannot be ended stays  *)
(* the reader's until it is.  One error does neither: where the first wait *)
(* fails in the system itself, the child is forgotten while it runs.       *)
(*                                                                         *)
(* On disk: the private bundle of a child (script, lock file, manifest and *)
(* the directory of frames), the private frames in it, and the child's     *)
(* private copy of the models.  A frame is known by its reader thread,     *)
(* which has one at a time.  Not modelled: shapes and limits of messages   *)
(* and images, the texts that are read, the reader without a child.        *)
(***************************************************************************)
EXTENDS Naturals

CONSTANTS
    Stages,       \* threads that index a video, one OCR stage each
    Children,     \* bound: processes, each started at most once
    MaxReads,     \* bound: frames of a stage
    MaxChanges    \* bound: times the reviewed files change or are put back

None == "none"
OcrAssumption ==
    /\ {MaxReads, MaxChanges} \subseteq Nat
    /\ None \notin Stages \cup Children

Calling == {"load", "contract", "spawn", "hello", "frame", "send", "answer",
            "unlink", "discard", "fail"}
Living  == {"starting", "ready", "asked", "working"}  \* and somebody's

VARIABLES
    stage,     \* stage[s]: [at, left, proc, then, ok]; then: where discarding leads
    lock,      \* the thread that holds _worker_lock, or None
    tracked,   \* _worker_process
    pending,   \* _worker_retirement_pending
    bundle,    \* the child _worker_bundle_directory was made for, or None
    child,     \* child[p]: [at, in, out, open]; in: whose frame, out: the message;
               \* at: what it does, or lost: it runs and nobody remembers it
    bundles,   \* children whose private bundle is on disk
    frames,    \* private frames on disk: [of, to, due]; due: still the reader's to remove
    models,    \* children whose copy of the models is on disk
    current,   \* the reviewed files are what they were
    changes
vars == <<stage, lock, tracked, pending, bundle, child, bundles, frames, models,
          current, changes>>
Reader == <<tracked, pending, bundle>>
Disk   == <<bundles, frames, models>>
Files  == <<current, changes>>

Init ==
    /\ stage = [s \in Stages |-> [at |-> "stage", left |-> MaxReads, proc |-> None,
                                  then |-> None, ok |-> FALSE]]
    /\ lock = None /\ tracked = None /\ pending = FALSE /\ bundle = None
    /\ child = [p \in Children |-> [at |-> "new", in |-> None, out |-> None, open |-> TRUE]]
    /\ bundles = {} /\ frames = {} /\ models = {}
    /\ current = TRUE /\ changes = 0

Alive(p) == child[p].at \in Living
Goto(s, point) == stage' = [stage EXCEPT ![s].at = point]
Discarding(s, p, then) == [stage[s] EXCEPT !.at = "discard", !.proc = p, !.then = then]

(***************************************************************************)
(* A stage of the indexer.                                                 *)
(***************************************************************************)

MutRead(s, valid) ==
    /\ stage[s].at = "stage"
    /\ stage' = [stage EXCEPT ![s] = [@ EXCEPT !.left = stage[s].left - 1, !.ok = FALSE,
                    !.at = IF valid THEN "wants" ELSE "release"]]
    /\ UNCHANGED <<lock, Reader, child, Disk, Files>>
\* The next frame; it may be refused before the lock is asked for.
Read(s, valid) ==
    /\ stage[s].at = "stage" /\ stage[s].left > 0
    /\ stage' = [stage EXCEPT ![s] = [@ EXCEPT !.left = stage[s].left - 1, !.ok = FALSE,
                    !.at = IF valid THEN "wants" ELSE "release"]]
    /\ UNCHANGED <<lock, Reader, child, Disk, Files>>

MutLeave(s) ==
    /\ stage[s].at = "stage"
    /\ Goto(s, IF stage[s].left = 0 THEN "release" ELSE "over")
    /\ UNCHANGED <<lock, Reader, child, Disk, Files>>
\* The last frame is read, or the job is cancelled between two frames: the
\* resources of the stage are released in either case, as after a failed read.
Leave(s) ==
    /\ stage[s].at = "stage"
    /\ Goto(s, "release")
    /\ UNCHANGED <<lock, Reader, child, Disk, Files>>

Acquire(s) ==
    /\ lock = None /\ stage[s].at \in {"wants", "release"}
    /\ lock' = s
    /\ stage' = [stage EXCEPT ![s] = IF @.at = "wants" THEN [@ EXCEPT !.at = "load"]
                                     ELSE Discarding(s, None, "over")]
    /\ UNCHANGED <<Reader, child, Disk, Files>>

(***************************************************************************)
(* Ending a child (_discard_worker).                                       *)
(***************************************************************************)

Active(s) == IF stage[s].proc # None THEN stage[s].proc ELSE tracked

\* The bundle goes, unless a frame is left in it.
Emptied(b) == IF b = None \/ \E f \in frames : f.to = b THEN {} ELSE {b}

After(s, done) ==
    /\ stage' = [stage EXCEPT ![s] = [@ EXCEPT !.then = None,
          !.proc = IF stage[s].then = "unlink" THEN stage[s].proc ELSE None,
          !.at = IF done \/ stage[s].then \in {"unlink", "over"} THEN stage[s].then
                 ELSE "fail"]]
    /\ lock' = IF stage[s].then = "over" THEN None ELSE lock

\* The child is gone already, or ends: on its own at the end of its input, having
\* removed its copy of the models, or by a signal, which removes nothing.
Discard(s, bySignal) ==
    /\ stage[s].at = "discard"
    /\ LET p == Active(s)
           live == p # None /\ Alive(p)
       IN  /\ live /\ ~bySignal => child[p].at = "ready"
           /\ ~live => bySignal
           /\ child' = IF live THEN [child EXCEPT ![p].open = FALSE,
                               ![p].at = IF bySignal THEN "killed" ELSE "exited"]
                       ELSE child
           /\ models' = IF live /\ ~bySignal THEN models \ {p} ELSE models
    /\ tracked' = None /\ pending' = FALSE /\ bundle' = None
    /\ bundles' = bundles \ Emptied(bundle)
    /\ After(s, TRUE)
    /\ UNCHANGED <<frames, Files>>

\* No signal ends the child in time: its pipes are closed and it stays the reader's.
MutKeep(s) ==
    /\ stage[s].at = "discard"
    /\ LET p == Active(s)
       IN  /\ p # None /\ Alive(p)
           /\ child' = [child EXCEPT ![p].open = FALSE]
    /\ tracked' = None /\ pending' = FALSE /\ bundle' = None
    /\ bundles' = bundles \ Emptied(bundle)
    /\ After(s, FALSE)
    /\ UNCHANGED <<frames, models, Files>>
Keep(s) ==
    /\ stage[s].at = "discard"
    /\ LET p == Active(s)
       IN  /\ p # None /\ Alive(p)
           /\ child' = [child EXCEPT ![p].open = FALSE]
           /\ tracked' = p /\ pending' = TRUE
    /\ After(s, FALSE)
    /\ UNCHANGED <<bundle, Disk, Files>>

(***************************************************************************)
(* Loading a child (_load_worker).                                         *)
(***************************************************************************)

Load(s) ==
    /\ stage[s].at = "load"
    /\ stage' = [stage EXCEPT ![s] = IF pending THEN Discarding(s, None, "contract")
                                     ELSE [@ EXCEPT !.at = "contract"]]
    /\ UNCHANGED <<lock, Reader, child, Disk, Files>>

Contract(s) ==
    /\ stage[s].at = "contract"
    /\ stage' = [stage EXCEPT ![s] =
          IF ~current THEN Discarding(s, None, "fail")
          ELSE IF tracked # None /\ Alive(tracked)
               THEN [@ EXCEPT !.at = "frame", !.proc = tracked]
          ELSE Discarding(s, None, "spawn")]
    /\ UNCHANGED <<lock, Reader, child, Disk, Files>>

\* The private bundle is written and the child started from it; a bundle without a
\* child is taken back.
Spawn(s, p) ==
    /\ stage[s].at = "spawn" /\ child[p].at = "new"
    /\ child' = [child EXCEPT ![p].at = "starting"]
    /\ bundles' = bundles \cup {p} /\ bundle' = p
    /\ stage' = [stage EXCEPT ![s] = [@ EXCEPT !.at = "hello", !.proc = p]]
    /\ UNCHANGED <<lock, tracked, pending, frames, models, Files>>
NoSpawn(s) ==
    /\ stage[s].at = "spawn"
    /\ Goto(s, "fail")
    /\ UNCHANGED <<lock, Reader, child, Disk, Files>>

Hello(s) ==
    LET p == stage[s].proc IN
    /\ stage[s].at = "hello" /\ child[p].out # None
    /\ child' = [child EXCEPT ![p].out = None]
    /\ IF child[p].out = "hello"
       THEN tracked' = p /\ Goto(s, "frame")
       ELSE /\ stage' = [stage EXCEPT ![s] = Discarding(s, p, "fail")]
            /\ UNCHANGED tracked
    /\ UNCHANGED <<lock, pending, bundle, Disk, Files>>

(***************************************************************************)
(* Reading a frame (_read_worker).                                         *)
(***************************************************************************)

\* The private frame; one that could not be written whole is nobody's to remove.
WriteFrame(s, whole) ==
    LET p == stage[s].proc IN
    /\ stage[s].at = "frame"
    /\ frames' = frames \cup {[of |-> s, to |-> p, due |-> whole]}
    /\ stage' = [stage EXCEPT ![s] = IF whole THEN [@ EXCEPT !.at = "send"]
                                     ELSE Discarding(s, p, "fail")]
    /\ UNCHANGED <<lock, Reader, child, bundles, models, Files>>

Send(s) ==
    LET p == stage[s].proc IN
    /\ stage[s].at = "send"
    /\ IF current /\ Alive(p)
       THEN child' = [child EXCEPT ![p].in = s] /\ Goto(s, "answer")
       ELSE /\ stage' = [stage EXCEPT ![s] = Discarding(s, p, "unlink")]
            /\ UNCHANGED child
    /\ UNCHANGED <<lock, Reader, Disk, Files>>

\* The answer counts when it is the answer to this request and the reviewed files
\* are still what they were.
Receive(s) ==
    LET p == stage[s].proc IN
    /\ stage[s].at = "answer" /\ child[p].out # None
    /\ child' = [child EXCEPT ![p].out = None]
    /\ stage' = [stage EXCEPT ![s] =
          IF child[p].out = s /\ current THEN [@ EXCEPT !.at = "unlink", !.ok = TRUE]
          ELSE Discarding(s, p, "unlink")]
    /\ UNCHANGED <<lock, Reader, Disk, Files>>

\* The deadline, or the end of the child's output.
MutTimeout(s) ==
    /\ stage[s].at \in {"hello", "answer"}
    /\ stage' = [stage EXCEPT ![s] =
          IF @.at = "hello" THEN Discarding(s, stage[s].proc, "fail")
          ELSE [@ EXCEPT !.at = "unlink"]]
    /\ UNCHANGED <<lock, Reader, child, Disk, Files>>
MutDeadline(s) ==
    /\ stage[s].at \in {"hello", "answer"}
    /\ stage[s].proc # None /\ ~Alive(stage[s].proc)
    /\ stage' = [stage EXCEPT ![s] =
          Discarding(s, stage[s].proc, IF @.at = "hello" THEN "fail" ELSE "unlink")]
    /\ UNCHANGED <<lock, Reader, child, Disk, Files>>
Timeout(s) ==
    /\ stage[s].at \in {"hello", "answer"}
    /\ stage' = [stage EXCEPT ![s] =
          Discarding(s, stage[s].proc, IF @.at = "hello" THEN "fail" ELSE "unlink")]
    /\ UNCHANGED <<lock, Reader, child, Disk, Files>>

\* Waiting for the hello fails in the system itself (no descriptor to wait with): this
\* error nobody catches.  The child runs on, and its pipes close with the object that
\* held them.
Forget(s) ==
    LET p == stage[s].proc IN
    /\ stage[s].at = "hello"
    /\ child' = IF Alive(p) THEN [child EXCEPT ![p].open = FALSE, ![p].at = "lost"] ELSE child
    /\ stage' = [stage EXCEPT ![s] = [@ EXCEPT !.proc = None, !.at = "fail"]]
    /\ UNCHANGED <<lock, Reader, Disk, Files>>

\* Whatever happened, the frame is removed, unless the child did so already; a frame
\* that cannot be removed is as bad as a wrong answer.
MutUnlink(s, removed) ==
    /\ stage[s].at = "unlink"
    /\ frames' = IF stage[s].ok THEN {f \in frames : ~(f.of = s /\ f.due)} ELSE frames
    /\ stage' = [stage EXCEPT ![s] = [@ EXCEPT !.proc = None,
                        !.at = IF stage[s].ok THEN "stage" ELSE "release"]]
    /\ lock' = None
    /\ UNCHANGED <<Reader, child, bundles, models, Files>>
Unlink(s, removed) ==
    LET mine == {f \in frames : f.of = s /\ f.due} IN
    /\ stage[s].at = "unlink"
    /\ ~removed => mine # {}
    /\ IF removed
       THEN /\ frames' = frames \ mine
            /\ stage' = [stage EXCEPT ![s] = [@ EXCEPT !.proc = None,
                                !.at = IF stage[s].ok THEN "stage" ELSE "release"]]
            /\ lock' = None
       ELSE /\ stage' = [stage EXCEPT ![s] = Discarding(s, stage[s].proc, "fail")]
            /\ frames' = (frames \ mine) \cup {[f EXCEPT !.due = FALSE] : f \in mine}
            /\ UNCHANGED lock
    /\ UNCHANGED <<Reader, child, bundles, models, Files>>

Fail(s) ==
    /\ stage[s].at = "fail"
    /\ lock' = None
    /\ stage' = [stage EXCEPT ![s] = [@ EXCEPT !.proc = None, !.at = "release"]]
    /\ UNCHANGED <<Reader, child, Disk, Files>>

(***************************************************************************)
(* The child.                                                              *)
(***************************************************************************)

Exit(p, message) ==
    /\ child' = [child EXCEPT ![p].at = "exited", ![p].out = message]
    /\ models' = models \ {p}

\* The files are attested and the models copied, then the child says hello, one the
\* reader may not accept; or it fails and removes the copy.
Copy(p) ==
    /\ child[p].at = "starting" /\ p \notin models /\ child[p].out = None
    /\ models' = models \cup {p}
    /\ UNCHANGED <<stage, lock, Reader, child, bundles, frames, Files>>
Greet(p, message) ==
    /\ child[p].at = "starting" /\ p \in models
    /\ child' = [child EXCEPT ![p].at = "ready", ![p].out = message]
    /\ UNCHANGED <<stage, lock, Reader, Disk, Files>>
MutNoStart(p) ==
    /\ child[p].at = "starting"
    /\ child' = [child EXCEPT ![p].at = "exited", ![p].out = "error"]
    /\ UNCHANGED <<stage, lock, Reader, bundles, frames, models, Files>>
NoStart(p) ==
    /\ child[p].at = "starting"
    /\ Exit(p, "error")
    /\ UNCHANGED <<stage, lock, Reader, bundles, frames, Files>>

\* The child takes the frame of the request off the disk before it works on it.
TakeFrame(p) ==
    LET mine == {f \in frames : f.of = child[p].in /\ f.to = p} IN
    /\ child[p].at = "ready" /\ child[p].in # None
    /\ IF mine # {}
       THEN /\ frames' = frames \ mine
            /\ child' = [child EXCEPT ![p].at = "working"]
            /\ UNCHANGED models
       ELSE Exit(p, "error") /\ UNCHANGED frames
    /\ UNCHANGED <<stage, lock, Reader, bundles, Files>>

\* The answer; any failure ends the child, and so does a pipe nobody reads.
Answer(p, good) ==
    /\ child[p].at = "working"
    /\ good => child[p].open
    /\ IF good
       THEN /\ child' = [child EXCEPT ![p].at = "ready", ![p].out = child[p].in, ![p].in = None]
            /\ UNCHANGED models
       ELSE Exit(p, "error")
    /\ UNCHANGED <<stage, lock, Reader, bundles, frames, Files>>

\* The end of the input.
Eof(p) ==
    /\ child[p].at = "ready" /\ child[p].in = None /\ ~child[p].open
    /\ Exit(p, None)
    /\ UNCHANGED <<stage, lock, Reader, bundles, frames, Files>>

\* A child nobody remembers comes to the end of its input, or to a pipe nobody reads.
LostEnds(p) ==
    /\ child[p].at = "lost"
    /\ Exit(p, None)
    /\ UNCHANGED <<stage, lock, Reader, bundles, frames, Files>>

\* Another program ends the child.
Killed(p) ==
    /\ Alive(p) \/ child[p].at = "lost"
    /\ child' = [child EXCEPT ![p].at = "killed"]
    /\ UNCHANGED <<stage, lock, Reader, Disk, Files>>

\* The script, the lock file, the manifest or a model changes, or is put back.
Change ==
    /\ changes < MaxChanges
    /\ changes' = changes + 1 /\ current' = ~current
    /\ UNCHANGED <<stage, lock, Reader, child, Disk>>

Call(s) ==
    \/ Acquire(s) \/ Load(s) \/ Contract(s) \/ Hello(s) \/ Send(s) \/ Receive(s)
    \/ Timeout(s) \/ Forget(s) \/ Fail(s) \/ NoSpawn(s) \/ Keep(s)
    \/ \E p \in Children : Spawn(s, p)
    \/ \E b \in BOOLEAN : Discard(s, b) \/ WriteFrame(s, b) \/ Unlink(s, b)
Work(p) ==
    \/ Copy(p) \/ NoStart(p) \/ TakeFrame(p) \/ Eof(p) \/ LostEnds(p)
    \/ \E hello \in {"hello", "wrong"} : Greet(p, hello)
    \/ \E b \in BOOLEAN : Answer(p, b)

Next ==
    \/ \E s \in Stages : Call(s) \/ Leave(s) \/ \E b \in BOOLEAN : Read(s, b)
    \/ \E p \in Children : Work(p) \/ Killed(p)
    \/ Change
    \/ /\ \A s \in Stages : stage[s].at = "over"
       /\ UNCHANGED vars

\* The threads of the backend run, and deadlines strike; the child owes nothing.
Fairness == \A s \in Stages : WF_vars(Call(s)) /\ WF_vars(Leave(s))
Spec == Init /\ [][Next]_vars /\ Fairness

(***************************************************************************)
(* Properties.                                                             *)
(***************************************************************************)

TypeOK ==
    /\ stage \in [Stages ->
          [at : Calling \cup {"stage", "wants", "release", "over"}, left : 0..MaxReads,
           proc : Children \cup {None}, then : {None, "contract", "fail", "spawn", "unlink", "over"},
           ok : BOOLEAN]]
    /\ lock \in Stages \cup {None}
    /\ {tracked, bundle} \subseteq Children \cup {None} /\ pending \in BOOLEAN
    /\ child \in [Children ->
          [at : Living \cup {"new", "exited", "killed", "lost"}, in : Stages \cup {None},
           out : Stages \cup {None, "hello", "wrong", "error"}, open : BOOLEAN]]
    /\ bundles \subseteq Children /\ models \subseteq Children
    /\ frames \subseteq [of : Stages, to : Children, due : BOOLEAN]
    /\ current \in BOOLEAN /\ changes \in 0..MaxChanges

\* A process that lives is the reader's or the one its lock holder is about to
\* accept or to end, and the bundle it may still read is on disk: a failed kill
\* leaves no untracked child.  Only a child whose hello could not be waited for is
\* nobody's.
LiveChildrenAreOwned ==
    \A p \in Children : Alive(p) =>
        /\ p \in bundles
        /\ tracked = p \/ \E s \in Stages : lock = s /\ stage[s].proc = p

\* Between two reads the child the reader will use again has open pipes, no request
\* in one and no late answer in the other.
IdleChildOwesNothing ==
    lock = None /\ tracked # None /\ ~pending =>
        /\ child[tracked].open
        /\ Alive(tracked) => child[tracked].in = None /\ child[tracked].out = None

\* When every stage is over no child runs, but for one that was lost, and one that could
\* not be ended and is still the reader's to end.
StagesRetireTheirChild ==
    (\A s \in Stages : stage[s].at = "over") =>
        \A p \in Children : Alive(p) => pending /\ tracked = p /\ ~child[p].open

\* A frame that was written whole, and did not resist its removal, is off the disk
\* when its read is over, also when the child timed out, died or could not be ended.
FramesAreGone ==
    \A f \in frames : f.due => lock = f.of /\ stage[f.of].at \in {"send", "answer", "unlink", "discard"}

\* A child that ends on its own has removed its copy of the models, however far its
\* start had come.
OrderlyChildrenCleanUp == \A p \in Children : child[p].at = "exited" => p \notin models

\* Every stage gets to its end, whatever its child does or does not do.
StagesEnd == \A s \in Stages : stage[s].at = "wants" ~> stage[s].at = "over"

\* A reader that is closed, with no child left, has no private bundle on disk
\* (tests/test_paddle_ocr_attestation.py:1610).
ClosedReaderLeavesNoBundle ==
    (\A s \in Stages : stage[s].at = "over") /\ tracked = None => bundles = {}
=============================================================================
