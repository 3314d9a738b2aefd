--------------------------- MODULE WhisperWorker ---------------------------
(***************************************************************************)
(* The Whisper worker (providers/whisper_worker.py): the private           *)
(* directories of its work root, which outlive a killed worker and hold    *)
(* copies of users' media, and the one request at a time it serves.        *)
(*                                                                         *)
(* A worker owns the work root by a lock on a file in it, removes what     *)
(* earlier workers left, and makes a directory of its own: an owner        *)
(* record, then a lease file that it locks.  Locks go with the process;    *)
(* files do not.  Only the copies of a request are put there.              *)
(*                                                                         *)
(* Left out: authentication, limits, model and dependency identity, which  *)
(* reject requests before anything changes; symbolic links and foreign     *)
(* files in the work root, which the code refuses to touch.                *)
(***************************************************************************)
EXTENDS Naturals, FiniteSets

CONSTANTS
    Workers,      \* worker processes started on one work root
    Dirs,         \* bound: names of private directories
    Copies,       \* bound: names of copies in a directory
    Contents,     \* what the media file may contain
    MaxRewrites,  \* bound: times the media file is replaced
    MaxCrashes,   \* bound: kills
    MaxFailures   \* bound: file operations that fail

None  == "none"
Mixed == "mixed"   \* bytes of more than one version of a file

WhisperAssumption ==
    /\ MaxRewrites \in Nat /\ MaxCrashes \in Nat /\ MaxFailures \in Nat
    /\ None \notin Workers \cup Dirs \cup Copies \cup Contents /\ Mixed \notin Contents

VARIABLES
    rootLock,  \* the worker that holds the lock of the work root, or None
    dir,       \* dir[d]: [there, owner, lease, locker, copies]
    worker,    \* worker[w]: [at, todo, cur, home]
    request,   \* request[w]: [at, want, mark, copy, bytes, answer]
    model,     \* model[w]: [resident, healthy]
    media,     \* the media file: [content, mark]
    crashes, failures
vars == <<rootLock, dir, worker, request, model, media, crashes, failures>>

NoDir     == [there |-> FALSE, owner |-> FALSE, lease |-> FALSE, locker |-> None, copies |-> {}]
Down      == [at |-> "down", todo |-> {}, cur |-> None, home |-> None]
NoRequest == [at |-> "idle", want |-> None, mark |-> 0, copy |-> None,
              bytes |-> None, answer |-> None]
Fresh     == [resident |-> FALSE, healthy |-> TRUE]

TypeOK ==
    /\ rootLock \in Workers \cup {None}
    /\ dir \in [Dirs -> [there : BOOLEAN, owner : BOOLEAN, lease : BOOLEAN,
                         locker : Workers \cup {None}, copies : SUBSET Copies]]
    /\ \A d \in Dirs : ~dir[d].there => dir[d] = NoDir
    /\ \A w \in Workers : request[w].at # "idle" => worker[w].at = "serving"
    /\ worker \in [Workers -> [at : {"down", "cleaning", "making", "serving", "ending"},
                               todo : SUBSET Dirs, cur : Dirs \cup {None},
                               home : Dirs \cup {None}]]
    /\ request \in [Workers -> [at : {"idle", "accepted", "copying", "inferring",
                                      "clearing", "checking", "leaving"},
                                want : Contents \cup {None}, mark : 0..MaxRewrites,
                                copy : Copies \cup {None}, bytes : Contents \cup {Mixed, None},
                                answer : {None, "ok", "refused"}]]
    /\ model \in [Workers -> [resident : BOOLEAN, healthy : BOOLEAN]]
    /\ media \in [content : Contents, mark : 0..MaxRewrites]
    /\ crashes \in 0..MaxCrashes /\ failures \in 0..MaxFailures

Init ==
    /\ rootLock = None
    /\ dir = [d \in Dirs |-> NoDir]
    /\ worker = [w \in Workers |-> Down]
    /\ request = [w \in Workers |-> NoRequest]
    /\ model = [w \in Workers |-> Fresh]
    /\ media \in [content : Contents, mark : {0}]
    /\ crashes = 0 /\ failures = 0

Is(w, at) == worker[w].at = at
Fail == failures < MaxFailures /\ failures' = failures + 1
-----------------------------------------------------------------------------
(* Start: own the root, remove what earlier workers left, make a directory *)

\* A second worker finds the root locked and ends; nothing changes.
Acquire(w) ==
    /\ Is(w, "down") /\ rootLock = None
    /\ rootLock' = w
    /\ worker' = [worker EXCEPT ![w] =
                    [Down EXCEPT !.at = "cleaning", !.todo = {d \in Dirs : dir[d].there}]]
    /\ UNCHANGED <<dir, request, model, media, crashes, failures>>

MutOurs(d) ==                    \* only an empty directory is removed
    dir[d].owner /\ dir[d].lease /\ dir[d].locker = None /\ dir[d].copies = {}

\* _cleanup_owned_worker_directory: only a directory with its owner record and
\* a lease that nobody holds is opened; the lease is locked meanwhile.
Ours(d) == dir[d].owner /\ dir[d].lease /\ dir[d].locker = None

Open(w, d) ==
    /\ worker[w].at \in {"cleaning", "ending"} /\ worker[w].cur = None /\ d \in worker[w].todo
    /\ IF Ours(d)
          THEN /\ worker' = [worker EXCEPT ![w].cur = d]
               /\ dir' = [dir EXCEPT ![d].locker = w]
          ELSE /\ worker' = [worker EXCEPT ![w].todo = @ \ {d}]
               /\ UNCHANGED dir
    /\ UNCHANGED <<rootLock, request, model, media, crashes, failures>>

MutUnlinked(x) ==                \* the owner record goes first
    CASE x.owner -> {[x EXCEPT !.owner = FALSE]}
      [] ~x.owner /\ x.copies # {} -> {[x EXCEPT !.copies = @ \ {c}] : c \in x.copies}
      [] x.copies = {} /\ ~x.owner /\ x.lease -> {[x EXCEPT !.lease = FALSE, !.locker = None]}
      [] OTHER -> {NoDir}

\* The next file to go: the copies, the owner record, the lease, the directory.
Unlinked(x) ==
    CASE x.copies # {} -> {[x EXCEPT !.copies = @ \ {c}] : c \in x.copies}
      [] x.copies = {} /\ x.owner -> {[x EXCEPT !.owner = FALSE]}
      [] x.copies = {} /\ ~x.owner /\ x.lease -> {[x EXCEPT !.lease = FALSE, !.locker = None]}
      [] OTHER -> {NoDir}

Unlink(w) ==
    LET d == worker[w].cur IN
    /\ d # None
    /\ \E x \in Unlinked(dir[d]) :
          /\ dir' = [dir EXCEPT ![d] = x]
          /\ worker' = IF x.there THEN worker
                       ELSE [worker EXCEPT ![w].cur = None, ![w].todo = @ \ {d}]
    /\ UNCHANGED <<rootLock, request, model, media, crashes, failures>>

\* An error ends the removal of one directory, wherever it has got to.
UnlinkFails(w) ==
    LET d == worker[w].cur IN
    /\ d # None /\ Fail
    /\ dir' = [dir EXCEPT ![d].locker = None]
    /\ worker' = [worker EXCEPT ![w].cur = None, ![w].todo = @ \ {d}]
    /\ UNCHANGED <<rootLock, request, model, media, crashes>>

Mkdir(w, d) ==
    /\ Is(w, "cleaning") /\ worker[w].todo = {} /\ ~dir[d].there
    /\ dir' = [dir EXCEPT ![d] = [NoDir EXCEPT !.there = TRUE]]
    /\ worker' = [worker EXCEPT ![w].at = "making", ![w].home = d]
    /\ UNCHANGED <<rootLock, request, model, media, crashes, failures>>

\* The owner record is on disk before the lease exists, and the lease is
\* locked before the worker serves.
Furnish(w) ==
    LET d == worker[w].home IN
    /\ Is(w, "making")
    /\ \/ ~dir[d].owner /\ dir' = [dir EXCEPT ![d].owner = TRUE] /\ UNCHANGED worker
       \/ /\ dir[d].owner /\ ~dir[d].lease
          /\ dir' = [dir EXCEPT ![d].lease = TRUE] /\ UNCHANGED worker
       \/ /\ dir[d].lease /\ dir[d].locker = None
          /\ dir' = [dir EXCEPT ![d].locker = w]
          /\ worker' = [worker EXCEPT ![w].at = "serving"]
    /\ UNCHANGED <<rootLock, request, model, media, crashes, failures>>

\* An error removes what was made and gives the root back.
MakeFails(w) ==
    /\ Is(w, "making") /\ Fail
    /\ dir' = [dir EXCEPT ![worker[w].home] = NoDir]
    /\ rootLock' = None
    /\ worker' = [worker EXCEPT ![w] = Down]
    /\ UNCHANGED <<request, model, media, crashes>>
-----------------------------------------------------------------------------
(* A request *)

\* The digest the client took of the media before it sent the request.
Named == media.content

\* Only one request is admitted, and none after a failed cleanup of the device.
Accept(w) ==
    /\ Is(w, "serving") /\ request[w].at = "idle" /\ model[w].healthy
    /\ request' = [request EXCEPT ![w] =
                     [NoRequest EXCEPT !.at = "accepted", !.want = Named]]
    /\ UNCHANGED <<rootLock, dir, worker, model, media, crashes, failures>>

\* The media is rejected, or there is no room for a copy of it.
Refuse(w) ==
    /\ request[w].at = "accepted"
    /\ request' = [request EXCEPT ![w].at = "leaving", ![w].answer = "refused"]
    /\ UNCHANGED <<rootLock, dir, worker, model, media, crashes, failures>>

CopyBegin(w, c) ==
    LET d == worker[w].home IN
    /\ request[w].at = "accepted" /\ c \notin dir[d].copies
    /\ dir' = [dir EXCEPT ![d].copies = @ \cup {c}]
    /\ request' = [request EXCEPT ![w].at = "copying", ![w].copy = c, ![w].mark = media.mark]
    /\ UNCHANGED <<rootLock, worker, model, media, crashes, failures>>

Copied(w) == IF media.mark = request[w].mark THEN media.content ELSE Mixed

MutCopyEnd(w) ==                 \* does not compare with the digest of the client
    /\ request[w].at = "copying"
    /\ request' = [request EXCEPT ![w].at = "inferring", ![w].bytes = Copied(w)]
    /\ UNCHANGED <<rootLock, dir, worker, model, media, crashes, failures>>

\* The copy counts when the media was the same file from the first byte to the
\* last and has the digest the client named; writing it may fail as well.
CopyEnd(w) ==
    /\ request[w].at = "copying"
    /\ \/ /\ Copied(w) = request[w].want
          /\ request' = [request EXCEPT ![w].at = "inferring", ![w].bytes = Copied(w)]
       \/ request' = [request EXCEPT ![w].at = "leaving", ![w].answer = "refused"]
    /\ UNCHANGED <<rootLock, dir, worker, model, media, crashes, failures>>

\* Also a transcription that raises leaves the model in memory.
Infer(w) ==
    /\ request[w].at = "inferring"
    /\ \E answer \in {"ok", "refused"} :
          request' = [request EXCEPT ![w].at = "clearing", ![w].answer = answer]
    /\ model' = [model EXCEPT ![w].resident = TRUE]
    /\ UNCHANGED <<rootLock, dir, worker, media, crashes, failures>>

MutClear(w) ==                   \* only after a transcription that succeeded
    /\ request[w].at = "clearing"
    /\ request' = [request EXCEPT ![w].at = IF request[w].answer = "ok" THEN "checking" ELSE "leaving"]
    /\ model' = [model EXCEPT ![w].resident = request[w].answer # "ok"]
    /\ UNCHANGED <<rootLock, dir, worker, media, crashes, failures>>

\* _release_mlx_after_request: both after success and after an error.
Clear(w) ==
    /\ request[w].at = "clearing"
    /\ request' = [request EXCEPT ![w].at = IF request[w].answer = "ok" THEN "checking" ELSE "leaving"]
    /\ model' = [model EXCEPT ![w].resident = FALSE]
    /\ UNCHANGED <<rootLock, dir, worker, media, crashes, failures>>

MutClearFails(w) ==              \* logged, and the transcript is kept
    /\ request[w].at = "clearing" /\ Fail
    /\ request' = [request EXCEPT ![w].at = "checking"]
    /\ \E resident \in BOOLEAN :
          model' = [model EXCEPT ![w] = [resident |-> resident, healthy |-> FALSE]]
    /\ UNCHANGED <<rootLock, dir, worker, media, crashes>>

\* A cleanup that fails ends the request with an error, a transcript or not.
ClearFails(w) ==
    /\ request[w].at = "clearing" /\ Fail
    /\ request' = [request EXCEPT ![w].at = "leaving", ![w].answer = "refused"]
    /\ \E resident \in BOOLEAN :
          model' = [model EXCEPT ![w] = [resident |-> resident, healthy |-> FALSE]]
    /\ UNCHANGED <<rootLock, dir, worker, media, crashes>>

\* The media is hashed and compared again before the transcript is answered.
Check(w) ==
    /\ request[w].at = "checking"
    /\ request' = [request EXCEPT ![w].at = "leaving",
                     ![w].answer = IF media.mark = request[w].mark THEN "ok" ELSE "refused"]
    /\ UNCHANGED <<rootLock, dir, worker, model, media, crashes, failures>>

MutLeave(w) ==                   \* only the path of success discards the copy
    /\ request[w].at = "leaving"
    /\ IF request[w].answer = "ok"
          THEN dir' = [dir EXCEPT ![worker[w].home].copies = @ \ {request[w].copy}]
          ELSE UNCHANGED dir
    /\ request' = [request EXCEPT ![w] = NoRequest]
    /\ UNCHANGED <<rootLock, worker, model, media, crashes, failures>>

\* The finally clause discards the copy; an error there is only logged.
Leave(w) ==
    /\ request[w].at = "leaving"
    /\ dir' = [dir EXCEPT ![worker[w].home].copies = @ \ {request[w].copy}]
    /\ request' = [request EXCEPT ![w] = NoRequest]
    /\ UNCHANGED <<rootLock, worker, model, media, crashes, failures>>

LeaveFails(w) ==
    /\ request[w].at = "leaving" /\ request[w].copy # None /\ Fail
    /\ request' = [request EXCEPT ![w] = NoRequest]
    /\ UNCHANGED <<rootLock, dir, worker, model, media, crashes>>
-----------------------------------------------------------------------------
(* End *)

MutStop(w) ==                    \* does not wait for the request
    /\ Is(w, "serving")
    /\ dir' = [dir EXCEPT ![worker[w].home].locker = None]
    /\ worker' = [worker EXCEPT ![w].at = "ending", ![w].todo = {worker[w].home}]
    /\ UNCHANGED <<rootLock, request, model, media, crashes, failures>>

\* The lifespan ends when the request has: the worker unlocks its directory
\* and removes it as it would another's, then gives the root back.
Stop(w) ==
    /\ Is(w, "serving") /\ request[w].at = "idle"
    /\ dir' = [dir EXCEPT ![worker[w].home].locker = None]
    /\ worker' = [worker EXCEPT ![w].at = "ending", ![w].todo = {worker[w].home}]
    /\ UNCHANGED <<rootLock, request, model, media, crashes, failures>>

Release(w) ==
    /\ Is(w, "ending") /\ worker[w].todo = {}
    /\ rootLock' = None
    /\ worker' = [worker EXCEPT ![w] = Down]
    /\ model' = [model EXCEPT ![w] = Fresh]
    /\ UNCHANGED <<dir, request, media, crashes, failures>>

\* A kill: the locks of the process are gone, its files stay as they are.
Crash(w) ==
    /\ ~Is(w, "down") /\ crashes < MaxCrashes
    /\ crashes' = crashes + 1
    /\ rootLock' = IF rootLock = w THEN None ELSE rootLock
    /\ dir' = [d \in Dirs |-> IF dir[d].locker = w THEN [dir[d] EXCEPT !.locker = None]
                              ELSE dir[d]]
    /\ worker' = [worker EXCEPT ![w] = Down]
    /\ request' = [request EXCEPT ![w] = NoRequest]
    /\ model' = [model EXCEPT ![w] = Fresh]
    /\ UNCHANGED <<media, failures>>

Rewrite ==
    /\ media.mark < MaxRewrites
    /\ \E content \in Contents : media' = [content |-> content, mark |-> media.mark + 1]
    /\ UNCHANGED <<rootLock, dir, worker, request, model, crashes, failures>>

Run(w) ==
    \/ Acquire(w) \/ Unlink(w) \/ Furnish(w) \/ Release(w)
    \/ \E d \in Dirs : Open(w, d) \/ Mkdir(w, d)

Serve(w) ==
    \/ Refuse(w) \/ CopyEnd(w) \/ Infer(w) \/ Clear(w) \/ Check(w) \/ Leave(w)
    \/ \E c \in Copies : CopyBegin(w, c)

Next ==
    \/ \E w \in Workers : \/ Run(w) \/ Serve(w) \/ Accept(w) \/ Stop(w) \/ Crash(w)
                          \/ UnlinkFails(w) \/ MakeFails(w) \/ ClearFails(w) \/ LeaveFails(w)
    \/ Rewrite

Spec == Init /\ [][Next]_vars

\* Workers are started again after they ended, a started one goes on, and a
\* request it admitted is finished.
Fairness == \A w \in Workers : WF_vars(Run(w)) /\ WF_vars(Serve(w))

FairSpec == Spec /\ Fairness
-----------------------------------------------------------------------------
(* Properties *)

\* A copy of a user's media lies only in a directory that a later start can
\* prove to be a worker's and will remove, whenever the worker is killed.
CopiesAreReclaimable ==
    \A d \in Dirs : dir[d].copies # {} => dir[d].there /\ dir[d].owner /\ dir[d].lease

\* docs/whisper-worker.md: the worker "removes the private copy on every exit
\* path".  As long as no file operation failed, a copy that is not stale
\* belongs to the request under way.
CopiesBelongToARequest ==
    \A w \in Workers : Is(w, "serving") /\ failures = 0
        => dir[worker[w].home].copies \subseteq {request[w].copy}

\* The copy stays while the model reads it: neither the worker's own end nor
\* the start of another takes it away.
CopyOutlivesInference ==
    \A w \in Workers : request[w].at \in {"copying", "inferring", "clearing"}
        => /\ request[w].copy \in dir[worker[w].home].copies
           /\ dir[worker[w].home].locker = w

\* A transcript is of the bytes whose digest the client named, although the
\* media may be replaced while it is hashed, copied and transcribed.
TranscriptIsExact ==
    \A w \in Workers : request[w].at = "leaving" /\ request[w].answer = "ok"
        => request[w].bytes = request[w].want

\* The model stays in memory for a request only, or the worker admits no more.
ModelLeavesWithRequest ==
    \A w \in Workers : model[w].resident => ~model[w].healthy \/ request[w].at = "clearing"

\* No transcript is accepted from a request whose cleanup failed, nor from one
\* after it.
UncleanWorkerIsSilent ==
    \A w \in Workers : ~model[w].healthy
        => request[w].at \in {"idle", "leaving"} /\ request[w].answer # "ok"

\* What a killed worker left of a user's media is removed by a later start.
StaleCopiesVanish ==
    \A d \in Dirs : (dir[d].copies # {} /\ dir[d].locker = None) ~> dir[d].copies = {}
=============================================================================
