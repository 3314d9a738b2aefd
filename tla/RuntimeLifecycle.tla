-------------------------- MODULE RuntimeLifecycle --------------------------
(***************************************************************************)
(* Who owns a data directory, from the acquisition of its lock file to the *)
(* end of the last thread that works on it: ExclusiveRuntimeLock           *)
(* (runtime_lifecycle.py), Runtime.start and Runtime.close with their      *)
(* reaper thread (runtime.py), the lifespan of the HTTP application        *)
(* (api.py) and the maintenance scripts that take the same lock            *)
(* (index-visual.py, index-lighthouse.py).                                 *)
(*                                                                         *)
(* A session is one lifespan of the application, or one run of a script.   *)
(* flock excludes two open file descriptions whether they belong to one    *)
(* process or to two, so sessions need not be told apart by process.  One  *)
(* action is one call that can fail, block or release something; what the  *)
(* calls do to the database is the subject of VideoIndexJobs and           *)
(* TextVectorGenerations.  A finished or killed session may run again.     *)
(***************************************************************************)
EXTENDS Naturals

CONSTANTS
    Servers,  \* sessions of the HTTP application
    Tools     \* sessions of the scripts

None     == "none"
Sessions == Servers \cup Tools

ASSUME SessionsAssumption ==
    /\ Servers \cap Tools = {}
    /\ None \notin Sessions

Workers   == {"queue", "gc"}                \* dispatcher and collector threads
Resources == {"ocr", "store", "embedding"}

\* What the main thread of a session is about to do.
StartPoints == {"build", "gcRecover", "adopt", "queueRecover", "gcStart", "queueStart"}
ClosePoints == {"closing", "stopQueue", "stopGc", "finalize", "spawn"}
ReapPoints  == {"reapQueue", "reapGc", "reapFinal"}
Points == {"down", "working", "serving", "ended"}
              \cup StartPoints \cup ClosePoints \cup ReapPoints

VARIABLES
    lock,     \* the session whose descriptor holds the flock
    fd,       \* fd[p]: ExclusiveRuntimeLock._file_descriptor is set
    pc,       \* pc[p]: where p's main thread is
    calls,    \* calls[p]: calls of Runtime.close its lifespan still makes
    thread,   \* thread[p][w]: absent, alive, exited
    stop,     \* stop[p][w]: the worker's stop event
    open,     \* open[p]: resources of p that have not been closed
    reaper,   \* reaper[p]: absent, or where the reaper thread is
    mutex,    \* mutex[p]: the thread inside Runtime._shutdown_lock
    complete  \* complete[p]: Runtime._shutdown_complete

vars == <<lock, fd, pc, calls, thread, stop, open, reaper, mutex, complete>>

TypeOK ==
    /\ lock \in Sessions \cup {None}
    /\ fd \in [Sessions -> BOOLEAN]
    /\ pc \in [Sessions -> Points]
    /\ calls \in [Sessions -> 0..2]
    /\ thread \in [Sessions -> [Workers -> {"absent", "alive", "exited"}]]
    /\ stop \in [Sessions -> [Workers -> BOOLEAN]]
    /\ open \in [Sessions -> SUBSET Resources]
    /\ reaper \in [Sessions -> ReapPoints \cup {"absent", "ended"}]
    /\ mutex \in [Sessions -> {None, "main", "reaper"}]
    /\ complete \in [Sessions -> BOOLEAN]

Init ==
    /\ lock = None
    /\ fd = [p \in Sessions |-> FALSE]
    /\ pc = [p \in Sessions |-> "down"]
    /\ calls = [p \in Sessions |-> 0]
    /\ thread = [p \in Sessions |-> [w \in Workers |-> "absent"]]
    /\ stop = [p \in Sessions |-> [w \in Workers |-> FALSE]]
    /\ open = [p \in Sessions |-> {}]
    /\ reaper = [p \in Sessions |-> "absent"]
    /\ mutex = [p \in Sessions |-> None]
    /\ complete = [p \in Sessions |-> FALSE]

Goto(p, point) == pc' = [pc EXCEPT ![p] = point]
Alive(p, w)    == thread[p][w] = "alive"
Busy(p)        == \E w \in Workers : Alive(p, w)

-----------------------------------------------------------------------------
(* ExclusiveRuntimeLock *)

MutAcquire(p) ==               \* a second descriptor is granted the lock
    /\ lock' = p
    /\ fd' = [fd EXCEPT ![p] = TRUE]

\* acquire: a non-blocking flock, refused while any descriptor holds it.
Acquire(p) ==
    /\ lock = None
    /\ lock' = p
    /\ fd' = [fd EXCEPT ![p] = TRUE]

\* close: the descriptor is forgotten first, and os.close, in the finally of
\* the unlock, drops the flock even when the unlock raises.
Release(p) ==
    /\ fd' = [fd EXCEPT ![p] = FALSE]
    /\ lock' = IF fd[p] THEN None ELSE lock

ReleaseAnyway(p) ==
    /\ fd' = [fd EXCEPT ![p] = FALSE]
    /\ lock' = IF lock = p THEN None ELSE lock
-----------------------------------------------------------------------------
(* Starting *)

OpenLifespan(p) ==
    /\ p \in Servers /\ pc[p] = "down"
    /\ Acquire(p)
    /\ Goto(p, "build")
    /\ UNCHANGED <<calls, thread, stop, open, reaper, mutex, complete>>

Build(p) ==
    /\ pc[p] = "build"
    /\ open' = [open EXCEPT ![p] = Resources]
    /\ Goto(p, "gcRecover")
    /\ UNCHANGED <<lock, fd, calls, thread, stop, reaper, mutex, complete>>

\* build_runtime closes the embedding runtime when the vector store cannot be
\* opened; what it opened before a later step fails is left open.
BuildFails(p) ==
    /\ pc[p] = "build"
    /\ \E left \in {{}, {"ocr"}, Resources} : open' = [open EXCEPT ![p] = left]
    /\ Release(p)
    /\ Goto(p, "ended")
    /\ UNCHANGED <<calls, thread, stop, reaper, mutex, complete>>

NextStart(point) ==
    CASE point = "gcRecover"    -> "adopt"
      [] point = "adopt"        -> "queueRecover"
      [] point = "queueRecover" -> "gcStart"

Recover(p) ==
    /\ pc[p] \in {"gcRecover", "adopt", "queueRecover"}
    /\ Goto(p, NextStart(pc[p]))
    /\ UNCHANGED <<lock, fd, calls, thread, stop, open, reaper, mutex, complete>>

StartGc(p) ==
    /\ pc[p] = "gcStart"
    /\ thread' = [thread EXCEPT ![p]["gc"] = "alive"]
    /\ stop' = [stop EXCEPT ![p]["gc"] = FALSE]
    /\ Goto(p, "queueStart")
    /\ UNCHANGED <<lock, fd, calls, open, reaper, mutex, complete>>

StartQueue(p) ==
    /\ pc[p] = "queueStart"
    /\ thread' = [thread EXCEPT ![p]["queue"] = "alive"]
    /\ Goto(p, "serving")
    /\ UNCHANGED <<lock, fd, calls, stop, open, reaper, mutex, complete>>

\* Runtime.start closes the runtime and raises; the lifespan then closes it
\* once more.
StartFails(p) ==
    /\ pc[p] \in StartPoints \ {"build"}
    /\ calls' = [calls EXCEPT ![p] = 2]
    /\ stop' = IF pc[p] = "gcStart" THEN [stop EXCEPT ![p]["gc"] = TRUE] ELSE stop
    /\ Goto(p, "closing")
    /\ UNCHANGED <<lock, fd, thread, open, reaper, mutex, complete>>

EndLifespan(p) ==
    /\ pc[p] = "serving"
    /\ calls' = [calls EXCEPT ![p] = 1]
    /\ Goto(p, "closing")
    /\ UNCHANGED <<lock, fd, thread, stop, open, reaper, mutex, complete>>
-----------------------------------------------------------------------------
(* Runtime.close *)

MutReturn(p, done) ==          \* counts the calls of close the wrong way
    /\ calls' = [calls EXCEPT ![p] = @ + 1]
    /\ Goto(p, IF calls[p] > 1 THEN "closing" ELSE "ended")
    /\ IF done /\ calls[p] = 1 THEN Release(p) ELSE UNCHANGED <<lock, fd>>

\* The return of close: the lifespan goes on to the next call, or ends after
\* closing its own handle of the lock when close answered True.
Return(p, done) ==
    /\ calls' = [calls EXCEPT ![p] = @ - 1]
    /\ Goto(p, IF calls[p] > 1 THEN "closing" ELSE "ended")
    /\ IF done /\ calls[p] = 1 THEN Release(p) ELSE UNCHANGED <<lock, fd>>

CloseAgain(p) ==
    /\ pc[p] = "closing" /\ mutex[p] = None
    /\ \/ complete[p] /\ Return(p, TRUE)
       \/ ~complete[p] /\ reaper[p] # "absent" /\ Return(p, FALSE)
    /\ UNCHANGED <<thread, stop, open, reaper, mutex, complete>>

CloseBegin(p) ==
    /\ pc[p] = "closing" /\ mutex[p] = None
    /\ ~complete[p] /\ reaper[p] = "absent"
    /\ mutex' = [mutex EXCEPT ![p] = "main"]
    /\ stop' = [stop EXCEPT ![p]["queue"] = TRUE]
    /\ Goto(p, "stopQueue")
    /\ UNCHANGED <<lock, fd, calls, thread, open, reaper, complete>>

\* The join of the queue worker returned, within five seconds or because of
\* them; the collector is told to stop in either case.
StopQueue(p) ==
    /\ pc[p] = "stopQueue"
    /\ stop' = [stop EXCEPT ![p]["gc"] = TRUE]
    /\ Goto(p, "stopGc")
    /\ UNCHANGED <<lock, fd, calls, thread, open, reaper, mutex, complete>>

MutStopGc(p) ==                \* finalizes whatever the joins answered
    /\ pc[p] = "stopGc"
    /\ Goto(p, "finalize")
    /\ UNCHANGED <<lock, fd, calls, thread, stop, open, reaper, mutex, complete>>

\* Whether each join timed out is decided when it returns; a worker that exits
\* right after is one the reaper finds exited.
StopGc(p) ==
    /\ pc[p] = "stopGc"
    /\ \/ ~Busy(p) /\ Goto(p, "finalize")
       \/ Goto(p, "spawn")
    /\ UNCHANGED <<lock, fd, calls, thread, stop, open, reaper, mutex, complete>>

MutSpawnReaper(p) ==           \* the lock is closed with the last call
    /\ pc[p] = "spawn"
    /\ reaper' = [reaper EXCEPT ![p] = "reapQueue"]
    /\ mutex' = [mutex EXCEPT ![p] = None]
    /\ Return(p, TRUE)
    /\ UNCHANGED <<thread, stop, open, complete>>

MutReapHere(p) ==              \* no reaper, and close returns all the same
    /\ pc[p] = "spawn"
    /\ mutex' = [mutex EXCEPT ![p] = None]
    /\ Return(p, FALSE)
    /\ UNCHANGED <<thread, stop, open, reaper, complete>>

NextOpen(p) ==
    IF "ocr" \in open[p] THEN "ocr" ELSE IF "store" \in open[p] THEN "store" ELSE "embedding"

\* The thread about to run a step of _finalize_ownership.
Finalizing(p, who) ==
    \/ who = "main"   /\ mutex[p] = "main"   /\ pc[p] \in {"finalize", "reapFinal"}
    \/ who = "reaper" /\ mutex[p] = "reaper" /\ reaper[p] = "reapFinal"

CloseResource(p, who) ==
    /\ Finalizing(p, who) /\ open[p] # {}
    /\ open' = [open EXCEPT ![p] = @ \ {NextOpen(p)}]
    /\ UNCHANGED <<lock, fd, pc, calls, thread, stop, reaper, mutex, complete>>

\* A close that raises, the lock's included, makes the finalization answer
\* False: close starts the reaper, the reaper leaves the lock and tries again.
GiveUp(p, who) ==
    /\ IF who = "main" /\ pc[p] = "finalize"
          THEN Goto(p, "spawn") /\ UNCHANGED mutex
          ELSE mutex' = [mutex EXCEPT ![p] = None] /\ UNCHANGED pc

ResourceFails(p, who) ==
    /\ Finalizing(p, who) /\ open[p] # {}
    /\ GiveUp(p, who)
    /\ UNCHANGED <<lock, fd, calls, thread, stop, open, reaper, complete>>

ReleaseFails(p, who) ==
    /\ Finalizing(p, who) /\ open[p] = {} /\ fd[p]
    /\ Release(p)
    /\ GiveUp(p, who)
    /\ UNCHANGED <<calls, thread, stop, open, reaper, complete>>

\* _finalize_ownership releases the lock and answers True.  The main thread
\* then returns from close; its own lock.close() finds no descriptor.
Finalize(p, who) ==
    /\ Finalizing(p, who) /\ open[p] = {}
    /\ Release(p)
    /\ complete' = [complete EXCEPT ![p] = TRUE]
    /\ mutex' = [mutex EXCEPT ![p] = None]
    /\ IF who = "main"
          THEN /\ calls' = [calls EXCEPT ![p] = @ - 1]
               /\ Goto(p, IF calls[p] > 1 THEN "closing" ELSE "ended")
               /\ UNCHANGED reaper
          ELSE /\ reaper' = [reaper EXCEPT ![p] = "ended"]
               /\ UNCHANGED <<pc, calls>>
    /\ UNCHANGED <<thread, stop, open>>

SpawnReaper(p) ==
    /\ pc[p] = "spawn"
    /\ reaper' = [reaper EXCEPT ![p] = "reapQueue"]
    /\ mutex' = [mutex EXCEPT ![p] = None]
    /\ Return(p, FALSE)
    /\ UNCHANGED <<thread, stop, open, complete>>

\* The reaper thread cannot start: close reaps in its own thread.
ReapHere(p) ==
    /\ pc[p] = "spawn"
    /\ mutex' = [mutex EXCEPT ![p] = None]
    /\ Goto(p, "reapQueue")
    /\ UNCHANGED <<lock, fd, calls, thread, stop, open, reaper, complete>>

MutNextReap(point) == "reapFinal"   \* the collector is not joined

Joined(point) == IF point = "reapQueue" THEN "queue" ELSE "gc"
NextReap(point) == IF point = "reapQueue" THEN "reapGc" ELSE "reapFinal"

\* _reap_shutdown: joins without a deadline, the queue first.
Reap(p, who) ==
    /\ LET at == IF who = "main" THEN pc[p] ELSE reaper[p]
       IN  /\ at \in {"reapQueue", "reapGc"}
           /\ ~Alive(p, Joined(at))
           /\ IF who = "main"
                 THEN Goto(p, NextReap(at)) /\ UNCHANGED reaper
                 ELSE reaper' = [reaper EXCEPT ![p] = NextReap(at)] /\ UNCHANGED pc
    /\ UNCHANGED <<lock, fd, calls, thread, stop, open, mutex, complete>>

ReapLocks(p, who) ==
    /\ \/ who = "main" /\ pc[p] = "reapFinal"
       \/ who = "reaper" /\ reaper[p] = "reapFinal"
    /\ mutex[p] = None
    /\ mutex' = [mutex EXCEPT ![p] = who]
    /\ UNCHANGED <<lock, fd, pc, calls, thread, stop, open, reaper, complete>>
-----------------------------------------------------------------------------
(* Worker threads, the scripts, and the end of a process *)

\* A worker reads its stop event between two jobs or two batches.
WorkerExits(p, w) ==
    /\ Alive(p, w) /\ stop[p][w]
    /\ thread' = [thread EXCEPT ![p][w] = "exited"]
    /\ UNCHANGED <<lock, fd, pc, calls, stop, open, reaper, mutex, complete>>

ToolStarts(p) ==
    /\ p \in Tools /\ pc[p] = "down"
    /\ Acquire(p)
    /\ Goto(p, "working")
    /\ UNCHANGED <<calls, thread, stop, open, reaper, mutex, complete>>

ToolEnds(p) ==
    /\ pc[p] = "working"
    /\ Release(p)
    /\ Goto(p, "ended")
    /\ UNCHANGED <<calls, thread, stop, open, reaper, mutex, complete>>

\* The process exits or is killed: its daemon threads end and the system
\* closes its descriptors.
Exit(p) ==
    /\ pc[p] # "down"
    /\ ReleaseAnyway(p)
    /\ Goto(p, "down")
    /\ calls' = [calls EXCEPT ![p] = 0]
    /\ thread' = [thread EXCEPT ![p] = [w \in Workers |-> "absent"]]
    /\ stop' = [stop EXCEPT ![p] = [w \in Workers |-> FALSE]]
    /\ open' = [open EXCEPT ![p] = {}]
    /\ reaper' = [reaper EXCEPT ![p] = "absent"]
    /\ mutex' = [mutex EXCEPT ![p] = None]
    /\ complete' = [complete EXCEPT ![p] = FALSE]

Starting(p) ==
    \/ OpenLifespan(p) \/ Build(p) \/ BuildFails(p) \/ Recover(p)
    \/ StartGc(p) \/ StartQueue(p) \/ StartFails(p)

Closing(p) ==
    \/ CloseAgain(p) \/ CloseBegin(p) \/ StopQueue(p) \/ StopGc(p)
    \/ SpawnReaper(p) \/ ReapHere(p)

Reaping(p, who) ==
    \/ CloseResource(p, who) \/ ResourceFails(p, who) \/ ReleaseFails(p, who)
    \/ Finalize(p, who) \/ Reap(p, who) \/ ReapLocks(p, who)

Step(p) ==
    \/ Starting(p) \/ EndLifespan(p) \/ Closing(p)
    \/ \E who \in {"main", "reaper"} : Reaping(p, who)
    \/ \E w \in Workers : WorkerExits(p, w)
    \/ ToolStarts(p) \/ ToolEnds(p) \/ Exit(p)

Next == \E p \in Sessions : Step(p)

Spec == Init /\ [][Next]_vars

\* Threads run, and a worker told to stop reaches the end of its current job
\* or batch.  A cleanup that is retried for ever succeeds at last: the code
\* has no other way out of its loop.
Fairness ==
    \A p \in Sessions :
        /\ WF_vars(Closing(p))
        /\ \A w \in Workers : WF_vars(WorkerExits(p, w))
        /\ \A who \in {"main", "reaper"} :
              /\ WF_vars(Reap(p, who)) /\ SF_vars(ReapLocks(p, who))
              /\ SF_vars(CloseResource(p, who)) /\ SF_vars(Finalize(p, who))

FairSpec == Spec /\ Fairness
-----------------------------------------------------------------------------
(* Properties *)

\* Sessions that may write under the data directory: the server migrates,
\* recovers and adopts before it starts its workers.
Writing(p) ==
    Busy(p) \/ pc[p] \in {"build", "gcRecover", "adopt", "queueRecover", "working"}

Writers == {p \in Sessions : Writing(p)}

\* No two sessions write under one data directory, however slowly the workers
\* of the first one stop and whichever thread ends its shutdown.
SingleWriter == \A p, q \in Writers : p = q

\* A session whose runtime could not be built never closes what it opened.
NeverBuilt(p) == pc[p] = "ended" /\ reaper[p] = "absent" /\ ~complete[p]

\* The lock is retained while a worker of the session lives and while a
\* resource of its runtime is unclosed: a close that gave up after five
\* seconds, a cleanup that raised, or a second close never releases it.
LockRetained ==
    \A p \in Sessions :
        Busy(p) \/ (open[p] # {} /\ ~NeverBuilt(p)) => lock = p

\* No resource is closed beneath a worker that still uses it.
ResourcesOutliveWorkers ==
    \A p \in Sessions : Busy(p) => open[p] = Resources

\* A runtime that was asked to close releases its directory in the end, even
\* when its workers take longer than close waits for them, when cleanups fail,
\* or when the reaper thread cannot be started.
CloseReleases ==
    \A p \in Servers : pc[p] = "closing" ~> lock # p

DO == INSTANCE DirectoryOwnership WITH owner <- lock, writers <- Writers

\* The sessions implement exclusive ownership of the directory.
ImplementsDirectoryOwnership == DO!Spec
=============================================================================
