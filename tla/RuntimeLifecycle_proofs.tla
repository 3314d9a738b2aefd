----------------------- MODULE RuntimeLifecycle_proofs ----------------------
(***************************************************************************)
(* Proofs about RuntimeLifecycle, for any number of servers and scripts:   *)
(* one session writes at a time, the lock and the resources outlive the    *)
(* workers, and the sessions implement DirectoryOwnership.  The invariant  *)
(* says at which points of which thread the workers are known to have      *)
(* ended, and that whoever writes holds a descriptor of the lock.          *)
(***************************************************************************)
EXTENDS RuntimeLifecycle, TLAPS

Closes == {"stopQueue", "stopGc", "finalize", "spawn"} \cup ReapPoints

\* The descriptor and the flock agree.
Handle(p) == fd[p] <=> lock = p

\* Points at which no worker of p lives: before the collector starts, and
\* after both joins succeeded.
Quiet(p) ==
    /\ pc[p] \in {"down", "build", "gcRecover", "adopt", "queueRecover", "gcStart",
                  "working", "finalize", "reapFinal"} => ~Busy(p)
    /\ reaper[p] \in {"reapFinal", "ended"} => ~Busy(p)
    /\ complete[p] => ~Busy(p)
    /\ pc[p] = "reapGc" \/ reaper[p] = "reapGc" => ~Alive(p, "queue")

\* Who writes holds the lock, and so does who has resources of a runtime.
Owned(p) ==
    /\ pc[p] \in StartPoints \cup {"serving", "working"} => fd[p]
    /\ Busy(p) => fd[p] /\ open[p] = Resources
    /\ open[p] # {} /\ ~NeverBuilt(p) => fd[p]
    /\ pc[p] \in {"gcRecover", "adopt", "queueRecover", "gcStart", "queueStart"}
         => open[p] = Resources
    /\ complete[p] => open[p] = {} /\ ~fd[p]

\* How far the threads of p's shutdown are.
Phases(p) ==
    /\ pc[p] \in {"down", "working", "serving"} \cup StartPoints \cup Closes
         => reaper[p] = "absent" /\ ~complete[p]
    /\ pc[p] \in {"down", "working", "serving"} \cup StartPoints => mutex[p] = None
    /\ mutex[p] = "reaper" => reaper[p] = "reapFinal"
    /\ mutex[p] = "main" => pc[p] \in Closes
    /\ pc[p] \in Closes \cup {"closing"} => calls[p] \in 1..2

Inv == TypeOK /\ \A p \in Sessions : Handle(p) /\ Quiet(p) /\ Owned(p) /\ Phases(p)

Others(p) ==
    \A q \in Sessions \ {p} :
        /\ fd'[q] = fd[q] /\ pc'[q] = pc[q] /\ calls'[q] = calls[q]
        /\ thread'[q] = thread[q] /\ open'[q] = open[q] /\ reaper'[q] = reaper[q]
        /\ mutex'[q] = mutex[q] /\ complete'[q] = complete[q]

USE SessionsAssumption DEF Sessions

\* What a step of p leaves alone, and how it may move the lock.
Framed(p) ==
    /\ TypeOK' /\ Others(p)
    /\ \/ UNCHANGED lock
       \/ lock = None /\ lock' = p
       \/ lock = p /\ lock' = None

LEMMA StepFrame ==
    ASSUME Inv, NEW p \in Sessions, Step(p)
    PROVE  Framed(p)
<1> USE DEF Framed, Others, Inv, Handle, Phases, TypeOK, Goto, Points, StartPoints,
            ClosePoints, ReapPoints, Closes, Workers, Resources, None
<1>1. CASE OpenLifespan(p)
  BY <1>1 DEF OpenLifespan, Acquire
<1>2. CASE Build(p)
  BY <1>2 DEF Build
<1>3. CASE BuildFails(p)
  BY <1>3 DEF BuildFails, Release
<1>4. CASE Recover(p)
  BY <1>4 DEF Recover, NextStart
<1>5. CASE StartGc(p)
  BY <1>5 DEF StartGc
<1>6. CASE StartQueue(p)
  BY <1>6 DEF StartQueue
<1>7. CASE StartFails(p)
  BY <1>7 DEF StartFails
<1>8. CASE EndLifespan(p)
  BY <1>8 DEF EndLifespan
<1>9. CASE CloseAgain(p)
  <2>1. calls[p] \in 1..2 /\ calls[p] - 1 \in 0..2
    BY <1>9 DEF CloseAgain
  <2>2. CASE complete[p]
    <3>1. ~fd[p]
      BY <2>2 DEF Owned
    <3>2. lock' = lock /\ fd' \in {fd, [fd EXCEPT ![p] = FALSE]}
      <4>1. Return(p, TRUE)
        BY <1>9, <2>2 DEF CloseAgain
      <4> QED
        BY <3>1, <4>1 DEF Return, Release
    <3>3. /\ calls' = [calls EXCEPT ![p] = @ - 1]
          /\ pc' = [pc EXCEPT ![p] = IF calls[p] > 1 THEN "closing" ELSE "ended"]
          /\ UNCHANGED <<thread, stop, open, reaper, mutex, complete>>
      BY <1>9, <2>2 DEF CloseAgain, Return
    <3>4. fd' \in [Sessions -> BOOLEAN] /\ \A q \in Sessions \ {p} : fd'[q] = fd[q]
      BY <3>2
    <3> QED
      BY <2>1, <3>2, <3>3, <3>4
  <2>3. CASE ~complete[p]
    BY <1>9, <2>1, <2>3 DEF CloseAgain, Return
  <2> QED
    BY <2>2, <2>3
<1>10. CASE CloseBegin(p)
  BY <1>10 DEF CloseBegin
<1>11. CASE StopQueue(p)
  BY <1>11 DEF StopQueue
<1>12. CASE StopGc(p)
  BY <1>12 DEF StopGc
<1>13. CASE SpawnReaper(p)
  BY <1>13 DEF SpawnReaper, Return
<1>14. CASE ReapHere(p)
  BY <1>14 DEF ReapHere
<1>15. ASSUME NEW who \in {"main", "reaper"}, CloseResource(p, who) PROVE Framed(p)
  BY <1>15 DEF CloseResource, Finalizing
<1>16. ASSUME NEW who \in {"main", "reaper"}, ResourceFails(p, who) PROVE Framed(p)
  BY <1>16 DEF ResourceFails, GiveUp, Finalizing
<1>17. ASSUME NEW who \in {"main", "reaper"}, ReleaseFails(p, who) PROVE Framed(p)
  BY <1>17 DEF ReleaseFails, GiveUp, Release, Finalizing
<1>18. ASSUME NEW who \in {"main", "reaper"}, Finalize(p, who) PROVE Framed(p)
  <2>1. CASE who = "main"
    <3>1. calls[p] \in 1..2 /\ calls[p] - 1 \in 0..2
      BY <1>18, <2>1 DEF Finalize, Finalizing
    <3> QED
      BY <1>18, <2>1, <3>1 DEF Finalize, Release
  <2>2. CASE who = "reaper"
    BY <1>18, <2>2 DEF Finalize, Release
  <2> QED
    BY <2>1, <2>2
<1>19. ASSUME NEW who \in {"main", "reaper"}, Reap(p, who) PROVE Framed(p)
  BY <1>19 DEF Reap, Joined, NextReap
<1>20. ASSUME NEW who \in {"main", "reaper"}, ReapLocks(p, who) PROVE Framed(p)
  BY <1>20 DEF ReapLocks
<1>21. ASSUME NEW w \in Workers, WorkerExits(p, w) PROVE Framed(p)
  BY <1>21 DEF WorkerExits
<1>22. CASE ToolStarts(p)
  BY <1>22 DEF ToolStarts, Acquire
<1>23. CASE ToolEnds(p)
  BY <1>23 DEF ToolEnds, Release
<1>24. CASE Exit(p)
  BY <1>24 DEF Exit, ReleaseAnyway
<1> QED
  BY <1>1, <1>2, <1>3, <1>4, <1>5, <1>6, <1>7, <1>8, <1>9, <1>10, <1>11, <1>12, <1>13, <1>14, <1>15, <1>16, <1>17, <1>18, <1>19, <1>20, <1>21, <1>22, <1>23, <1>24 DEF Step, Starting, Closing, Reaping

\* What a step of p keeps true of p.
Local(p) == Handle(p) /\ Quiet(p) /\ Owned(p) /\ Phases(p)

LEMMA StepLocal ==
    ASSUME Inv, NEW p \in Sessions, Step(p)
    PROVE  Local(p)'
<1> USE DEF Local, Inv, Handle, Quiet, Owned, Phases, NeverBuilt, TypeOK, Goto, Points,
            StartPoints, ClosePoints, ReapPoints, Closes, Alive, Busy, Workers, Resources, None
<1>1. CASE OpenLifespan(p)
  BY <1>1 DEF OpenLifespan, Acquire
<1>2. CASE Build(p)
  BY <1>2 DEF Build
<1>3. CASE BuildFails(p)
  BY <1>3 DEF BuildFails, Release
<1>4. CASE Recover(p)
  BY <1>4 DEF Recover, NextStart
<1>5. CASE StartGc(p)
  BY <1>5 DEF StartGc
<1>6. CASE StartQueue(p)
  BY <1>6 DEF StartQueue
<1>7. CASE StartFails(p)
  BY <1>7 DEF StartFails
<1>8. CASE EndLifespan(p)
  BY <1>8 DEF EndLifespan
<1>9. CASE CloseAgain(p)
  BY <1>9 DEF CloseAgain, Return, Release
<1>10. CASE CloseBegin(p)
  BY <1>10 DEF CloseBegin
<1>11. CASE StopQueue(p)
  BY <1>11 DEF StopQueue
<1>12. CASE StopGc(p)
  BY <1>12 DEF StopGc
<1>13. CASE SpawnReaper(p)
  BY <1>13 DEF SpawnReaper, Return
<1>14. CASE ReapHere(p)
  BY <1>14 DEF ReapHere
<1>15. ASSUME NEW who \in {"main", "reaper"}, CloseResource(p, who) PROVE Local(p)'
  BY <1>15 DEF CloseResource, Finalizing
<1>16. ASSUME NEW who \in {"main", "reaper"}, ResourceFails(p, who) PROVE Local(p)'
  BY <1>16 DEF ResourceFails, GiveUp, Finalizing
<1>17. ASSUME NEW who \in {"main", "reaper"}, ReleaseFails(p, who) PROVE Local(p)'
  BY <1>17 DEF ReleaseFails, GiveUp, Release, Finalizing
<1>18. ASSUME NEW who \in {"main", "reaper"}, Finalize(p, who) PROVE Local(p)'
  BY <1>18 DEF Finalize, Release, Finalizing
<1>19. ASSUME NEW who \in {"main", "reaper"}, Reap(p, who) PROVE Local(p)'
  BY <1>19 DEF Reap, Joined, NextReap
<1>20. ASSUME NEW who \in {"main", "reaper"}, ReapLocks(p, who) PROVE Local(p)'
  BY <1>20 DEF ReapLocks
<1>21. ASSUME NEW w \in Workers, WorkerExits(p, w) PROVE Local(p)'
  BY <1>21 DEF WorkerExits
<1>22. CASE ToolStarts(p)
  BY <1>22 DEF ToolStarts, Acquire
<1>23. CASE ToolEnds(p)
  BY <1>23 DEF ToolEnds, Release
<1>24. CASE Exit(p)
  BY <1>24 DEF Exit, ReleaseAnyway
<1> QED
  BY <1>1, <1>2, <1>3, <1>4, <1>5, <1>6, <1>7, <1>8, <1>9, <1>10, <1>11, <1>12, <1>13, <1>14, <1>15, <1>16, <1>17, <1>18, <1>19, <1>20, <1>21, <1>22, <1>23, <1>24 DEF Step, Starting, Closing, Reaping

LEMMA InvInductive ==
    ASSUME Inv, [Next]_vars
    PROVE  Inv'
<1>1. CASE UNCHANGED vars
  BY <1>1 DEF vars, Inv, TypeOK, Handle, Quiet, Owned, Phases, NeverBuilt, Alive, Busy
<1>2. ASSUME NEW p \in Sessions, Step(p) PROVE Inv'
  <2>1. Framed(p)
    BY <1>2, StepFrame
  <2>2. Local(p)'
    BY <1>2, StepLocal
  <2>3. ASSUME NEW q \in Sessions, q # p PROVE Local(q)'
    <3>1. Local(q)
      BY DEF Inv, Local
    <3>2. (lock = q) <=> (lock' = q)
      BY <2>1, <2>3 DEF Framed, None
    <3> QED
      BY <2>1, <2>3, <3>1, <3>2 DEF Framed, Others, Local, Handle, Quiet, Owned, Phases,
         NeverBuilt, Alive, Busy
  <2> QED
    BY <2>1, <2>2, <2>3 DEF Framed, Inv, Local
<1> QED
  BY <1>1, <1>2 DEF Next

LEMMA InvInitially == Init => Inv
BY DEF Init, Inv, TypeOK, Handle, Quiet, Owned, Phases, NeverBuilt, Alive, Busy,
   Points, StartPoints, ClosePoints, ReapPoints, Closes, Workers, Resources, None

LEMMA InvAlways == Spec => []Inv
<1>1. Inv /\ [Next]_vars => Inv'
  BY InvInductive
<1> QED
  BY <1>1, InvInitially, PTL DEF Spec
-----------------------------------------------------------------------------
(* What follows *)

\* A session that may write holds the lock.
LEMMA WritersHoldLock ==
    ASSUME Inv, NEW p \in Writers
    PROVE  lock = p
BY DEF Inv, Writers, Writing, Handle, Owned, StartPoints

\* Every variable keeps its type.
THEOREM TypesHold == Spec => []TypeOK
<1>1. Inv => TypeOK
  BY DEF Inv
<1> QED
  BY <1>1, InvAlways, PTL

\* One session writes at a time.
THEOREM OneWriter == Spec => []SingleWriter
<1>1. Inv => SingleWriter
  BY WritersHoldLock DEF SingleWriter
<1> QED
  BY <1>1, InvAlways, PTL

\* The lock outlives workers and resources.
THEOREM LockIsRetained == Spec => []LockRetained
<1>1. Inv => LockRetained
  BY DEF Inv, LockRetained, Handle, Owned
<1> QED
  BY <1>1, InvAlways, PTL

\* Resources are closed after the last worker ended.
THEOREM ResourcesLast == Spec => []ResourcesOutliveWorkers
<1>1. Inv => ResourcesOutliveWorkers
  BY DEF Inv, ResourcesOutliveWorkers, Owned
<1> QED
  BY <1>1, InvAlways, PTL

LEMMA StepOwns ==
    ASSUME Inv, Inv', NEW p \in Sessions, Step(p), lock = None, lock' = p
    PROVE  Writing(p)'
<1>1. CASE OpenLifespan(p)
  BY <1>1 DEF OpenLifespan, Goto, Writing, Inv, TypeOK
<1>2. CASE ToolStarts(p)
  BY <1>2 DEF ToolStarts, Goto, Writing, Inv, TypeOK
<1>3. CASE ~OpenLifespan(p) /\ ~ToolStarts(p)
  BY <1>3 DEF Step, Starting, Closing, Reaping, Build, BuildFails, Recover, StartGc, StartQueue,
     StartFails, EndLifespan, CloseAgain, CloseBegin, StopQueue, StopGc, SpawnReaper, ReapHere,
     CloseResource, ResourceFails, ReleaseFails, Finalize, Reap, ReapLocks, WorkerExits,
     ToolEnds, Exit, ReleaseAnyway, Release, Return, None
<1> QED
  BY <1>1, <1>2, <1>3

LEMMA MapsSteps ==
    ASSUME Inv, Inv', [Next]_vars
    PROVE  [DO!Next]_(DO!vars)
<1> USE DEF DO!Next, DO!vars, DO!Enter, DO!Pause, DO!Resume, DO!Leave
<1>1. CASE UNCHANGED vars
  BY <1>1 DEF vars, Writers, Writing, Busy, Alive
<1>2. ASSUME NEW p \in Sessions, Step(p) PROVE [DO!Next]_(DO!vars)
  <2>1. Framed(p)
    BY <1>2, StepFrame
  <2>2. \A q \in Writers : q = lock
    BY WritersHoldLock
  <2>3. \A q \in Writers' : q = lock'
    BY Inv' DEF Inv, Writers, Writing, Handle, Owned, StartPoints
  <2>4. Writers \subseteq Sessions /\ Writers' \subseteq Sessions /\ None \notin Sessions
    BY DEF Writers
  <2>5. CASE UNCHANGED lock
    BY <2>2, <2>3, <2>4, <2>5
  <2>6. CASE lock = None /\ lock' = p
    <3>1. p \in Writers'
      BY <1>2, <2>6, StepOwns DEF Writers
    <3> QED
      BY <2>2, <2>3, <2>4, <2>6, <3>1
  <2>7. CASE lock = p /\ lock' = None
    BY <2>3, <2>4, <2>7
  <2> QED
    BY <2>1, <2>5, <2>6, <2>7 DEF Framed
<1> QED
  BY <1>1, <1>2 DEF Next

\* The sessions implement exclusive ownership of the data directory.
THEOREM Refinement == Spec => ImplementsDirectoryOwnership
<1>1. Init => DO!Init
  BY DEF Init, DO!Init, Writers, Writing, Busy, Alive
<1>2. Inv /\ Inv' /\ [Next]_vars => [DO!Next]_(DO!vars)
  BY MapsSteps
<1> QED
  BY <1>1, <1>2, InvAlways, PTL DEF Spec, DO!Spec, ImplementsDirectoryOwnership
=============================================================================
