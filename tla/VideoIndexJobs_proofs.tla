----------------------- MODULE VideoIndexJobs_proofs -----------------------
(***************************************************************************)
(* Proofs about VideoIndexJobs, for any set of videos and plans, any stage *)
(* order, any bound on jobs, starts, damaged rows and refused endings.     *)
(*                                                                         *)
(* The argument.  Rows are append-only: the rows 1..count are well formed  *)
(* and the others are blank (Rows).  The dispatcher thread holds a running *)
(* job and only while the process lives (ExecOwns), so no step touches a   *)
(* row that has ended.  From that follow, in this order, that attempts on  *)
(* one video do not overlap, that history is immutable, and that the       *)
(* release that search reads stays coherent.                               *)
(*                                                                         *)
(* A step does one of few things to the job table (StepKinds): nothing, a  *)
(* row is appended by a handler, a stop is requested, one unfinished row   *)
(* turns running or ends, or recovery replaces an abandoned row by its     *)
(* child.  How attempts end, who retries and holds them, what the status   *)
(* of a video says of them, and that together they implement VideoRelease  *)
(* is then shown kind by kind.                                             *)
(***************************************************************************)
EXTENDS VideoIndexJobs, TLAPS

-----------------------------------------------------------------------------
(* The inductive invariant *)

\* Rows are inserted in order and filled in when inserted.
Rows ==
    /\ \A j \in JobIds : j > count => job[j] = NoRow
    /\ \A j \in 1..count :
          /\ job[j].video \in Videos /\ job[j].plan \in Plans
          /\ job[j].state \in States

Located ==
    /\ exec.pc = "stage" => exec.k \in 1..Len(StageOrder) + 1
    /\ exec.pc \in {"created", "running", "reserved"} => exec.k \in 1..Len(StageOrder)
    /\ exec.pc = "reserved" => Stage = "text_vectors"

\* The dispatcher holds an existing running job of a process that is up.
ExecOwns ==
    exec.pc # "idle" =>
        /\ exec.job \in 1..count /\ job[exec.job].state = "running"
        /\ phase \in {"serving", "stopping"}

Base == TypeOK /\ Rows /\ Located /\ ExecOwns

-----------------------------------------------------------------------------
(* Facts about the constants and about rows *)

LEMMA StageFacts ==
    /\ Len(StageOrder) \in Nat /\ DOMAIN StageOrder = 1..Len(StageOrder)
    /\ \A k \in 1..Len(StageOrder) : StageOrder[k] \in Stages
    /\ "text_vectors" \in Stages /\ "scenes" \in Stages
    /\ "text_vectors" \notin Semantic /\ Semantic \subseteq Stages
  BY ConstantsAssumption DEF ConstantsAssumption, Stages, Semantic, SemanticKinds

LEMMA NoneIsNobody == None \notin Videos /\ None \notin Plans
  BY ConstantsAssumption DEF ConstantsAssumption

LEMMA BoundIsNat == MaxJobs \in Nat /\ MaxStarts \in Nat
  BY ConstantsAssumption DEF ConstantsAssumption

\* Changing the state or the cancellation flag of a row keeps it a row.
LEMMA RowUpdate ==
    ASSUME NEW row \in JobRow, NEW st \in States, NEW c \in BOOLEAN
    PROVE  /\ [row EXCEPT !.state = st] \in JobRow
           /\ [row EXCEPT !.state = st, !.cancel = c] \in JobRow
           /\ [row EXCEPT !.cancel = c] \in JobRow
  BY DEF JobRow, States

LEMMA NewJobType ==
    ASSUME NEW v \in Videos, NEW p \in Plans, NEW i \in {"ingest", "reindex"},
           NEW prior \in VideoStates
    PROVE  /\ NewJob(v, i, p, prior) \in JobRow
           /\ NewJob(v, i, p, prior).video = v
           /\ NewJob(v, i, p, prior).plan = p
           /\ NewJob(v, i, p, prior).state = "queued"
  BY BoundIsNat DEF NewJob, JobRow, States, Gens

LEMMA RetryType ==
    ASSUME TypeOK, NEW j \in JobIds
    PROVE  /\ RetryOf(j) \in JobRow
           /\ RetryOf(j).video = job[j].video
           /\ RetryOf(j).plan = job[j].plan
           /\ RetryOf(j).state = "queued"
  <1>1. job[j] \in JobRow
    BY DEF TypeOK
  <1>2. j \in Gens
    BY BoundIsNat DEF JobIds, Gens
  <1> QED
    BY <1>1, <1>2 DEF RetryOf, JobRow, States

LEMMA ProjectionType ==
    ASSUME NEW row \in JobRow
    PROVE  Projection(row) \in VideoStates
  BY DEF Projection, JobRow, VideoStates

LEMMA SaveType ==
    ASSUME TypeOK, NEW j \in JobIds, NEW row \in JobRow, row.video \in Videos,
           Save(j, row)
    PROVE  /\ job' \in [JobIds -> JobRow]
           /\ status' \in [Videos -> VideoStates]
  BY ProjectionType DEF TypeOK, Save

LEMMA EndRunsType ==
    ASSUME TypeOK, NEW j \in JobIds, NEW outcome \in {"failed", "cancelled"}
    PROVE  [run EXCEPT ![j] = EndRuns(@, outcome)] \in [JobIds -> [Stages -> RunStates]]
  <1>1. EndRuns(run[j], outcome) \in [Stages -> RunStates]
    BY DEF TypeOK, EndRuns, RunStates
  <1> QED
    BY <1>1 DEF TypeOK

LEMMA SelectedType ==
    ASSUME Base, NEW j \in 1..count
    PROVE  /\ \A s \in Stages : Selected(j, s) \in Gens
           /\ TextInputs(j) \in [Semantic -> Gens]
           /\ ReleaseOf(j) \in [Stages -> Gens]
  <1>1. j \in JobIds /\ j \in Gens /\ 0 \in Gens
    BY BoundIsNat DEF Base, TypeOK, JobIds, Gens
  <1>2. \A s \in Stages : active[job[j].video][s] \in Gens
    BY <1>1 DEF Base, TypeOK, Rows
  <1>3. \A s \in Stages : Selected(j, s) \in Gens
    BY <1>1, <1>2 DEF Selected
  <1>4. TextInputs(j) \in [Semantic -> Gens]
    BY <1>3, StageFacts DEF TextInputs
  <1>5. SelectedText(j) \in Gens
    BY <1>1, <1>2, StageFacts DEF SelectedText
  <1> QED
    BY <1>3, <1>4, <1>5 DEF ReleaseOf

\* Only rows that were inserted have a state.
LEMMA HasState ==
    ASSUME Base, NEW j \in JobIds, job[j].state \in States
    PROVE  j \in 1..count
  BY BoundIsNat DEF Base, TypeOK, Rows, JobIds, NoRow, None, States

-----------------------------------------------------------------------------
(* How a step changes the rows: one row is updated or one is appended *)

Updates(j, row) ==
    /\ j \in 1..count /\ row \in JobRow
    /\ row.video = job[j].video /\ row.plan = job[j].plan /\ row.state \in States
    /\ job' = [job EXCEPT ![j] = row] /\ count' = count

LEMMA UpdateKeepsRows ==
    ASSUME Base, NEW j, NEW row, Updates(j, row)
    PROVE  /\ job' \in [JobIds -> JobRow] /\ count' \in 0..MaxJobs /\ Rows'
           /\ row.video \in Videos
  <1>1. j \in JobIds
    BY BoundIsNat DEF Base, TypeOK, Updates, JobIds
  <1> QED
    BY <1>1, BoundIsNat DEF Base, TypeOK, Rows, Updates, JobIds

LEMMA InsertKeepsRows ==
    ASSUME Base, NEW row \in JobRow, row.video \in Videos, row.plan \in Plans,
           row.state \in States, Insert(row)
    PROVE  /\ job' \in [JobIds -> JobRow] /\ count' \in 0..MaxJobs /\ Rows'
           /\ status' \in [Videos -> VideoStates]
           /\ count + 1 \in JobIds /\ count' = count + 1
           /\ job' = [job EXCEPT ![count + 1] = row]
  <1>1. /\ count + 1 \in JobIds /\ count' = count + 1 /\ Save(count + 1, row)
        /\ count' \in 0..MaxJobs
    BY BoundIsNat DEF Insert, Base, TypeOK, JobIds
  <1>2. /\ job' \in [JobIds -> JobRow] /\ status' \in [Videos -> VideoStates]
        /\ job' = [job EXCEPT ![count + 1] = row]
    BY <1>1, SaveType DEF Base, Save
  <1>3. Rows'
    BY <1>1, <1>2, BoundIsNat DEF Base, TypeOK, Rows, JobIds
  <1> QED
    BY <1>1, <1>2, <1>3

-----------------------------------------------------------------------------
(* Init and every action preserve the base invariant *)

LEMMA InitBase == Init => Base
  <1> SUFFICES ASSUME Init PROVE Base
    OBVIOUS
  <1>1. NoRow \in JobRow
    BY BoundIsNat DEF NoRow, JobRow, VideoStates, Gens, None
  <1>2. TypeOK
    BY <1>1, BoundIsNat, StageFacts
       DEF Init, TypeOK, Gens, RunStates, VideoStates, Pcs, Idle
  <1> QED
    BY <1>2, BoundIsNat DEF Init, Base, Rows, Located, ExecOwns, Idle

LEMMA HandlersBase == Base /\ Handlers => Base'
  <1> SUFFICES ASSUME Base, Handlers PROVE Base'
    OBVIOUS
  <1>1. ASSUME NEW v \in Videos, NEW p \in Plans, CreateIngest(v, p)
        PROVE  Base'
    <2>1. Insert(NewJob(v, "ingest", p, None))
      BY <1>1 DEF CreateIngest
    <2>2. None \in VideoStates
      BY DEF VideoStates
    <2>3. /\ job' \in [JobIds -> JobRow] /\ count' \in 0..MaxJobs /\ Rows'
          /\ status' \in [Videos -> VideoStates]
          /\ job' = [job EXCEPT ![count + 1] = NewJob(v, "ingest", p, None)]
          /\ count' = count + 1
      BY <2>1, <2>2, NewJobType, InsertKeepsRows DEF States
    <2> QED
      BY <1>1, <2>3, BoundIsNat
         DEF CreateIngest, Base, TypeOK, Located, ExecOwns, JobIds, Stage
  <1>2. ASSUME NEW v \in Videos, NEW p \in Plans, EnqueueReindex(v, p)
        PROVE  Base'
    <2>1. Insert(NewJob(v, "reindex", p, status[v]))
      BY <1>2 DEF EnqueueReindex
    <2>2. status[v] \in VideoStates
      BY DEF Base, TypeOK
    <2>3. /\ job' \in [JobIds -> JobRow] /\ count' \in 0..MaxJobs /\ Rows'
          /\ status' \in [Videos -> VideoStates]
          /\ job' = [job EXCEPT ![count + 1] = NewJob(v, "reindex", p, status[v])]
          /\ count' = count + 1
      BY <2>1, <2>2, NewJobType, InsertKeepsRows DEF States
    <2> QED
      BY <1>2, <2>3, BoundIsNat
         DEF EnqueueReindex, Base, TypeOK, Located, ExecOwns, JobIds, Stage
  <1>3. ASSUME NEW j \in JobIds, Retry(j)
        PROVE  Base'
    <2>1. Insert(RetryOf(j)) /\ j \in 1..count
      BY <1>3, HasState DEF Retry, States
    <2>2. /\ job' \in [JobIds -> JobRow] /\ count' \in 0..MaxJobs /\ Rows'
          /\ status' \in [Videos -> VideoStates]
          /\ job' = [job EXCEPT ![count + 1] = RetryOf(j)]
          /\ count' = count + 1
      BY <2>1, RetryType, InsertKeepsRows DEF Base, Rows, States
    <2> QED
      BY <1>3, <2>2, BoundIsNat
         DEF Retry, Base, TypeOK, Located, ExecOwns, JobIds, Stage
  <1>4. ASSUME NEW j \in JobIds, CancelQueued(j)
        PROVE  Base'
    <2> DEFINE row == [job[j] EXCEPT !.state = "cancelled", !.cancel = TRUE]
    <2>1. row \in JobRow
      BY RowUpdate DEF Base, TypeOK, States
    <2>2. Updates(j, row) /\ Save(j, row)
      BY <1>4, <2>1, HasState
         DEF CancelQueued, Save, Updates, Base, TypeOK, JobRow, States
    <2>3. job' \in [JobIds -> JobRow] /\ count' \in 0..MaxJobs /\ Rows'
      BY <2>2, UpdateKeepsRows
    <2>4. status' \in [Videos -> VideoStates]
      BY <2>1, <2>2, SaveType, UpdateKeepsRows DEF Base
    <2>5. run' \in [JobIds -> [Stages -> RunStates]]
      BY <1>4, EndRunsType DEF CancelQueued, Base
    <2> QED
      BY <1>4, <2>2, <2>3, <2>4, <2>5
         DEF CancelQueued, Updates, Base, TypeOK, Located, ExecOwns, Stage
  <1>5. ASSUME NEW j \in JobIds, CancelRunning(j)
        PROVE  Base'
    <2> DEFINE row == [job[j] EXCEPT !.cancel = TRUE]
    <2>1. row \in JobRow
      BY RowUpdate DEF Base, TypeOK, States
    <2>2. Updates(j, row)
      BY <1>5, <2>1, HasState
         DEF CancelRunning, Updates, Base, TypeOK, JobRow, States
    <2>3. job' \in [JobIds -> JobRow] /\ count' \in 0..MaxJobs /\ Rows'
      BY <2>2, UpdateKeepsRows
    <2> QED
      BY <1>5, <2>2, <2>3
         DEF CancelRunning, Updates, Base, TypeOK, Located, ExecOwns, Stage, JobRow
  <1> QED
    BY <1>1, <1>2, <1>3, <1>4, <1>5 DEF Handlers

LEMMA RecoveryBase == Base /\ Recovery => Base'
  <1> SUFFICES ASSUME Base, Recovery PROVE Base'
    OBVIOUS
  <1>1. ASSUME NEW j \in JobIds, RecoverDamaged(j)
        PROVE  Base'
    BY <1>1 DEF RecoverDamaged, Readable, Base, TypeOK, Rows, Located, ExecOwns, Stage
  <1>2. ASSUME NEW j \in JobIds, RecoverCancelled(j)
        PROVE  Base'
    <2> DEFINE row == [job[j] EXCEPT !.state = "cancelled"]
    <2>1. row \in JobRow
      BY RowUpdate DEF Base, TypeOK, States
    <2>2. Updates(j, row) /\ Save(j, row)
      BY <1>2, <2>1, HasState
         DEF RecoverCancelled, Oldest, Abandoned, Save, Updates, Base, TypeOK, JobRow, States
    <2>3. job' \in [JobIds -> JobRow] /\ count' \in 0..MaxJobs /\ Rows'
      BY <2>2, UpdateKeepsRows
    <2>4. status' \in [Videos -> VideoStates]
      BY <2>1, <2>2, SaveType, UpdateKeepsRows DEF Base
    <2>5. run' \in [JobIds -> [Stages -> RunStates]]
      BY <1>2, EndRunsType DEF RecoverCancelled, Base
    <2>6. exec.pc = "idle"
      BY <1>2 DEF RecoverCancelled, Base, ExecOwns
    <2> QED
      BY <1>2, <2>3, <2>4, <2>5, <2>6 DEF RecoverCancelled, Base, TypeOK, Located, ExecOwns
  <1>3. ASSUME NEW j \in JobIds, RecoverAbandoned(j)
        PROVE  Base'
    <2> DEFINE row == [job[j] EXCEPT !.state = "failed"]
    <2>1. row \in JobRow
      BY RowUpdate DEF Base, TypeOK, States
    <2>2. j \in 1..count /\ count + 1 \in JobIds /\ j # count + 1 /\ count + 1 \in 0..MaxJobs
      BY <1>3, HasState, BoundIsNat
         DEF RecoverAbandoned, Oldest, Abandoned, Base, TypeOK, JobIds, States
    <2>3. /\ job' = [job EXCEPT ![j] = row, ![count + 1] = RetryOf(j)]
          /\ count' = count + 1
      BY <1>3 DEF RecoverAbandoned
    <2>4. row.state = "failed" /\ row.video = job[j].video /\ row.plan = job[j].plan
      BY DEF Base, TypeOK, JobRow
    <2>5. job' \in [JobIds -> JobRow]
      BY <2>1, <2>2, <2>3, RetryType DEF Base, TypeOK
    <2>6. Rows'
      <3>1. /\ job'[j] = row /\ job'[count + 1] = RetryOf(j)
            /\ \A i \in JobIds \ {j, count + 1} : job'[i] = job[i]
        BY <2>2, <2>3 DEF Base, TypeOK
      <3>2. /\ row.video \in Videos /\ row.plan \in Plans /\ row.state \in States
            /\ RetryOf(j).video \in Videos /\ RetryOf(j).plan \in Plans
            /\ RetryOf(j).state \in States
        BY <2>2, <2>4, RetryType DEF Base, Rows, States
      <3> HIDE DEF row
      <3>3. ASSUME NEW i \in JobIds, i > count'
            PROVE  job'[i] = NoRow
        BY <2>2, <2>3, <3>1, <3>3, BoundIsNat DEF Base, TypeOK, Rows, JobIds
      <3>4. ASSUME NEW i \in 1..count'
            PROVE  /\ job'[i].video \in Videos /\ job'[i].plan \in Plans
                   /\ job'[i].state \in States
        BY <2>2, <2>3, <3>1, <3>2, <3>4, BoundIsNat DEF Base, TypeOK, Rows, JobIds
      <3> QED
        BY <3>3, <3>4 DEF Rows
    <2>7. status' \in [Videos -> VideoStates]
      BY <1>3, <2>2 DEF RecoverAbandoned, Base, TypeOK, Rows, VideoStates
    <2>8. run' \in [JobIds -> [Stages -> RunStates]]
      BY <1>3, EndRunsType DEF RecoverAbandoned, Base
    <2>9. exec.pc = "idle"
      BY <1>3 DEF RecoverAbandoned, Base, ExecOwns
    <2> QED
      BY <1>3, <2>2, <2>3, <2>5, <2>6, <2>7, <2>8, <2>9
         DEF RecoverAbandoned, Base, TypeOK, Located, ExecOwns
  <1>4. ASSUME Serve
        PROVE  Base'
    BY <1>4 DEF Serve, dbVars, Base, TypeOK, Rows, Located, ExecOwns, Stage
  <1> QED
    BY <1>1, <1>2, <1>3, <1>4 DEF Recovery

LEMMA LifeBase == Base /\ (Start \/ Stopped \/ Environment) => Base'
  <1> SUFFICES ASSUME Base, Start \/ Stopped \/ Environment PROVE Base'
    OBVIOUS
  <1>1. ASSUME Start
        PROVE  Base'
    BY <1>1, BoundIsNat DEF Start, dbVars, Base, TypeOK, Rows, Located, ExecOwns, Stage
  <1>2. ASSUME Stopped
        PROVE  Base'
    BY <1>2 DEF Stopped, dbVars, Base, TypeOK, Rows, Located, ExecOwns, Stage
  <1>3. ASSUME Stop
        PROVE  Base'
    BY <1>3 DEF Stop, dbVars, Base, TypeOK, Rows, Located, ExecOwns, Stage
  <1>4. ASSUME Crash
        PROVE  Base'
    BY <1>4, BoundIsNat, StageFacts
       DEF Crash, dbVars, Base, TypeOK, Rows, Located, ExecOwns, Idle, Pcs, Gens
  <1>5. ASSUME NEW j \in JobIds, Damage(j)
        PROVE  Base'
    BY <1>5 DEF Damage, dbVars, Base, TypeOK, Rows, Located, ExecOwns, Stage
  <1> QED
    BY <1>1, <1>2, <1>3, <1>4, <1>5 DEF Environment

LEMMA ClaimsBase == Base /\ Claims => Base'
  <1> SUFFICES ASSUME Base, Claims PROVE Base'
    OBVIOUS
  <1>1. ASSUME ClaimNone
        PROVE  Base'
    BY <1>1 DEF ClaimNone, Scanned, Claimable, Readable, Base, TypeOK, Rows, Located,
                ExecOwns, Stage
  <1>2. ASSUME NEW j \in JobIds, Claim(j)
        PROVE  Base'
    <2> DEFINE row == [job[j] EXCEPT !.state = "running"]
    <2>1. row \in JobRow
      BY RowUpdate DEF Base, TypeOK, States
    <2>2. Updates(j, row) /\ Save(j, row)
      BY <1>2, <2>1, HasState
         DEF Claim, Scanned, Claimable, Save, Updates, Base, TypeOK, JobRow, States
    <2>3. job' \in [JobIds -> JobRow] /\ count' \in 0..MaxJobs /\ Rows'
      BY <2>2, UpdateKeepsRows
    <2>4. status' \in [Videos -> VideoStates]
      BY <2>1, <2>2, SaveType, UpdateKeepsRows DEF Base
    <2>5. quarantined' \subseteq damaged'
      BY <1>2 DEF Claim, Scanned, Claimable, Readable, Base, TypeOK
    <2>6. job'[j].state = "running" /\ j \in 1..count'
      BY <2>2 DEF Updates, Base, TypeOK, JobRow
    <2>7. exec' = [pc |-> "load", job |-> j, k |-> 0] /\ j \in Gens
      BY <1>2, BoundIsNat DEF Claim, JobIds, Gens
    <2> QED
      BY <1>2, <2>3, <2>4, <2>5, <2>6, <2>7, StageFacts
         DEF Claim, Base, TypeOK, Located, ExecOwns, Pcs, Working
  <1> QED
    BY <1>1, <1>2 DEF Claims

LEMMA ExecMove ==
    ASSUME TypeOK, NEW pc \in Pcs, NEW k \in 0..Len(StageOrder) + 1
    PROVE  LET e == [exec EXCEPT !.pc = pc, !.k = k]
           IN  /\ e \in [pc : Pcs, job : Gens, k : 0..Len(StageOrder) + 1]
               /\ e.pc = pc /\ e.job = exec.job /\ e.k = k
  BY DEF TypeOK

\* Steps of the attempt in hand that touch only its runs.
LEMMA RunStepBase ==
    ASSUME Base, NEW st \in RunStates, NEW pc \in {"stage", "created", "running"},
           exec.pc \in {"stage", "created", "running", "reserved"},
           exec.k \in 1..Len(StageOrder), SetRun(st), OnlyRunMoves,
           IF pc = "stage" THEN NextStage ELSE GoTo(pc)
    PROVE  Base'
  <1>1. J \in JobIds /\ Stage \in Stages
    BY BoundIsNat, StageFacts DEF J, Stage, Base, TypeOK, ExecOwns, JobIds
  <1>2. run' \in [JobIds -> [Stages -> RunStates]]
    BY <1>1 DEF SetRun, Base, TypeOK
  <1>3. /\ exec' \in [pc : Pcs, job : Gens, k : 0..Len(StageOrder) + 1]
        /\ exec'.pc = pc /\ exec'.job = exec.job
        /\ exec'.k \in 1..Len(StageOrder) + 1
        /\ pc # "stage" => exec'.k = exec.k
    <2>1. CASE pc = "stage"
      <3>1. exec' = [exec EXCEPT !.pc = "stage", !.k = exec.k + 1]
        BY <2>1 DEF NextStage
      <3>2. exec.k + 1 \in 0..Len(StageOrder) + 1 /\ "stage" \in Pcs
        BY StageFacts DEF Pcs, Working
      <3>3. /\ exec' \in [pc : Pcs, job : Gens, k : 0..Len(StageOrder) + 1]
            /\ exec'.pc = "stage" /\ exec'.job = exec.job /\ exec'.k = exec.k + 1
        BY <3>1, <3>2, ExecMove DEF Base
      <3> QED
        BY <2>1, <3>3, StageFacts
    <2>2. CASE pc # "stage"
      BY <2>2, StageFacts DEF GoTo, Base, TypeOK, Pcs, Working
    <2> QED
      BY <2>1, <2>2
  <1> QED
    BY <1>2, <1>3 DEF OnlyRunMoves, Base, TypeOK, Rows, Located, ExecOwns

\* The dispatcher moves and nothing else does.
LEMMA MoveBase ==
    ASSUME Base, UNCHANGED <<dbVars, phase, starts, damaged>>, left' \subseteq JobIds,
           \/ exec' = Idle
           \/ /\ exec.pc # "idle"
              /\ \E pc \in {"terminate", "fail", "cancel"} : GoTo(pc)
           \/ exec.pc = "load" /\ exec' = [exec EXCEPT !.pc = "stage", !.k = 1]
    PROVE  Base'
  <1>1. CASE exec' = Idle
    BY <1>1, BoundIsNat, StageFacts
       DEF dbVars, Base, TypeOK, Rows, Located, ExecOwns, Idle, Pcs, Gens
  <1>2. ASSUME exec.pc # "idle", NEW pc \in {"terminate", "fail", "cancel"}, GoTo(pc)
        PROVE  Base'
    BY <1>2 DEF GoTo, dbVars, Base, TypeOK, Rows, Located, ExecOwns, Pcs
  <1>3. CASE exec.pc = "load" /\ exec' = [exec EXCEPT !.pc = "stage", !.k = 1]
    <2>1. 1 \in 0..Len(StageOrder) + 1 /\ "stage" \in Pcs
      BY StageFacts DEF Pcs, Working
    <2>2. /\ exec' \in [pc : Pcs, job : Gens, k : 0..Len(StageOrder) + 1]
          /\ exec'.pc = "stage" /\ exec'.job = exec.job /\ exec'.k = 1
      BY <1>3, <2>1, ExecMove DEF Base
    <2> QED
      BY <1>3, <2>2, StageFacts DEF dbVars, Base, TypeOK, Rows, Located, ExecOwns
  <1> QED
    BY <1>1, <1>2, <1>3

\* The job in hand ends, with its runs.
LEMMA EndBase ==
    ASSUME Base, exec.pc # "idle", NEW outcome \in {"failed", "cancelled"}, EndAs(outcome)
    PROVE  Base' /\ Updates(J, [job[J] EXCEPT !.state = outcome])
  <1> DEFINE row == [job[J] EXCEPT !.state = outcome]
  <1>1. J \in JobIds /\ J \in 1..count
    BY BoundIsNat DEF J, Base, TypeOK, ExecOwns, JobIds
  <1>2. row \in JobRow
    BY <1>1, RowUpdate DEF Base, TypeOK, States
  <1>3. Updates(J, row) /\ Save(J, row)
    BY <1>1, <1>2 DEF EndAs, Save, Updates, Base, TypeOK, JobRow, States
  <1>4. job' \in [JobIds -> JobRow] /\ count' \in 0..MaxJobs /\ Rows'
    BY <1>3, UpdateKeepsRows
  <1>5. status' \in [Videos -> VideoStates]
    BY <1>1, <1>2, <1>3, SaveType, UpdateKeepsRows DEF Base
  <1>6. run' \in [JobIds -> [Stages -> RunStates]]
    BY <1>1, EndRunsType DEF EndAs, Base
  <1> QED
    BY <1>3, <1>4, <1>5, <1>6, BoundIsNat, StageFacts
       DEF EndAs, Base, TypeOK, Located, ExecOwns, Idle, Pcs, Gens

LEMMA ExecutesBase == Base /\ (Executes \/ Abort \/ TerminalizationFails) => Base'
  <1> SUFFICES ASSUME Base, Executes \/ Abort \/ TerminalizationFails PROVE Base'
    OBVIOUS
  <1>0. left \subseteq JobIds
    BY DEF Base, TypeOK
  <1>1. CASE LoadContext
    BY <1>0, <1>1, MoveBase DEF LoadContext, At
  <1>2. CASE CreateRun
    <2>1. exec.k \in 1..Len(StageOrder)
      BY <1>2, StageFacts DEF CreateRun
    <2> QED
      BY <1>2, <2>1, RunStepBase DEF CreateRun, At, RunStates
  <1>3. CASE StartRun
    <2>1. exec.pc = "created" /\ exec.k \in 1..Len(StageOrder)
      BY <1>3 DEF StartRun, At, Base, Located
    <2> QED
      BY <1>3, <2>1, RunStepBase DEF StartRun, RunStates
  <1>4. CASE RecordNotConfigured
    <2>1. exec.pc = "created" /\ exec.k \in 1..Len(StageOrder)
      BY <1>4 DEF RecordNotConfigured, At, Base, Located
    <2> QED
      BY <1>4, <2>1, RunStepBase DEF RecordNotConfigured, RunStates
  <1>5. CASE CommitStage
    <2>1. exec.pc = "running" /\ exec.k \in 1..Len(StageOrder)
      BY <1>5 DEF CommitStage, At, Base, Located
    <2> QED
      BY <1>5, <2>1, RunStepBase DEF CommitStage, RunStates
  <1>6. CASE RecordFailed
    <2>1. exec.pc \in {"created", "running", "reserved"} /\ exec.k \in 1..Len(StageOrder)
      BY <1>6 DEF RecordFailed, At, Base, Located
    <2> QED
      BY <1>6, <2>1, RunStepBase DEF RecordFailed, RunStates
  <1>7. CASE ReserveText
    <2>1. J \in JobIds /\ J \in 1..count
      BY <1>7, BoundIsNat DEF ReserveText, At, J, Base, TypeOK, ExecOwns, JobIds
    <2>2. inputs' \in [JobIds -> [Semantic -> Gens]]
      BY <1>7, <2>1, SelectedType DEF ReserveText, Base, TypeOK
    <2> QED
      BY <1>7, <2>2
         DEF ReserveText, At, GoTo, Base, TypeOK, Rows, Located, ExecOwns, Stage,
             Pcs, Working
  <1>8. CASE CommitText
    <2>1. exec.pc = "reserved" /\ exec.k \in 1..Len(StageOrder)
      BY <1>8 DEF CommitText, At, Base, Located
    <2> QED
      BY <1>8, <2>1, RunStepBase DEF CommitText, RunStates
  <1>9. CASE Complete
    <2> DEFINE row == [job[J] EXCEPT !.state = "complete"]
    <2>1. J \in JobIds /\ J \in 1..count
      BY <1>9, BoundIsNat DEF Complete, At, J, Base, TypeOK, ExecOwns, JobIds
    <2>2. row \in JobRow
      BY <2>1, RowUpdate DEF Base, TypeOK, States
    <2>3. Updates(J, row) /\ Save(J, row)
      BY <1>9, <2>1, <2>2 DEF Complete, Save, Updates, Base, TypeOK, JobRow, States
    <2>4. job' \in [JobIds -> JobRow] /\ count' \in 0..MaxJobs /\ Rows'
      BY <2>3, UpdateKeepsRows
    <2>5. status' \in [Videos -> VideoStates]
      BY <2>1, <2>2, <2>3, SaveType, UpdateKeepsRows DEF Base
    <2>6. active' \in [Videos -> [Stages -> Gens]]
      BY <1>9, <2>1, SelectedType DEF Complete, Base, TypeOK
    <2> QED
      BY <1>9, <2>4, <2>5, <2>6, BoundIsNat, StageFacts
         DEF Complete, Base, TypeOK, Located, ExecOwns, Idle, Pcs, Gens
  <1>10. CASE Decide
    BY <1>0, <1>10, MoveBase DEF Decide, GoTo
  <1>11. CASE FailOwned
    BY <1>11, EndBase DEF FailOwned, At
  <1>12. CASE CancelOwned
    BY <1>12, EndBase DEF CancelOwned
  <1>13. CASE TerminalizationLost
    BY <1>0, <1>13, MoveBase DEF TerminalizationLost
  <1>14. CASE Abort
    BY <1>0, <1>14, MoveBase DEF Abort, Working
  <1>15. CASE TerminalizationFails
    <2>1. J \in JobIds
      BY <1>15, BoundIsNat DEF TerminalizationFails, Base, TypeOK, ExecOwns, J, JobIds
    <2> QED
      BY <1>0, <1>15, <2>1, MoveBase DEF TerminalizationFails
  <1> QED
    BY <1>1, <1>2, <1>3, <1>4, <1>5, <1>6, <1>7, <1>8, <1>9, <1>10, <1>11, <1>12,
       <1>13, <1>14, <1>15 DEF Executes

LEMMA StutterBase == Base /\ UNCHANGED vars => Base'
  BY DEF vars, dbVars, Base, TypeOK, Rows, Located, ExecOwns, Stage

LEMMA BaseInvariant == Spec => []Base
  <1>1. Base /\ [Next]_vars => Base'
    BY HandlersBase, RecoveryBase, LifeBase, ClaimsBase, ExecutesBase, StutterBase
       DEF Next
  <1> QED
    BY <1>1, InitBase, PTL DEF Spec

\* Every variable keeps its type whatever the sizes: in particular the
\* dispatcher never runs past the last stage, and a row inserted by a handler
\* or by recovery is always a well-formed job.
THEOREM TypeCorrect == Spec => []TypeOK
  BY BaseInvariant, PTL DEF Base

-----------------------------------------------------------------------------
(* History: no step touches a row that has ended *)

Untouched ==
    \A j \in JobIds : job[j].state \in Terminal =>
        job'[j] = job[j] /\ run'[j] = run[j] /\ inputs'[j] = inputs[j]

\* Row count + 1 is blank, so to fill it touches no history.
LEMMA NextRowBlank ==
    ASSUME Base, count + 1 \in JobIds
    PROVE  job[count + 1].state \notin Terminal
  BY BoundIsNat DEF Base, TypeOK, Rows, JobIds, NoRow, None, Terminal

LEMMA InHandRunning ==
    ASSUME Base, exec.pc # "idle"
    PROVE  J \in JobIds /\ J \in 1..count /\ job[J].state = "running"
  BY BoundIsNat DEF Base, TypeOK, ExecOwns, J, JobIds

LEMMA HistoryStep == Base /\ [Next]_vars => Untouched
  <1> SUFFICES ASSUME Base, [Next]_vars PROVE Untouched
    OBVIOUS
  <1> USE DEF Terminal
  <1>1. ASSUME NEW row, Insert(row), UNCHANGED <<run, inputs>>
        PROVE  Untouched
    <2>1. count + 1 \in JobIds
      BY <1>1, BoundIsNat DEF Insert, Base, TypeOK, JobIds
    <2>2. job' = [job EXCEPT ![count + 1] = row]
      BY <1>1 DEF Insert, Save
    <2>3. \A i \in JobIds \ {count + 1} : job'[i] = job[i]
      BY <2>2 DEF Base, TypeOK
    <2> QED
      BY <1>1, <2>1, <2>3, NextRowBlank DEF Untouched
  <1>2. CASE \E v \in Videos, p \in Plans : CreateIngest(v, p) \/ EnqueueReindex(v, p)
    BY <1>2, <1>1 DEF CreateIngest, EnqueueReindex
  <1>3. ASSUME NEW j \in JobIds, CancelQueued(j)
        PROVE  Untouched
    BY <1>3 DEF CancelQueued, Save, Untouched, Base, TypeOK
  <1>4. ASSUME NEW j \in JobIds, CancelRunning(j)
        PROVE  Untouched
    BY <1>4 DEF CancelRunning, Untouched, Base, TypeOK
  <1>5. ASSUME NEW j \in JobIds, Retry(j)
        PROVE  Untouched
    BY <1>5, <1>1 DEF Retry
  <1>6. ASSUME NEW j \in JobIds, RecoverCancelled(j)
        PROVE  Untouched
    BY <1>6 DEF RecoverCancelled, Oldest, Abandoned, Save, Untouched, Base, TypeOK
  <1>7. ASSUME NEW j \in JobIds, RecoverAbandoned(j)
        PROVE  Untouched
    <2>1. /\ count + 1 \in JobIds /\ job[j].state = "running"
          /\ \A i \in JobIds \ {j, count + 1} :
                job'[i] = job[i] /\ run'[i] = run[i] /\ inputs'[i] = inputs[i]
      BY <1>7, BoundIsNat DEF RecoverAbandoned, Oldest, Abandoned, Base, TypeOK, JobIds
    <2> QED
      BY <2>1, NextRowBlank DEF Untouched
  <1>8. ASSUME NEW j \in JobIds, Claim(j)
        PROVE  Untouched
    BY <1>8 DEF Claim, Scanned, Claimable, Save, Untouched, Base, TypeOK
  <1>9. ASSUME exec.pc # "idle",
               \A i \in JobIds \ {J} :
                   job'[i] = job[i] /\ run'[i] = run[i] /\ inputs'[i] = inputs[i]
        PROVE  Untouched
    BY <1>9, InHandRunning DEF Untouched
  <1>10. CASE Executes \/ Abort \/ TerminalizationFails
    <2>1. exec.pc # "idle"
      BY <1>10
         DEF Executes, Abort, Working, LoadContext, CreateRun, StartRun,
             RecordNotConfigured, CommitStage, RecordFailed, ReserveText, CommitText,
             Complete, Decide, FailOwned, CancelOwned, TerminalizationLost,
             TerminalizationFails, At
    <2>2. CASE LoadContext \/ Decide \/ TerminalizationLost \/ TerminalizationFails \/ Abort
      BY <2>1, <2>2, <1>9
         DEF LoadContext, Decide, TerminalizationLost, TerminalizationFails, Abort, dbVars
    <2>3. CASE CreateRun \/ StartRun \/ RecordNotConfigured \/ CommitStage
               \/ RecordFailed \/ CommitText
      <3>1. OnlyRunMoves /\ \E st \in RunStates : SetRun(st)
        BY <2>3
           DEF CreateRun, StartRun, RecordNotConfigured, CommitStage, RecordFailed,
               CommitText, RunStates
      <3> QED
        BY <2>1, <3>1, <1>9 DEF OnlyRunMoves, SetRun, Base, TypeOK
    <2>4. CASE ReserveText
      BY <2>1, <2>4, <1>9 DEF ReserveText, Base, TypeOK
    <2>5. CASE Complete
      BY <2>1, <2>5, <1>9 DEF Complete, Save, Base, TypeOK
    <2>6. CASE FailOwned \/ CancelOwned
      <3>1. \E outcome \in {"failed", "cancelled"} : EndAs(outcome)
        BY <2>6 DEF FailOwned, CancelOwned
      <3> QED
        BY <2>1, <3>1, <1>9 DEF EndAs, Save, Base, TypeOK
    <2> QED
      BY <1>10, <2>2, <2>3, <2>4, <2>5, <2>6 DEF Executes
  <1>11. CASE Start \/ Stopped \/ Environment \/ ClaimNone \/ Serve
              \/ (\E j \in JobIds : RecoverDamaged(j)) \/ UNCHANGED vars
    BY <1>11
       DEF Start, Stopped, Environment, Stop, Crash, Damage, ClaimNone, Serve,
           RecoverDamaged, dbVars, vars, Untouched
  <1> QED
    BY <1>2, <1>3, <1>4, <1>5, <1>6, <1>7, <1>8, <1>10, <1>11
       DEF Next, Handlers, Recovery, Claims

\* Ended attempts are history, in every execution: the row, the stage runs
\* and the embedded inputs of a complete, failed or cancelled job never
\* change, whatever the handlers, recovery or a late dispatcher do.
THEOREM HistoryImmutable == Spec => TerminalImmutable
  <1>1. Base /\ [Next]_vars =>
          [\A j \in JobIds : job[j].state \in Terminal =>
             job'[j] = job[j] /\ run'[j] = run[j] /\ inputs'[j] = inputs[j]]_vars
    BY HistoryStep DEF Untouched
  <1> QED
    BY <1>1, BaseInvariant, PTL DEF Spec, TerminalImmutable

-----------------------------------------------------------------------------
(* Attempts on one video do not overlap *)

\* A step appends no row and gives no row another video.
SameRows ==
    count' = count /\ \A j \in 1..count : job'[j].video = job[j].video

LEMMA UpdateSameRows ==
    ASSUME Base, NEW j \in JobIds, NEW row, row.video = job[j].video, count' = count,
           job' = [job EXCEPT ![j] = row]
    PROVE  SameRows
  BY BoundIsNat DEF SameRows, Base, TypeOK, JobIds

\* Handlers append through Insert, recovery appends the child of the attempt
\* it fails, and every other step keeps the rows.
LEMMA RowSteps ==
    ASSUME Base, [Next]_vars
    PROVE  \/ SameRows
           \/ \E row \in JobRow : row.video \in Videos /\ Insert(row)
           \/ \E j \in JobIds : RecoverAbandoned(j)
  <1> DEFINE Inserts == \E row \in JobRow : row.video \in Videos /\ Insert(row)
  <1>0. \A j \in JobIds : job[j] \in JobRow
    BY DEF Base, TypeOK
  <1>1. ASSUME NEW v \in Videos, NEW p \in Plans, CreateIngest(v, p)
        PROVE  Inserts
    BY <1>1, NewJobType DEF CreateIngest, VideoStates
  <1>2. ASSUME NEW v \in Videos, NEW p \in Plans, EnqueueReindex(v, p)
        PROVE  Inserts
    <2>1. status[v] \in VideoStates
      BY DEF Base, TypeOK
    <2> QED
      BY <1>2, <2>1, NewJobType DEF EnqueueReindex
  <1>3. ASSUME NEW j \in JobIds, Retry(j)
        PROVE  Inserts
    <2>1. j \in 1..count
      BY <1>3, HasState DEF Retry, States
    <2>2. job[j].video \in Videos
      BY <2>1 DEF Base, Rows
    <2> QED
      BY <1>3, <2>2, RetryType DEF Retry, Base
  <1>4. ASSUME NEW j \in JobIds, CancelQueued(j) \/ RecoverCancelled(j) \/ Claim(j)
        PROVE  SameRows
    <2>1. \E row : row.video = job[j].video /\ job' = [job EXCEPT ![j] = row]
      BY <1>0, <1>4 DEF CancelQueued, RecoverCancelled, Claim, Save, JobRow
    <2> QED
      BY <1>4, <2>1, UpdateSameRows DEF CancelQueued, RecoverCancelled, Claim
  <1>5. ASSUME NEW j \in JobIds, CancelRunning(j)
        PROVE  SameRows
    BY <1>0, <1>5, BoundIsNat DEF CancelRunning, SameRows, Base, TypeOK, JobIds, JobRow
  <1>6. CASE Complete \/ FailOwned \/ CancelOwned
    <2>1. J \in JobIds
      BY <1>6, InHandRunning DEF Complete, FailOwned, CancelOwned, At
    <2>2. \E row : row.video = job[J].video /\ job' = [job EXCEPT ![J] = row]
      BY <1>0, <1>6, <2>1 DEF Complete, FailOwned, CancelOwned, EndAs, Save, JobRow
    <2>3. count' = count
      BY <1>6 DEF Complete, FailOwned, CancelOwned, EndAs
    <2> QED
      BY <2>1, <2>2, <2>3, UpdateSameRows
  <1>7. CASE LoadContext \/ CreateRun \/ StartRun \/ RecordNotConfigured \/ CommitStage
             \/ RecordFailed \/ ReserveText \/ CommitText \/ Decide
             \/ TerminalizationLost \/ TerminalizationFails \/ Abort
    BY <1>7
       DEF LoadContext, CreateRun, StartRun, RecordNotConfigured, CommitStage,
           RecordFailed, ReserveText, CommitText, Decide, TerminalizationLost,
           TerminalizationFails, Abort,
           OnlyRunMoves, dbVars, SameRows
  <1>8. CASE Start \/ Stopped \/ Environment \/ ClaimNone \/ Serve
             \/ (\E j \in JobIds : RecoverDamaged(j)) \/ UNCHANGED vars
    BY <1>8
       DEF Start, Stopped, Environment, Stop, Crash, Damage, ClaimNone, Serve,
           RecoverDamaged, dbVars, vars, SameRows
  <1> QED
    BY <1>1, <1>2, <1>3, <1>4, <1>5, <1>6, <1>7, <1>8
       DEF Next, Handlers, Recovery, Claims, Executes

LEMMA InitSequential == Init => SequentialAttempts
  BY DEF Init, SequentialAttempts

LEMMA SequentialStep == Base /\ SequentialAttempts /\ [Next]_vars => SequentialAttempts'
  <1> SUFFICES ASSUME Base, SequentialAttempts, [Next]_vars,
                      NEW i \in 1..count', NEW k \in 1..count', i < k,
                      job'[i].video = job'[k].video
               PROVE  job'[i].state \in Terminal
    BY DEF SequentialAttempts
  <1>0. /\ count \in Nat /\ 1..count \subseteq JobIds
        /\ \A j \in 1..count : job[j].state \in Terminal => job'[j] = job[j]
    BY HistoryStep, BoundIsNat DEF Untouched, Base, TypeOK, JobIds
  <1>1. CASE SameRows
    BY <1>0, <1>1 DEF SameRows, SequentialAttempts
  <1>2. ASSUME NEW row \in JobRow, row.video \in Videos, Insert(row)
        PROVE  job'[i].state \in Terminal
    <2>1. /\ count' = count + 1 /\ count + 1 \in JobIds
          /\ job' = [job EXCEPT ![count + 1] = row]
      BY <1>2, BoundIsNat DEF Insert, Save, Base, TypeOK, JobIds
    <2>2. i \in 1..count /\ job'[i] = job[i]
      BY <1>0, <2>1 DEF Base, TypeOK
    <2>3. CASE k \in 1..count
      <3>1. job'[k] = job[k]
        BY <1>0, <2>1, <2>3 DEF Base, TypeOK
      <3> QED
        BY <2>2, <2>3, <3>1 DEF SequentialAttempts
    <2>4. CASE k = count + 1
      <3>1. job[i].video = row.video
        BY <2>1, <2>2, <2>4 DEF Base, TypeOK
      <3>2. ~Active(i)
        BY <1>0, <1>2, <2>2, <3>1 DEF Insert, ActiveOn
      <3> QED
        BY <2>2, <3>2 DEF Active, Base, Rows, States, Terminal
    <2> QED
      BY <1>0, <2>1, <2>3, <2>4
  <1>3. ASSUME NEW j \in JobIds, RecoverAbandoned(j)
        PROVE  job'[i].state \in Terminal
    <2>1. job[j].state = "running" /\ j \in 1..count
      BY <1>3, HasState DEF RecoverAbandoned, Oldest, Abandoned, States
    <2>2. /\ count' = count + 1 /\ count + 1 \in JobIds /\ j # count + 1
          /\ job'[j] = [job[j] EXCEPT !.state = "failed"]
          /\ job'[count + 1] = RetryOf(j)
          /\ \A x \in JobIds \ {j, count + 1} : job'[x] = job[x]
      <3>1. count' = count + 1 /\ count + 1 \in JobIds /\ j # count + 1
        BY <1>0, <1>3, <2>1, BoundIsNat DEF RecoverAbandoned, JobIds
      <3>2. job' = [job EXCEPT ![j].state = "failed", ![count + 1] = RetryOf(j)]
        BY <1>3 DEF RecoverAbandoned
      <3> QED
        BY <3>1, <3>2 DEF Base, TypeOK
    <2>3. job'[j].state = "failed" /\ job'[j].video = job[j].video
          /\ job'[count + 1].video = job[j].video
      BY <1>0, <2>1, <2>2, RetryType DEF Base, TypeOK, JobRow
    <2>4. i \in 1..count
      BY <1>0, <2>2
    <2>5. CASE i = j
      BY <2>3, <2>5 DEF Terminal
    <2>6. CASE i # j
      <3>1. job'[i] = job[i]
        BY <1>0, <2>2, <2>4, <2>6
      <3>2. CASE k \in 1..count /\ k # j
        BY <1>0, <2>2, <2>4, <3>1, <3>2 DEF SequentialAttempts
      <3>3. CASE k = j
        BY <2>1, <2>3, <2>4, <3>1, <3>3 DEF SequentialAttempts
      <3>4. CASE k = count + 1
        \* Rows i and j are of one video and j runs, so i is the earlier one.
        <4>1. job[i].video = job[j].video
          BY <2>3, <3>1, <3>4
        <4>2. i < j
          <5>1. ~(j < i)
            BY <2>1, <2>4, <4>1 DEF SequentialAttempts, Terminal
          <5> QED
            BY <1>0, <2>1, <2>4, <2>6, <5>1
        <4> QED
          BY <2>1, <2>4, <3>1, <4>1, <4>2 DEF SequentialAttempts
      <3> QED
        BY <1>0, <2>2, <3>2, <3>3, <3>4
    <2> QED
      BY <2>5, <2>6
  <1> QED
    BY <1>1, <1>2, <1>3, RowSteps

\* Two attempts on one video are never unfinished at the same time, across
\* handlers, retries by users, startup recovery and any number of restarts.
THEOREM AttemptsAreSequential == Spec => []SequentialAttempts
  BY InitSequential, SequentialStep, BaseInvariant, PTL DEF Spec

-----------------------------------------------------------------------------
(* The release that search reads *)

\* The three parts of CoherentRelease, for one video.
Backed(v) ==
    \A s \in Stages : active[v][s] # 0 =>
        /\ Released(active[v][s]) /\ job[active[v][s]].video = v
        /\ Staged(active[v][s], s)

OfOnePlan(v) ==
    \E p \in Plans : \A s \in Stages : active[v][s] # 0 =>
        SpecOf[job[active[v][s]].plan][s] = SpecOf[p][s]

Embeds(v) ==
    active[v]["text_vectors"] # 0 =>
        inputs[active[v]["text_vectors"]] = [s \in Semantic |-> active[v][s]]

LEMMA CoherentParts ==
    CoherentRelease <=> \A v \in Videos : Backed(v) /\ OfOnePlan(v) /\ Embeds(v)
  BY DEF CoherentRelease, Backed, OfOnePlan, Embeds

\* Where the generations of the release of job j come from.
LEMMA ReleaseOrigin ==
    ASSUME NEW j \in JobIds, NEW s \in Stages
    PROVE  /\ ReleaseOf(j)[s] # 0 =>
                \/ ReleaseOf(j)[s] = j /\ Staged(j, s)
                \/ ReleaseOf(j)[s] = active[job[j].video][s] /\ Retainable(j, s)
           /\ s \in Semantic => ReleaseOf(j)[s] = Selected(j, s)
  BY StageFacts DEF ReleaseOf, SelectedText, Selected

\* The vectors of the release of job j embed the segments of that release.
LEMMA ReleaseEmbeds ==
    ASSUME NEW j \in JobIds, ReleaseOf(j)["text_vectors"] # 0,
           Staged(j, "text_vectors") => inputs[j] = TextInputs(j)
    PROVE  inputs[ReleaseOf(j)["text_vectors"]] = [s \in Semantic |-> ReleaseOf(j)[s]]
  <1>1. TextInputs(j) = [s \in Semantic |-> ReleaseOf(j)[s]]
    BY ReleaseOrigin, StageFacts DEF TextInputs
  <1>2. ReleaseOf(j)["text_vectors"] = SelectedText(j)
    BY StageFacts DEF ReleaseOf
  <1>3. inputs[SelectedText(j)] = TextInputs(j)
    BY <1>2 DEF SelectedText
  <1> QED
    BY <1>1, <1>2, <1>3

LEMMA OnlyCompleteReleases == [Next]_vars => active' = active \/ Complete
  BY DEF Next, vars, dbVars, Handlers, CreateIngest, EnqueueReindex, CancelQueued,
         CancelRunning, Retry, Start, Stopped, Recovery, RecoverDamaged,
         RecoverCancelled, RecoverAbandoned, Serve, Claims, ClaimNone, Claim, Executes,
         LoadContext, CreateRun, StartRun, RecordNotConfigured, CommitStage,
         RecordFailed, ReserveText, CommitText, Decide, FailOwned, CancelOwned,
         TerminalizationLost, TerminalizationFails, EndAs, OnlyRunMoves, Abort,
         Environment, Stop, Crash, Damage

\* What a completion does to the job in hand and to the releases.
LEMMA CompleteEffect ==
    ASSUME Base, Complete
    PROVE  /\ J \in JobIds /\ J # 0 /\ J \in 1..count
           /\ job[J].state = "running" /\ ~job[J].cancel /\ job[J].video \in Videos
           /\ job'[J].state = "complete" /\ job'[J].video = job[J].video
           /\ job'[J].plan = job[J].plan
           /\ active'[job[J].video] = ReleaseOf(J)
           /\ \A w \in Videos : w # job[J].video => active'[w] = active[w]
           /\ run' = run /\ inputs' = inputs
  <1>1. J \in JobIds /\ J # 0 /\ J \in 1..count
    BY InHandRunning, BoundIsNat DEF Complete, At, JobIds
  <1>2. job[J].video \in Videos /\ job[J] \in JobRow
    BY <1>1 DEF Base, TypeOK, Rows
  <1>3. job'[J] = [job[J] EXCEPT !.state = "complete"]
    BY <1>1 DEF Complete, Save, Base, TypeOK
  <1>4. job'[J].state = "complete" /\ job'[J].video = job[J].video
        /\ job'[J].plan = job[J].plan
    BY <1>2, <1>3 DEF JobRow
  <1>5. /\ active'[job[J].video] = ReleaseOf(J)
        /\ \A w \in Videos : w # job[J].video => active'[w] = active[w]
    BY <1>2 DEF Complete, Base, TypeOK
  <1> QED
    BY <1>1, <1>2, <1>4, <1>5 DEF Complete, At, Fence

LEMMA InitCoherent == Init => CoherentRelease
  BY StageFacts, ConstantsAssumption DEF Init, CoherentRelease, ConstantsAssumption

\* A release that a step does not select stays coherent: history is immutable.
LEMMA UnselectedCoherent ==
    ASSUME Base, Untouched, NEW v \in Videos, active'[v] = active[v],
           Backed(v), OfOnePlan(v), Embeds(v)
    PROVE  Backed(v)' /\ OfOnePlan(v)' /\ Embeds(v)'
  <1>1. \A s \in Stages : active[v][s] # 0 =>
          /\ active[v][s] \in JobIds
          /\ job'[active[v][s]] = job[active[v][s]]
          /\ run'[active[v][s]] = run[active[v][s]]
          /\ inputs'[active[v][s]] = inputs[active[v][s]]
    <2>1. ASSUME NEW s \in Stages, active[v][s] # 0
          PROVE  active[v][s] \in JobIds /\ job[active[v][s]].state \in Terminal
      BY <2>1, BoundIsNat
         DEF Backed, Released, Terminal, Base, TypeOK, Gens, JobIds
    <2> QED
      BY <2>1 DEF Untouched
  <1>2. Backed(v)'
    BY <1>1 DEF Backed, Released, Staged
  <1>3. OfOnePlan(v)'
    BY <1>1 DEF OfOnePlan
  <1>4. Embeds(v)'
    BY <1>1, StageFacts DEF Embeds
  <1> QED
    BY <1>2, <1>3, <1>4

\* The release that a completion selects is coherent.
LEMMA SelectedCoherent ==
    ASSUME Base, Untouched, Complete, NEW v \in Videos, v = job[J].video, Backed(v)
    PROVE  Backed(v)' /\ OfOnePlan(v)' /\ Embeds(v)'
  <1> DEFINE r == ReleaseOf(J)
  <1>0. /\ J \in JobIds /\ J # 0 /\ J \in 1..count /\ v \in Videos
        /\ job'[J].state = "complete" /\ job'[J].video = v /\ job'[J].plan = job[J].plan
        /\ active'[v] = r /\ run' = run /\ inputs' = inputs
    BY CompleteEffect
  <1>1. ASSUME NEW s \in Stages, r[s] # 0
        PROVE  /\ job'[r[s]].state = "complete" /\ job'[r[s]].video = v
               /\ run'[r[s]][s] = "complete"
               /\ SpecOf[job'[r[s]].plan][s] = SpecOf[job[J].plan][s]
    <2>1. CASE r[s] = J /\ Staged(J, s)
      BY <1>0, <2>1 DEF Staged
    <2>2. CASE r[s] = active[v][s] /\ Retainable(J, s)
      <3>1. active[v][s] \in JobIds
        BY <1>0, <1>1, <2>2, BoundIsNat DEF Base, TypeOK, Gens, JobIds
      <3>2. job[active[v][s]].state \in Terminal
        BY <2>2 DEF Retainable, Released, Terminal
      <3>3. job'[active[v][s]] = job[active[v][s]]
        BY <3>1, <3>2 DEF Untouched
      <3> QED
        BY <1>0, <1>1, <2>2, <3>3 DEF Backed, Retainable, Released, Staged
    <2> QED
      BY <1>0, <1>1, <2>1, <2>2, ReleaseOrigin
  <1>2. Backed(v)'
    BY <1>0, <1>1 DEF Backed, Released, Staged
  <1>3. OfOnePlan(v)'
    <2>1. job[J].plan \in Plans
      BY <1>0 DEF Base, Rows
    <2> QED
      BY <1>0, <1>1, <2>1 DEF OfOnePlan
  <1>4. Embeds(v)'
    <2>1. Staged(J, "text_vectors") => inputs[J] = TextInputs(J)
      BY DEF Complete
    <2> QED
      BY <1>0, <2>1, ReleaseEmbeds DEF Embeds
  <1> QED
    BY <1>2, <1>3, <1>4

LEMMA CoherentStep == Base /\ CoherentRelease /\ [Next]_vars => CoherentRelease'
  <1> SUFFICES ASSUME Base, CoherentRelease, [Next]_vars, NEW v \in Videos
               PROVE  Backed(v)' /\ OfOnePlan(v)' /\ Embeds(v)'
    BY DEF CoherentRelease, Backed, OfOnePlan, Embeds
  <1>1. Untouched /\ Backed(v) /\ OfOnePlan(v) /\ Embeds(v)
    BY HistoryStep, CoherentParts
  <1>2. CASE active'[v] = active[v]
    BY <1>1, <1>2, UnselectedCoherent
  <1>3. CASE active'[v] # active[v]
    <2>1. Complete /\ v = job[J].video
      BY <1>3, OnlyCompleteReleases, CompleteEffect
    <2> QED
      BY <1>1, <2>1, SelectedCoherent
  <1> QED
    BY <1>2, <1>3

\* What search reads is one release of one plan whose vectors embed exactly
\* its segments, for every stage order and any number of attempts and plans.
THEOREM ReleaseIsCoherent == Spec => []CoherentRelease
  BY InitCoherent, CoherentStep, BaseInvariant, PTL DEF Spec

LEMMA ReleaseStep ==
    Base /\ CoherentRelease /\ [Next]_vars => \A v \in Videos : ReleaseChange(v)
  <1> SUFFICES ASSUME Base, CoherentRelease, [Next]_vars, NEW v \in Videos,
                      active'[v] # active[v]
               PROVE  ReleaseChange(v)
    BY DEF ReleaseChange
  <1> DEFINE r == ReleaseOf(J)
  <1>1. Complete
    BY OnlyCompleteReleases
  <1>2. /\ J \in JobIds /\ J # 0 /\ J \in 1..count /\ v = job[J].video /\ active'[v] = r
        /\ job[J].state = "running" /\ ~job[J].cancel /\ job'[J].state = "complete"
    BY <1>1, CompleteEffect
  <1>3. Backed(v) /\ Embeds(v)
    BY CoherentParts
  <1>4. ASSUME NEW s \in Stages, active[v][s] # 0, r[s] = 0
        PROVE  \/ SpecOf[job[active[v][s]].plan][s] # SpecOf[job[J].plan][s]
               \/ s = "text_vectors" /\ \E x \in Semantic : active'[v][x] # active[v][x]
    <2>1. Released(active[v][s])
      BY <1>3, <1>4 DEF Backed
    <2>2. CASE s # "text_vectors"
      <3>1. Selected(J, s) = 0
        BY <1>4, <2>2 DEF ReleaseOf
      <3>2. ~Retainable(J, s)
        BY <1>2, <1>4, <3>1 DEF Selected
      <3> QED
        BY <1>2, <2>1, <3>2 DEF Retainable
    <2>3. CASE s = "text_vectors"
      <3>1. SelectedText(J) = 0
        BY <1>4, <2>3 DEF ReleaseOf
      <3>2. \/ ~Retainable(J, "text_vectors")
            \/ inputs[active[v]["text_vectors"]] # TextInputs(J)
        BY <1>2, <1>4, <2>3, <3>1 DEF SelectedText
      <3>3. CASE ~Retainable(J, "text_vectors")
        BY <1>2, <2>1, <2>3, <3>3 DEF Retainable
      <3>4. CASE inputs[active[v]["text_vectors"]] # TextInputs(J)
        <4>1. [x \in Semantic |-> active[v][x]] # [x \in Semantic |-> r[x]]
          <5>1. TextInputs(J) = [x \in Semantic |-> r[x]]
            BY <1>2, ReleaseOrigin, StageFacts DEF TextInputs
          <5> QED
            BY <1>3, <1>4, <2>3, <3>4, <5>1 DEF Embeds
        <4>2. \E x \in Semantic : active[v][x] # r[x]
          BY <4>1
        <4> QED
          BY <1>2, <2>3, <4>2
      <3> QED
        BY <3>2, <3>3, <3>4
    <2> QED
      BY <2>2, <2>3
  <1>5. \A s \in Stages : active[v][s] # 0 /\ active'[v][s] = 0 =>
          \/ SpecOf[job[active[v][s]].plan][s] # SpecOf[job[J].plan][s]
          \/ s = "text_vectors" /\ \E x \in Semantic : active'[v][x] # active[v][x]
    BY <1>2, <1>4
  <1> QED
    BY <1>2, <1>5 DEF ReleaseChange

\* Cancellation, failure, crash and recovery leave every release alone: only
\* the completion of an attempt that nobody asked to stop replaces one, and it
\* drops no generation that its plan still admits.
THEOREM ReleaseChangesByCompletion == Spec => ReleaseOnlyByCompletion
  <1>1. Spec => []CoherentRelease
    BY ReleaseIsCoherent
  <1>2. Base /\ CoherentRelease /\ [Next]_vars => [\A v \in Videos : ReleaseChange(v)]_vars
    BY ReleaseStep
  <1> QED
    BY <1>1, <1>2, BaseInvariant, PTL DEF Spec, ReleaseOnlyByCompletion

-----------------------------------------------------------------------------
(* What a step does to the job table *)

SameAttempt(old, new) ==
    /\ new.video = old.video /\ new.intent = old.intent /\ new.plan = old.plan
    /\ new.retryOf = old.retryOf /\ new.prior = old.prior

\* An unfinished row j is claimed or ends; row is what it becomes.
Turns(j, row) ==
    /\ j \in 1..count /\ j \in JobIds /\ Active(j)
    /\ row \in JobRow /\ SameAttempt(job[j], row)
    /\ count' = count /\ job' = [job EXCEPT ![j] = row]
    /\ status' = [status EXCEPT ![row.video] = Projection(row)]
    /\ \/ row.state = "running" /\ row.cancel = job[j].cancel
       \/ /\ row.state \in {"complete", "failed"} /\ ~row.cancel
       \/ row.state = "cancelled" /\ row.cancel
    /\ row.state \in Terminal =>
          \A s \in Stages : run'[j][s] \notin {"queued", "running"}
    /\ row.state = "complete" => \A s \in Stages : run'[j][s] \in ReceiptStates

LEMMA Unfinished ==
    ASSUME NEW runs, NEW outcome \in {"failed", "cancelled"}
    PROVE  \A s \in Stages : EndRuns(runs, outcome)[s] \notin {"queued", "running"}
  BY DEF EndRuns

\* To end a row, to claim it or to ask it to stop leaves its identity alone.
LEMMA RowTurn ==
    ASSUME NEW row \in JobRow, NEW st \in States
    PROVE  LET new == [row EXCEPT !.state = st]
           IN  /\ new \in JobRow /\ SameAttempt(row, new)
               /\ new.state = st /\ new.cancel = row.cancel
  BY DEF JobRow, SameAttempt, States

LEMMA RowCancel ==
    ASSUME NEW row \in JobRow
    PROVE  /\ LET new == [row EXCEPT !.state = "cancelled", !.cancel = TRUE]
              IN  /\ new \in JobRow /\ SameAttempt(row, new)
                  /\ new.state = "cancelled" /\ new.cancel
           /\ LET new == [row EXCEPT !.cancel = TRUE]
              IN  SameAttempt(row, new) /\ new.state = row.state /\ new.cancel
  BY DEF JobRow, SameAttempt, States

LEMMA TurnSteps ==
    ASSUME Base,
           \/ \E j \in JobIds : CancelQueued(j) \/ RecoverCancelled(j) \/ Claim(j)
           \/ Complete \/ FailOwned \/ CancelOwned
    PROVE  \E j \in 1..count : \E row \in JobRow : Turns(j, row)
  <1>0. \A j \in JobIds : job[j] \in JobRow /\ run[j] \in [Stages -> RunStates]
    BY DEF Base, TypeOK
  <1>1. ASSUME NEW j \in JobIds, CancelQueued(j)
        PROVE  \E i \in 1..count : \E row \in JobRow : Turns(i, row)
    <2> DEFINE row == [job[j] EXCEPT !.state = "cancelled", !.cancel = TRUE]
    <2>1. j \in 1..count /\ Active(j)
      BY <1>1, HasState DEF CancelQueued, States, Active
    <2>2. row \in JobRow /\ SameAttempt(job[j], row) /\ row.state = "cancelled" /\ row.cancel
      BY <1>0, RowCancel
    <2>3. \A s \in Stages : run'[j][s] \notin {"queued", "running"}
      BY <1>1, Unfinished DEF CancelQueued, Base, TypeOK
    <2>4. Save(j, row) /\ count' = count
      BY <1>1 DEF CancelQueued
    <2> HIDE DEF row
    <2> QED
      BY <2>1, <2>2, <2>3, <2>4 DEF Turns, Save
  <1>2. ASSUME NEW j \in JobIds, RecoverCancelled(j)
        PROVE  \E i \in 1..count : \E row \in JobRow : Turns(i, row)
    <2> DEFINE row == [job[j] EXCEPT !.state = "cancelled"]
    <2>1. j \in 1..count /\ Active(j)
      BY <1>2, HasState DEF RecoverCancelled, Oldest, Abandoned, States, Active
    <2>2. /\ row \in JobRow /\ SameAttempt(job[j], row) /\ row.state = "cancelled"
          /\ row.cancel = job[j].cancel
      BY <1>0, RowTurn DEF States
    <2>5. job[j].cancel
      BY <1>2 DEF RecoverCancelled
    <2>3. \A s \in Stages : run'[j][s] \notin {"queued", "running"}
      BY <1>2, Unfinished DEF RecoverCancelled, Base, TypeOK
    <2>4. Save(j, row) /\ count' = count
      BY <1>2 DEF RecoverCancelled
    <2> HIDE DEF row
    <2> QED
      BY <2>1, <2>2, <2>3, <2>4, <2>5 DEF Turns, Save
  <1>3. ASSUME NEW j \in JobIds, Claim(j)
        PROVE  \E i \in 1..count : \E row \in JobRow : Turns(i, row)
    <2> DEFINE row == [job[j] EXCEPT !.state = "running"]
    <2>1. j \in 1..count /\ Active(j)
      BY <1>3, HasState DEF Claim, Scanned, Claimable, States, Active
    <2>2. /\ row \in JobRow /\ SameAttempt(job[j], row) /\ row.state = "running"
          /\ row.cancel = job[j].cancel
      BY <1>0, RowTurn DEF States
    <2>3. Save(j, row) /\ count' = count
      BY <1>3 DEF Claim
    <2> HIDE DEF row
    <2> QED
      BY <2>1, <2>2, <2>3 DEF Turns, Save, Terminal
  <1>4. CASE Complete
    <2> DEFINE row == [job[J] EXCEPT !.state = "complete"]
    <2>1. J \in 1..count /\ J \in JobIds /\ Active(J)
      BY <1>4, InHandRunning DEF Complete, At, Active
    <2>2. /\ row \in JobRow /\ SameAttempt(job[J], row) /\ row.state = "complete"
          /\ row.cancel = job[J].cancel
      BY <1>0, <2>1, RowTurn DEF States
    <2>5. ~job[J].cancel
      BY <1>4 DEF Complete, At, Fence
    <2>3. \A s \in Stages : run'[J][s] \in ReceiptStates
      BY <1>4 DEF Complete, ExactReceipts
    <2>4. Save(J, row) /\ count' = count
      BY <1>4 DEF Complete
    <2> HIDE DEF row
    <2> QED
      BY <2>1, <2>2, <2>3, <2>4, <2>5 DEF Turns, Save, ReceiptStates
  <1>5. CASE FailOwned \/ CancelOwned
    <2>1. PICK outcome \in {"failed", "cancelled"} :
             /\ EndAs(outcome)
             /\ outcome = "failed" => ~job[J].cancel
             /\ outcome = "cancelled" => job[J].cancel
      BY <1>5 DEF FailOwned, CancelOwned, At, Fence
    <2> DEFINE row == [job[J] EXCEPT !.state = outcome]
    <2>2. J \in 1..count /\ J \in JobIds /\ Active(J)
      BY <1>5, InHandRunning DEF FailOwned, CancelOwned, At, Active
    <2>3. /\ row \in JobRow /\ SameAttempt(job[J], row) /\ row.state = outcome
          /\ row.cancel = job[J].cancel
      <3>1. outcome \in States /\ job[J] \in JobRow
        BY <1>0, <2>2 DEF States
      <3> QED
        BY <3>1, RowTurn
    <2>4. \A s \in Stages : run'[J][s] \notin {"queued", "running"}
      BY <2>1, <2>2, Unfinished DEF EndAs, Base, TypeOK
    <2>5. Save(J, row) /\ count' = count
      BY <2>1 DEF EndAs
    <2> HIDE DEF row
    <2>6. Turns(J, row)
      BY <2>1, <2>2, <2>3, <2>4, <2>5 DEF Turns, Save
    <2> QED
      BY <2>2, <2>3, <2>6
  <1> QED
    BY <1>1, <1>2, <1>3, <1>4, <1>5

LEMMA StepKinds ==
    ASSUME Base, [Next]_vars
    PROVE  \/ UNCHANGED <<job, count, status>>
           \/ \E v \in Videos, p \in Plans : CreateIngest(v, p) \/ EnqueueReindex(v, p)
           \/ \E j \in JobIds : Retry(j) \/ CancelRunning(j) \/ RecoverAbandoned(j)
           \/ \E j \in 1..count : \E row \in JobRow : Turns(j, row)
  <1>1. CASE LoadContext \/ CreateRun \/ StartRun \/ RecordNotConfigured \/ CommitStage
             \/ RecordFailed \/ ReserveText \/ CommitText \/ Decide
             \/ TerminalizationLost \/ TerminalizationFails \/ Abort
    BY <1>1
       DEF LoadContext, CreateRun, StartRun, RecordNotConfigured, CommitStage,
           RecordFailed, ReserveText, CommitText, Decide, TerminalizationLost,
           TerminalizationFails, Abort,
           OnlyRunMoves, dbVars
  <1>2. CASE Start \/ Stopped \/ Environment \/ ClaimNone \/ Serve
             \/ (\E j \in JobIds : RecoverDamaged(j)) \/ UNCHANGED vars
    BY <1>2
       DEF Start, Stopped, Environment, Stop, Crash, Damage, ClaimNone, Serve,
           RecoverDamaged, dbVars, vars
  <1> QED
    BY <1>1, <1>2, TurnSteps DEF Next, Handlers, Recovery, Claims, Executes

\* The one row that turns, and the others.
LEMMA TurnRows ==
    ASSUME Base, NEW j, NEW row, Turns(j, row)
    PROVE  /\ job'[j] = row /\ row.video \in Videos
           /\ \A i \in JobIds : i # j => job'[i] = job[i]
           /\ status'[row.video] = Projection(row)
           /\ \A v \in Videos : v # row.video => status'[v] = status[v]
  BY DEF Turns, SameAttempt, Base, TypeOK, Rows

LEMMA InsertRows ==
    ASSUME Base, NEW row, Insert(row), row.video \in Videos
    PROVE  /\ count + 1 \in JobIds /\ count' = count + 1 /\ job'[count + 1] = row
           /\ \A i \in JobIds : i # count + 1 => job'[i] = job[i]
           /\ status'[row.video] = Projection(row) /\ ActiveOn(row.video) = {}
           /\ \A v \in Videos : v # row.video => status'[v] = status[v]
  BY BoundIsNat DEF Insert, Save, Base, TypeOK, JobIds

\* Recovery ends an abandoned attempt and appends its child, in one step.
LEMMA RecoverRows ==
    ASSUME Base, NEW j \in JobIds, RecoverAbandoned(j)
    PROVE  /\ j \in 1..count /\ job[j].state = "running" /\ ~job[j].cancel
           /\ count + 1 \in JobIds /\ j # count + 1 /\ count' = count + 1
           /\ job[j].video \in Videos
           /\ job'[count + 1] = RetryOf(j)
           /\ SameAttempt(job[j], job'[j]) /\ job'[j].state = "failed" /\ ~job'[j].cancel
           /\ \A i \in JobIds \ {j, count + 1} : job'[i] = job[i]
           /\ status'[job[j].video] = "queued"
           /\ \A v \in Videos : v # job[j].video => status'[v] = status[v]
  <1>1. j \in 1..count /\ job[j].state = "running" /\ ~job[j].cancel
    BY HasState DEF RecoverAbandoned, Oldest, Abandoned, States
  <1>2. /\ count + 1 \in JobIds /\ j # count + 1 /\ count' = count + 1
        /\ job[j].video \in Videos /\ job[j] \in JobRow
    BY <1>1, BoundIsNat DEF RecoverAbandoned, Base, TypeOK, Rows, JobIds
  <1>3. /\ job'[count + 1] = RetryOf(j) /\ job'[j] = [job[j] EXCEPT !.state = "failed"]
        /\ \A i \in JobIds \ {j, count + 1} : job'[i] = job[i]
    BY <1>2 DEF RecoverAbandoned, Base, TypeOK
  <1>4. /\ SameAttempt(job[j], job'[j]) /\ job'[j].state = "failed"
        /\ job'[j].cancel = job[j].cancel
    <2> DEFINE row == [job[j] EXCEPT !.state = "failed"]
    <2>1. SameAttempt(job[j], row) /\ row.state = "failed" /\ row.cancel = job[j].cancel
      BY <1>2, RowTurn DEF States
    <2> QED
      BY <1>3, <2>1
  <1>5. /\ status'[job[j].video] = "queued"
        /\ \A v \in Videos : v # job[j].video => status'[v] = status[v]
    BY <1>2 DEF RecoverAbandoned, Base, TypeOK
  <1> QED
    BY <1>1, <1>2, <1>3, <1>4, <1>5

\* The child of row j: the same identity under a new number.
LEMMA RetryRow ==
    ASSUME Base, NEW j \in JobIds
    PROVE  LET c == RetryOf(j)
           IN  /\ c \in JobRow /\ c.state = "queued" /\ ~c.cancel /\ c.retryOf = j
               /\ c.video = job[j].video /\ c.intent = job[j].intent
               /\ c.plan = job[j].plan /\ c.prior = job[j].prior
  BY RetryType DEF RetryOf, Base, TypeOK, JobRow

LEMMA BlankRows ==
    ASSUME Base, NEW j \in JobIds, j \notin 1..count
    PROVE  job[j].state = None /\ job[j].retryOf = 0 /\ ~job[j].cancel /\ job[j].video = None
  BY BoundIsNat DEF Base, TypeOK, Rows, JobIds, NoRow

-----------------------------------------------------------------------------
(* How attempts end *)

Settled(j) ==
    /\ job[j].state \in Terminal =>
          \A s \in Stages : run[j][s] \notin {"queued", "running"}
    /\ job[j].state = "complete" =>
          \A s \in Stages : run[j][s] \in ReceiptStates
    /\ job[j].state \in {"complete", "failed"} => ~job[j].cancel
    /\ job[j].state = "cancelled" => job[j].cancel

LEMMA SettledStep == Base /\ SettledAttempts /\ [Next]_vars => SettledAttempts'
  <1> SUFFICES ASSUME Base, SettledAttempts, [Next]_vars, NEW k \in 1..count'
               PROVE  Settled(k)'
    BY DEF SettledAttempts, Settled
  <1>0. /\ Untouched /\ count \in Nat /\ 1..count \subseteq JobIds
        /\ \A j \in 1..count : Settled(j)
    BY HistoryStep, BoundIsNat DEF Base, TypeOK, JobIds, SettledAttempts, Settled
  <1>1. CASE k \in 1..count /\ job[k].state \in Terminal
    BY <1>0, <1>1 DEF Untouched, Settled
  <1>2. CASE job'[k].state \notin Terminal
    BY <1>2 DEF Settled, Terminal
  <1>3. ASSUME k \in 1..count, job'[k] = job[k]
        PROVE  Settled(k)'
    BY <1>1, <1>2, <1>3
  <1>4. CASE UNCHANGED <<job, count, status>>
    BY <1>3, <1>4
  <1>5. ASSUME NEW row, Insert(row), row.video \in Videos, row.state = "queued"
        PROVE  Settled(k)'
    <2>1. CASE k = count + 1
      BY <1>2, <1>5, <2>1, InsertRows DEF Terminal
    <2>2. CASE k # count + 1
      <3>1. k \in 1..count
        BY <1>0, <1>5, <2>2, InsertRows
      <3> QED
        BY <1>0, <1>3, <1>5, <2>2, <3>1, InsertRows
    <2> QED
      BY <2>1, <2>2
  <1>6. ASSUME NEW v \in Videos, NEW p \in Plans, CreateIngest(v, p) \/ EnqueueReindex(v, p)
        PROVE  Settled(k)'
    BY <1>5, <1>6 DEF CreateIngest, EnqueueReindex, NewJob
  <1>7. ASSUME NEW j \in JobIds, Retry(j)
        PROVE  Settled(k)'
    <2>1. j \in 1..count
      BY <1>7, HasState DEF Retry, States
    <2>2. Insert(RetryOf(j)) /\ job[j].video \in Videos
      BY <1>7, <2>1 DEF Retry, Base, Rows
    <2> QED
      BY <1>5, <2>2, RetryRow
  <1>8. ASSUME NEW j \in JobIds, CancelRunning(j)
        PROVE  Settled(k)'
    <2>1. CASE k = j
      <3>1. job'[k].state = "running"
        BY <1>8, <2>1 DEF CancelRunning, Base, TypeOK, JobRow
      <3> QED
        BY <1>2, <3>1 DEF Terminal
    <2>2. CASE k # j
      BY <1>0, <1>3, <1>8, <2>2 DEF CancelRunning, Base, TypeOK
    <2> QED
      BY <2>1, <2>2
  <1>9. ASSUME NEW j \in JobIds, RecoverAbandoned(j)
        PROVE  Settled(k)'
    <2>1. CASE k = j
      <3>1. job'[j].state = "failed" /\ ~job'[j].cancel
        BY <1>9, RecoverRows
      <3>2. \A s \in Stages : run'[j][s] \notin {"queued", "running"}
        BY <1>9, Unfinished DEF RecoverAbandoned, Base, TypeOK
      <3> QED
        BY <2>1, <3>1, <3>2 DEF Settled
    <2>2. CASE k = count + 1
      <3>1. job'[k].state = "queued"
        BY <1>9, <2>2, RecoverRows, RetryRow
      <3> QED
        BY <1>2, <3>1 DEF Terminal
    <2>3. CASE k # j /\ k # count + 1
      <3>1. k \in 1..count
        BY <1>0, <1>9, <2>3, RecoverRows
      <3> QED
        BY <1>0, <1>3, <1>9, <2>3, <3>1, RecoverRows
    <2> QED
      BY <2>1, <2>2, <2>3
  <1>10. ASSUME NEW j \in 1..count, NEW row \in JobRow, Turns(j, row)
         PROVE  Settled(k)'
    <2>1. k \in 1..count
      BY <1>10 DEF Turns
    <2>2. CASE k = j
      <3>1. job'[k] = row
        BY <1>10, <2>2, TurnRows
      <3> QED
        BY <1>10, <2>2, <3>1 DEF Turns, Settled, Terminal
    <2>3. CASE k # j
      BY <1>0, <1>3, <1>10, <2>1, <2>3, TurnRows
    <2> QED
      BY <2>2, <2>3
  <1> QED
    BY <1>4, <1>6, <1>7, <1>8, <1>9, <1>10, StepKinds

\* However an attempt ends, by itself, by a handler or by the recovery of a
\* later process, none of its runs stays queued or running; it completes only
\* with a receipt for every stage; and it is cancelled exactly if asked to be.
THEOREM AttemptsAreSettled == Spec => []SettledAttempts
  <1>1. Init => SettledAttempts
    BY DEF Init, SettledAttempts
  <1> QED
    BY <1>1, SettledStep, BaseInvariant, PTL DEF Spec

-----------------------------------------------------------------------------
(* Who holds a running attempt *)

LEMMA OwnedStep == Base /\ RunningIsOwned /\ [Next]_vars => RunningIsOwned'
  <1> SUFFICES ASSUME Base, RunningIsOwned, [Next]_vars,
                      phase' \in {"serving", "stopping"},
                      NEW k \in JobIds, job'[k].state = "running"
               PROVE  \/ exec'.pc # "idle" /\ exec'.job = k
                      \/ job'[k].cancel \/ k \in damaged' \/ k \in left'
    BY DEF RunningIsOwned
  <1> DEFINE Held == \/ exec'.pc # "idle" /\ exec'.job = k
                     \/ job'[k].cancel \/ k \in damaged' \/ k \in left'
  <1>0. /\ damaged \subseteq damaged' /\ quarantined \subseteq damaged
        /\ left \subseteq left'
    BY DEF Base, TypeOK, Next, vars, dbVars, Handlers, CreateIngest, EnqueueReindex,
         CancelQueued,
         CancelRunning, Retry, Start, Stopped, Recovery, RecoverDamaged,
         RecoverCancelled, RecoverAbandoned, Serve, Claims, ClaimNone, Claim, Executes,
         LoadContext, CreateRun, StartRun, RecordNotConfigured, CommitStage,
         RecordFailed, ReserveText, CommitText, Complete, Decide, FailOwned, CancelOwned,
         TerminalizationLost, TerminalizationFails, EndAs, OnlyRunMoves, Abort,
         Environment, Stop, Crash, Damage
  \* A row that was running and stays as it was, under a dispatcher that goes
  \* on, was held before and still is.
  <1>1. ASSUME phase \in {"serving", "stopping"}, job'[k] = job[k], exec' = exec
        PROVE  Held
    BY <1>0, <1>1 DEF RunningIsOwned
  <1>2. CASE job[k].cancel /\ job'[k] = job[k]
    BY <1>2
  <1>3. CASE k \in damaged \/ k \in left
    BY <1>0, <1>3
  <1>4. CASE Start \/ Stopped \/ Crash
             \/ \E j \in JobIds : RecoverDamaged(j) \/ RecoverCancelled(j) \/ RecoverAbandoned(j)
    BY <1>4 DEF Start, RecoverDamaged, RecoverCancelled, RecoverAbandoned, Stopped, Crash
  <1>5. CASE Serve
    BY <1>0, <1>5 DEF Serve, dbVars, Abandoned
  <1>6. CASE Stop \/ ClaimNone \/ (\E j \in JobIds : Damage(j)) \/ UNCHANGED vars
    BY <1>1, <1>6 DEF Stop, ClaimNone, Damage, dbVars, vars
  <1>7. ASSUME NEW row, Insert(row), row.video \in Videos, row.state = "queued",
               phase = "serving", exec' = exec
        PROVE  Held
    <2>1. job'[k] = job[k]
      BY <1>7, InsertRows
    <2> QED
      BY <1>1, <1>7, <2>1
  <1>8. ASSUME NEW v \in Videos, NEW p \in Plans, CreateIngest(v, p) \/ EnqueueReindex(v, p)
        PROVE  Held
    BY <1>7, <1>8 DEF CreateIngest, EnqueueReindex, NewJob
  <1>9. ASSUME NEW j \in JobIds, Retry(j)
        PROVE  Held
    <2>1. j \in 1..count
      BY <1>9, HasState DEF Retry, States
    <2>2. /\ Insert(RetryOf(j)) /\ job[j].video \in Videos
          /\ phase = "serving" /\ exec' = exec
      BY <1>9, <2>1 DEF Retry, Base, Rows
    <2> QED
      BY <1>7, <2>2, RetryRow
  <1>10. ASSUME NEW j \in JobIds, CancelQueued(j)
         PROVE  Held
    <2>1. job'[j].state = "cancelled"
      BY <1>10 DEF CancelQueued, Save, Base, TypeOK, JobRow
    <2> QED
      BY <1>1, <1>10, <2>1 DEF CancelQueued, Save, Base, TypeOK
  <1>11. ASSUME NEW j \in JobIds, CancelRunning(j)
         PROVE  Held
    <2>1. CASE j = k
      BY <1>11, <2>1 DEF CancelRunning, Base, TypeOK, JobRow
    <2>2. CASE j # k
      BY <1>1, <1>11, <2>2 DEF CancelRunning, Base, TypeOK
    <2> QED
      BY <2>1, <2>2
  <1>12. ASSUME NEW j \in JobIds, Claim(j)
         PROVE  Held
    <2>1. CASE j = k
      BY <1>12, <2>1 DEF Claim
    <2>2. CASE j # k
      <3>1. job'[k] = job[k] /\ exec.pc = "idle" /\ phase = "serving"
        BY <1>12, <2>2 DEF Claim, Save, Base, TypeOK
      <3> QED
        BY <1>2, <1>3, <3>1 DEF RunningIsOwned
    <2> QED
      BY <2>1, <2>2
  \* What the dispatcher does to the job in hand.
  <1>13. ASSUME exec.pc # "idle", job'[k] = job[k], exec'.job = exec.job, exec'.pc # "idle"
         PROVE  Held
    BY <1>0, <1>13 DEF RunningIsOwned, Base, ExecOwns
  <1>14. ASSUME exec.pc # "idle", job'[k] = job[k], k # J
         PROVE  Held
    BY <1>2, <1>3, <1>14 DEF RunningIsOwned, Base, ExecOwns, J
  <1>15. CASE LoadContext \/ CreateRun \/ StartRun \/ RecordNotConfigured \/ CommitStage
              \/ RecordFailed \/ ReserveText \/ CommitText \/ Abort
    <2>1. exec.pc # "idle" /\ job' = job
      BY <1>15
         DEF LoadContext, CreateRun, StartRun, RecordNotConfigured, CommitStage,
             RecordFailed, ReserveText, CommitText, Abort, Working, At, OnlyRunMoves, dbVars
    <2>2. \E pc \in Pcs \ {"idle"} :
             \/ exec' = [exec EXCEPT !.pc = pc]
             \/ exec' = [exec EXCEPT !.pc = pc, !.k = 1]
             \/ exec' = [exec EXCEPT !.pc = pc, !.k = @ + 1]
      BY <1>15
         DEF LoadContext, CreateRun, StartRun, RecordNotConfigured, CommitStage,
             RecordFailed, ReserveText, CommitText, Abort, GoTo, NextStage, Pcs, Working
    <2>3. exec'.job = exec.job /\ exec'.pc # "idle"
      BY <2>2 DEF Base, TypeOK
    <2> QED
      BY <1>13, <2>1, <2>3
  <1>16. CASE Complete \/ FailOwned \/ CancelOwned
    <2>1. exec.pc # "idle"
      BY <1>16 DEF Complete, FailOwned, CancelOwned, At
    <2>2. \E outcome \in Terminal : Save(J, [job[J] EXCEPT !.state = outcome])
      BY <1>16 DEF Complete, FailOwned, CancelOwned, EndAs, Terminal
    <2>3. k # J /\ job'[k] = job[k]
      BY <2>1, <2>2, InHandRunning DEF Save, Base, TypeOK, JobRow, Terminal
    <2> QED
      BY <1>14, <2>1, <2>3
  <1>17. CASE Decide
    <2>1. exec.pc # "idle" /\ job' = job /\ job[J].state = "running"
      BY <1>17, InHandRunning DEF Decide, dbVars
    <2>2. CASE Readable(J)
      <3>1. \E pc \in {"cancel", "fail"} : exec' = [exec EXCEPT !.pc = pc]
        BY <1>17, <2>1, <2>2 DEF Decide
      <3>2. exec'.job = exec.job /\ exec'.pc # "idle"
        BY <3>1 DEF Base, TypeOK
      <3> QED
        BY <1>13, <2>1, <3>2
    <2>3. CASE ~Readable(J)
      BY <1>3, <1>14, <2>1, <2>3 DEF Readable
    <2> QED
      BY <2>2, <2>3
  <1>18. CASE TerminalizationLost
    <2>1. exec.pc # "idle" /\ job' = job /\ job[J].state = "running"
      BY <1>18, InHandRunning DEF TerminalizationLost, dbVars
    <2>2. job[J].cancel \/ J \in damaged
      BY <1>18, <2>1 DEF TerminalizationLost, Fence, Readable
    <2> QED
      BY <1>2, <1>3, <1>14, <2>1, <2>2
  <1>19. CASE TerminalizationFails
    <2>1. exec.pc # "idle" /\ job' = job /\ J \in left'
      BY <1>19 DEF TerminalizationFails, dbVars
    <2> QED
      BY <1>14, <2>1
  <1> QED
    BY <1>4, <1>5, <1>6, <1>8, <1>9, <1>10, <1>11, <1>12, <1>15, <1>16, <1>17, <1>18,
       <1>19 DEF Next, Handlers, Recovery, Claims, Executes, Environment

\* Only a stop requested in the meantime, a damaged row, or a database that
\* refused the ending in this very process leaves an attempt running without
\* an owner while the process serves.  An ending refused to an earlier process
\* is no excuse: a start settles such an attempt before it serves.
THEOREM RunningAttemptsAreOwned == Spec => []RunningIsOwned
  <1>1. Init => RunningIsOwned
    BY DEF Init, RunningIsOwned, NoRow, None
  <1> QED
    BY <1>1, OwnedStep, BaseInvariant, PTL DEF Spec

-----------------------------------------------------------------------------
(* Who retries an attempt *)

\* Rows keep their identity for ever, and only failed or cancelled attempts
\* without a child get one.
LEMMA RowsAndChildren ==
    ASSUME Base, RetryLineage, [Next]_vars
    PROVE  /\ \A c \in 1..count : SameAttempt(job[c], job'[c])
           /\ \/ count' = count
              \/ /\ count' = count + 1
                 /\ \/ job'[count + 1].retryOf = 0
                    \/ \E p \in 1..count :
                          /\ job'[count + 1] = RetryOf(p)
                          /\ job'[p].state \in {"failed", "cancelled"}
                          /\ \A d \in 1..count : job[d].retryOf # p
  <1>0. /\ count \in Nat /\ 1..count \subseteq JobIds
        /\ \A c \in JobIds : SameAttempt(job[c], job[c])
    BY BoundIsNat DEF Base, TypeOK, JobIds, SameAttempt
  <1> DEFINE Kept == \A c \in 1..count : SameAttempt(job[c], job'[c])
             Child == \E p \in 1..count :
                          /\ job'[count + 1] = RetryOf(p)
                          /\ job'[p].state \in {"failed", "cancelled"}
                          /\ \A d \in 1..count : job[d].retryOf # p
  <1>1. CASE UNCHANGED <<job, count, status>>
    BY <1>0, <1>1
  <1>2. ASSUME NEW row, Insert(row), row.video \in Videos
        PROVE  /\ Kept /\ count' = count + 1 /\ job'[count + 1] = row
               /\ \A c \in 1..count : job'[c] = job[c]
    <2>1. \A c \in 1..count : c \in JobIds /\ c # count + 1
      BY <1>0
    <2> QED
      BY <1>0, <1>2, <2>1, InsertRows
  <1>3. ASSUME NEW v \in Videos, NEW p \in Plans, CreateIngest(v, p) \/ EnqueueReindex(v, p)
        PROVE  Kept /\ count' = count + 1 /\ job'[count + 1].retryOf = 0
    BY <1>2, <1>3 DEF CreateIngest, EnqueueReindex, NewJob
  <1>4. ASSUME NEW j \in JobIds, Retry(j)
        PROVE  Kept /\ count' = count + 1 /\ Child
    <2>1. j \in 1..count
      BY <1>4, HasState DEF Retry, States
    <2>2. Insert(RetryOf(j)) /\ RetryOf(j).video \in Videos
      BY <1>4, <2>1, RetryRow DEF Retry, Base, Rows
    <2>3. \A d \in 1..count : job[d].retryOf # j
      BY <1>0, <1>4 DEF Retry, HasChild
    <2>4. job'[j].state \in {"failed", "cancelled"}
      BY <1>2, <1>4, <2>1, <2>2 DEF Retry
    <2> QED
      BY <1>2, <2>1, <2>2, <2>3, <2>4
  <1>5. ASSUME NEW j \in JobIds, CancelRunning(j)
        PROVE  Kept /\ count' = count
    <2>1. \A c \in JobIds : job[c] \in JobRow
      BY DEF Base, TypeOK
    <2>2. SameAttempt(job[j], job'[j])
      <3> DEFINE row == [job[j] EXCEPT !.cancel = TRUE]
      <3>1. SameAttempt(job[j], row)
        BY <2>1, RowCancel
      <3> QED
        BY <1>5, <3>1 DEF CancelRunning, Base, TypeOK
    <2>3. \A c \in JobIds : c # j => job'[c] = job[c]
      BY <1>5 DEF CancelRunning, Base, TypeOK
    <2> QED
      BY <1>0, <1>5, <2>2, <2>3 DEF CancelRunning
  <1>6. ASSUME NEW j \in JobIds, RecoverAbandoned(j)
        PROVE  Kept /\ count' = count + 1 /\ Child
    <2>1. \A c \in 1..count : c # j => job'[c] = job[c]
      <3>1. \A c \in 1..count : c \in JobIds /\ c # count + 1
        BY <1>0
      <3> QED
        BY <1>6, <3>1, RecoverRows
    <2>2. \A d \in 1..count : job[d].retryOf # j
      <3>1. j # 0 /\ job[j].state = "running"
        BY <1>6, RecoverRows DEF JobIds
      <3> QED
        BY <3>1 DEF RetryLineage
    <2> QED
      BY <1>0, <1>6, <2>1, <2>2, RecoverRows
  <1>7. ASSUME NEW j \in 1..count, NEW row \in JobRow, Turns(j, row)
        PROVE  Kept /\ count' = count
    <2>1. SameAttempt(job[j], job'[j]) /\ count' = count
      BY <1>7, TurnRows DEF Turns
    <2> QED
      BY <1>0, <1>7, <2>1, TurnRows
  <1> QED
    BY <1>1, <1>3, <1>4, <1>5, <1>6, <1>7, StepKinds

LEMMA LineageStep == Base /\ RetryLineage /\ [Next]_vars => RetryLineage'
  <1> SUFFICES ASSUME Base, RetryLineage, [Next]_vars,
                      NEW c \in 1..count', job'[c].retryOf # 0
               PROVE  LET p == job'[c].retryOf IN
                      /\ p < c /\ job'[p].state \in {"failed", "cancelled"}
                      /\ <<job'[p].video, job'[p].intent, job'[p].plan, job'[p].prior>>
                           = <<job'[c].video, job'[c].intent, job'[c].plan, job'[c].prior>>
                      /\ \A d \in 1..count' : job'[d].retryOf = p => d = c
    BY DEF RetryLineage
  <1> DEFINE p == job'[c].retryOf
  <1>0. /\ count \in Nat /\ 1..count \subseteq JobIds /\ Untouched
        /\ \A i \in 1..count : SameAttempt(job[i], job'[i])
    BY HistoryStep, RowsAndChildren, BoundIsNat DEF Base, TypeOK, JobIds
  <1>1. CASE c \in 1..count
    <2>1. p = job[c].retryOf
      BY <1>0, <1>1 DEF SameAttempt
    <2>2. /\ p < c /\ job[p].state \in {"failed", "cancelled"}
          /\ job[p].video = job[c].video /\ job[p].intent = job[c].intent
          /\ job[p].plan = job[c].plan /\ job[p].prior = job[c].prior
          /\ \A d \in 1..count : job[d].retryOf = p => d = c
      BY <1>1, <2>1 DEF RetryLineage
    <2>3. p \in 1..count /\ p \in JobIds
      <3>1. p \in Nat /\ c \in Nat /\ c <= count
        BY <1>0, <1>1, <2>1, BoundIsNat DEF Base, TypeOK, JobRow, Gens
      <3> QED
        BY <1>0, <2>2, <3>1
    <2>4. job'[p] = job[p]
      BY <1>0, <2>2, <2>3 DEF Untouched, Terminal
    <2>5. ASSUME NEW d \in 1..count', job'[d].retryOf = p
          PROVE  d = c
      <3>1. CASE d \in 1..count
        BY <1>0, <2>2, <2>5, <3>1 DEF SameAttempt
      <3>2. CASE d \notin 1..count
        <4>1. count' = count + 1 /\ d = count + 1
          BY <1>0, <3>2, RowsAndChildren
        <4>2. PICK q \in 1..count : /\ job'[d] = RetryOf(q)
                                    /\ \A x \in 1..count : job[x].retryOf # q
          BY <2>5, <4>1, RowsAndChildren
        <4>3. q = p
          BY <1>0, <2>5, <4>2, RetryRow
        <4> QED
          BY <1>1, <2>1, <4>2, <4>3
      <3> QED
        BY <3>1, <3>2
    <2> QED
      BY <1>0, <1>1, <2>2, <2>4, <2>5 DEF SameAttempt
  <1>2. CASE c \notin 1..count
    <2>1. count' = count + 1 /\ c = count + 1
      BY <1>0, <1>2, RowsAndChildren
    <2>2. PICK q \in 1..count :
             /\ job'[c] = RetryOf(q) /\ job'[q].state \in {"failed", "cancelled"}
             /\ \A x \in 1..count : job[x].retryOf # q
      BY <2>1, RowsAndChildren
    <2>3. /\ p = q /\ job'[c].video = job[q].video /\ job'[c].intent = job[q].intent
          /\ job'[c].plan = job[q].plan /\ job'[c].prior = job[q].prior
      BY <1>0, <2>2, RetryRow
    <2>4. q < c
      BY <1>0, <2>1
    <2>5. ASSUME NEW d \in 1..count', job'[d].retryOf = q
          PROVE  d = c
      <3>1. d \notin 1..count
        BY <1>0, <2>2, <2>5 DEF SameAttempt
      <3> QED
        BY <1>0, <2>1, <3>1
    <2> QED
      BY <1>0, <2>2, <2>3, <2>4, <2>5 DEF SameAttempt
  <1> QED
    BY <1>1, <1>2

\* Retries form chains, whoever asks for them and however often: the child of
\* a failed or cancelled attempt repeats its identity, and a user who retries
\* an attempt that recovery has retried already gets no second child.
THEOREM RetriesFormChains == Spec => []RetryLineage
  <1>1. Init => RetryLineage
    BY DEF Init, RetryLineage
  <1> QED
    BY <1>1, LineageStep, BaseInvariant, PTL DEF Spec

-----------------------------------------------------------------------------
(* What the status of a video says of its attempts *)

With(v, st) == \E j \in JobIds : job[j].video = v /\ job[j].state = st

Reflects(v) ==
    /\ status[v] = "queued" <=> With(v, "queued")
    /\ status[v] = "processing" <=> With(v, "running")
    /\ status[v] = "ready" => With(v, "complete")

\* The strengthening: the status that a reindex and its retries may restore
\* was the one of a video without an active attempt, so it is never queued or
\* processing, and it is ready only because of an attempt that completed.
PriorOf(j) ==
    /\ job[j].prior \notin {"queued", "processing"}
    /\ job[j].prior = "ready" => With(job[j].video, "complete")

PriorSound == \A j \in 1..count : PriorOf(j)

StatusInv == StatusReflectsJobs /\ PriorSound

LEMMA ReflectsAll == StatusReflectsJobs <=> \A v \in Videos : Reflects(v)
  BY DEF StatusReflectsJobs, Reflects, With

\* An unfinished attempt is the only one on its video.
LEMMA OnlyActive ==
    ASSUME Base, SequentialAttempts, NEW j \in 1..count, Active(j)
    PROVE  \A i \in JobIds : i # j /\ job[i].video = job[j].video => ~Active(i)
  <1> SUFFICES ASSUME NEW i \in JobIds, i # j, job[i].video = job[j].video, Active(i)
               PROVE  FALSE
    OBVIOUS
  <1>1. i \in 1..count /\ i \in Nat /\ j \in Nat
    BY HasState, BoundIsNat DEF Active, States, JobIds
  <1>2. CASE i < j
    BY <1>1, <1>2 DEF SequentialAttempts, Active, Terminal
  <1>3. CASE j < i
    BY <1>1, <1>3 DEF SequentialAttempts, Active, Terminal
  <1> QED
    BY <1>1, <1>2, <1>3

\* A video keeps what the table says of it when a step leaves its rows alone.
LEMMA ReflectsLocal ==
    ASSUME NEW v \in Videos, Reflects(v), status'[v] = status[v],
           \A i \in JobIds :
              \/ job'[i].video = job[i].video /\ job'[i].state = job[i].state
              \/ job'[i].video # v /\ job[i].video # v
    PROVE  Reflects(v)'
  BY DEF Reflects, With

\* Completed attempts stay, so a sound prior state stays sound.
LEMMA CompletedStays ==
    ASSUME Base, [Next]_vars, NEW v, With(v, "complete")
    PROVE  With(v, "complete")'
  <1>1. PICK i \in JobIds : job[i].video = v /\ job[i].state = "complete"
    BY DEF With
  <1>2. job'[i] = job[i]
    BY <1>1, HistoryStep DEF Untouched, Terminal
  <1> QED
    BY <1>1, <1>2 DEF With

\* The prior state of a row is sound if it was for the row's video one step ago.
LEMMA PriorKept ==
    ASSUME Base, [Next]_vars, NEW c, NEW v, job'[c].video = v,
           job'[c].prior \notin {"queued", "processing"},
           job'[c].prior = "ready" => With(v, "complete")
    PROVE  PriorOf(c)'
  <1>1. CASE job'[c].prior # "ready"
    BY <1>1 DEF PriorOf
  <1>2. CASE job'[c].prior = "ready"
    <2>1. With(v, "complete")'
      BY <1>2, CompletedStays
    <2> QED
      BY <1>2, <2>1 DEF PriorOf, With
  <1> QED
    BY <1>1, <1>2

LEMMA PriorStep ==
    Base /\ RetryLineage /\ StatusInv /\ [Next]_vars => PriorSound'
  <1> SUFFICES ASSUME Base, RetryLineage, StatusInv, [Next]_vars, NEW c \in 1..count'
               PROVE  PriorOf(c)'
    BY DEF PriorSound, PriorOf, With
  <1>0. /\ count \in Nat /\ 1..count \subseteq JobIds
        /\ \A j \in 1..count : SameAttempt(job[j], job'[j])
        /\ count' = count \/ count' = count + 1
    BY RowsAndChildren, BoundIsNat DEF Base, TypeOK, JobIds
  <1>1. CASE c \in 1..count
    <2>1. job'[c].video = job[c].video /\ job'[c].prior = job[c].prior /\ PriorOf(c)
      BY <1>0, <1>1 DEF SameAttempt, StatusInv, PriorSound
    <2> QED
      BY <2>1, PriorKept DEF PriorOf
  <1>2. ASSUME NEW j \in 1..count, job'[c] = RetryOf(j)
        PROVE  PriorOf(c)'
    <2>1. job'[c].video = job[j].video /\ job'[c].prior = job[j].prior /\ PriorOf(j)
      BY <1>0, <1>2, RetryRow DEF StatusInv, PriorSound
    <2> QED
      BY <2>1, PriorKept DEF PriorOf
  <1>3. CASE c \notin 1..count
    <2>1. c = count + 1 /\ count' = count + 1
      BY <1>0, <1>3
    <2>2. ASSUME NEW v \in Videos, NEW p \in Plans, CreateIngest(v, p)
          PROVE  PriorOf(c)'
      <3>1. Insert(NewJob(v, "ingest", p, None)) /\ NewJob(v, "ingest", p, None).video = v
        BY <2>2 DEF CreateIngest, NewJob
      <3>2. job'[c] = NewJob(v, "ingest", p, None)
        BY <2>1, <3>1, InsertRows
      <3> QED
        BY <3>2, PriorKept DEF NewJob, None
    <2>3. ASSUME NEW v \in Videos, NEW p \in Plans, EnqueueReindex(v, p)
          PROVE  PriorOf(c)'
      <3>1. /\ Insert(NewJob(v, "reindex", p, status[v]))
            /\ NewJob(v, "reindex", p, status[v]).video = v
        BY <2>3 DEF EnqueueReindex, NewJob
      <3>2. job'[c] = NewJob(v, "reindex", p, status[v]) /\ ActiveOn(v) = {}
        BY <2>1, <3>1, InsertRows
      <3>3. ~With(v, "queued") /\ ~With(v, "running")
        BY <3>2 DEF ActiveOn, Active, With
      <3>4. /\ job'[c].prior = status[v] /\ job'[c].video = v
            /\ status[v] \notin {"queued", "processing"}
            /\ status[v] = "ready" => With(v, "complete")
        BY <3>2, <3>3, ReflectsAll DEF NewJob, StatusInv, Reflects
      <3> QED
        BY <3>4, PriorKept
    <2>4. ASSUME NEW j \in JobIds, Retry(j)
          PROVE  j \in 1..count /\ job'[c] = RetryOf(j)
      <3>1. j \in 1..count
        BY <2>4, HasState DEF Retry, States
      <3>2. Insert(RetryOf(j)) /\ RetryOf(j).video \in Videos
        BY <2>4, <3>1, RetryRow DEF Retry, Base, Rows
      <3> QED
        BY <2>1, <3>1, <3>2, InsertRows
    <2>5. ASSUME NEW j \in JobIds, RecoverAbandoned(j)
          PROVE  j \in 1..count /\ job'[c] = RetryOf(j)
      BY <2>1, <2>5, RecoverRows
    <2>6. ASSUME NEW j \in JobIds, CancelRunning(j)
          PROVE  FALSE
      BY <1>0, <2>1, <2>6 DEF CancelRunning
    <2>7. ~UNCHANGED <<job, count, status>>
      BY <1>0, <2>1
    <2>8. ~ \E j \in 1..count : \E row \in JobRow : Turns(j, row)
      BY <1>0, <2>1 DEF Turns
    <2> QED
      BY <1>2, <1>3, <2>2, <2>3, <2>4, <2>5, <2>6, <2>7, <2>8, StepKinds
  <1> QED
    BY <1>1, <1>3

LEMMA StatusStep ==
    Base /\ SequentialAttempts /\ StatusInv /\ [Next]_vars => StatusReflectsJobs'
  <1> SUFFICES ASSUME Base, SequentialAttempts, StatusInv, [Next]_vars, NEW v \in Videos
               PROVE  Reflects(v)'
    BY DEF StatusReflectsJobs, Reflects, With
  <1>0. /\ count \in Nat /\ 1..count \subseteq JobIds /\ Reflects(v)
        /\ \A j \in JobIds : job[j] \in JobRow
    BY BoundIsNat, ReflectsAll DEF Base, TypeOK, JobIds, StatusInv
  <1>1. CASE UNCHANGED <<job, count, status>>
    BY <1>0, <1>1, ReflectsLocal
  \* A new row is the only unfinished one of its video.
  <1>2. ASSUME NEW row, Insert(row), row.video \in Videos, row.state = "queued"
        PROVE  Reflects(v)'
    <2>1. CASE row.video = v
      <3>1. status'[v] = "queued"
        BY <1>2, <2>1, InsertRows DEF Projection
      <3>2. With(v, "queued")' /\ ~With(v, "running")'
        BY <1>2, <2>1, InsertRows DEF With, ActiveOn, Active
      <3> QED
        BY <3>1, <3>2 DEF Reflects
    <2>2. CASE row.video # v
      <3>1. count + 1 \notin 1..count /\ v # None
        BY <1>0, NoneIsNobody
      <3>2. job[count + 1].video # v
        BY <1>2, <3>1, InsertRows, BlankRows
      <3> QED
        BY <1>0, <1>2, <2>2, <3>2, InsertRows, ReflectsLocal
    <2> QED
      BY <2>1, <2>2
  <1>3. ASSUME NEW w \in Videos, NEW p \in Plans, CreateIngest(w, p) \/ EnqueueReindex(w, p)
        PROVE  Reflects(v)'
    BY <1>2, <1>3 DEF CreateIngest, EnqueueReindex, NewJob
  <1>4. ASSUME NEW j \in JobIds, Retry(j)
        PROVE  Reflects(v)'
    <2>1. j \in 1..count
      BY <1>4, HasState DEF Retry, States
    <2>2. Insert(RetryOf(j)) /\ RetryOf(j).video \in Videos
      BY <1>4, <2>1, RetryRow DEF Retry, Base, Rows
    <2> QED
      BY <1>2, <2>2, RetryRow
  <1>5. ASSUME NEW j \in JobIds, CancelRunning(j)
        PROVE  Reflects(v)'
    <2>1. job' = [job EXCEPT ![j].cancel = TRUE] /\ status' = status
      BY <1>5 DEF CancelRunning
    <2>2. \A i \in JobIds : job'[i].video = job[i].video /\ job'[i].state = job[i].state
      BY <1>0, <2>1 DEF Base, TypeOK, JobRow
    <2> QED
      BY <1>0, <2>1, <2>2, ReflectsLocal
  <1>6. ASSUME NEW j \in JobIds, RecoverAbandoned(j)
        PROVE  Reflects(v)'
    <2>0. Active(j) /\ j \in 1..count
      BY <1>6, RecoverRows DEF Active
    <2>1. CASE job[j].video = v
      <3>1. With(v, "queued")'
        BY <1>0, <1>6, <2>1, RecoverRows, RetryRow DEF With
      <3>2. ~With(v, "running")'
        <4>1. \A i \in JobIds \ {j, count + 1} : ~(job'[i].video = v /\ job'[i].state = "running")
          BY <1>6, <2>0, <2>1, OnlyActive, RecoverRows DEF Active
        <4>2. job'[j].state # "running" /\ job'[count + 1].state # "running"
          BY <1>6, RecoverRows, RetryRow
        <4> QED
          BY <4>1, <4>2 DEF With
      <3> QED
        BY <1>6, <2>1, <3>1, <3>2, RecoverRows DEF Reflects
    <2>2. CASE job[j].video # v
      <3>1. job[count + 1].video # v
        <4>1. count + 1 \notin 1..count /\ v # None
          BY <1>0, NoneIsNobody
        <4> QED
          BY <1>6, <4>1, RecoverRows, BlankRows
      <3>2. job'[j].video # v /\ job'[count + 1].video # v
        BY <1>0, <1>6, <2>2, RecoverRows, RetryRow DEF SameAttempt
      <3> QED
        BY <1>0, <1>6, <2>2, <3>1, <3>2, RecoverRows, ReflectsLocal
    <2> QED
      BY <2>1, <2>2
  <1>7. ASSUME NEW j \in 1..count, NEW row \in JobRow, Turns(j, row)
        PROVE  Reflects(v)'
    <2>0. /\ Active(j) /\ row.video = job[j].video /\ row.prior = job[j].prior
          /\ row.state \in {"running"} \cup Terminal
      BY <1>7 DEF Turns, SameAttempt, Terminal
    <2>1. CASE row.video = v
      <3>1. \A i \in JobIds : i # j => job'[i] = job[i] /\ (job[i].video = v => ~Active(i))
        <4>1. \A i \in JobIds : i # j => job'[i] = job[i]
          BY <1>7, TurnRows
        <4>2. \A i \in JobIds : i # j /\ job[i].video = v => ~Active(i)
          BY <2>0, <2>1, OnlyActive
        <4> QED
          BY <4>1, <4>2
      <3>2. ~With(v, "queued")'
        BY <1>7, <2>0, <3>1, TurnRows DEF With, Active, Terminal
      <3>3. With(v, "running")' <=> row.state = "running"
        BY <1>0, <1>7, <2>0, <2>1, <3>1, TurnRows DEF With, Active
      <3>4. status'[v] = Projection(row)
        BY <1>7, <2>1, TurnRows
      <3>5. CASE row.state \in {"running", "complete"}
        <4>1. row.state = "complete" => With(v, "complete")'
          BY <1>0, <1>7, <2>1, TurnRows DEF With
        <4> QED
          BY <3>2, <3>3, <3>4, <3>5, <4>1 DEF Reflects, Projection
      <3>6. CASE row.state \in {"failed", "cancelled"}
        <4>1. status'[v] \in {row.prior, "failed"}
          BY <3>4, <3>6 DEF Projection
        <4>2. /\ row.prior \notin {"queued", "processing"}
              /\ row.prior = "ready" => With(v, "complete")'
          BY <2>0, <2>1, CompletedStays DEF StatusInv, PriorSound, PriorOf
        <4> QED
          BY <3>2, <3>3, <3>6, <4>1, <4>2 DEF Reflects
      <3> QED
        BY <2>0, <3>5, <3>6 DEF Terminal
    <2>2. CASE row.video # v
      BY <1>0, <1>7, <2>0, <2>2, TurnRows, ReflectsLocal
    <2> QED
      BY <2>1, <2>2
  <1> QED
    BY <1>1, <1>3, <1>4, <1>5, <1>6, <1>7, StepKinds

\* The status that users see is right in every execution: queued or
\* processing exactly while there is such an attempt, ready only after one
\* completed, although a reindex and the retries of its retries restore a
\* status that was read many steps and restarts before.
THEOREM StatusIsRight == Spec => []StatusReflectsJobs
  <1>1. Init => StatusInv
    BY DEF Init, StatusInv, StatusReflectsJobs, PriorSound, PriorOf, NoRow, None
  <1>2. Spec => []SequentialAttempts
    BY AttemptsAreSequential
  <1>3. Spec => []RetryLineage
    BY RetriesFormChains
  <1>4. Base /\ SequentialAttempts /\ RetryLineage /\ StatusInv /\ [Next]_vars => StatusInv'
    BY PriorStep, StatusStep DEF StatusInv
  <1>5. StatusInv => StatusReflectsJobs
    BY DEF StatusInv
  <1> QED
    BY <1>1, <1>2, <1>3, <1>4, <1>5, BaseInvariant, PTL DEF Spec

-----------------------------------------------------------------------------
(* The job table implements VideoRelease *)

\* What the table says of a video with one unfinished row, before and after a
\* step, and of a video without one.
LEMMA OneAttempt ==
    ASSUME NEW v, NEW j \in JobIds, job[j].video = v, Active(j),
           \A i \in JobIds : i # j /\ job[i].video = v => ~Active(i)
    PROVE  AttemptOn(v) = IF job[j].cancel THEN "stopping" ELSE "open"
  <1>1. ActiveOn(v) = {j}
    BY DEF ActiveOn
  <1> QED
    BY <1>1 DEF AttemptOn

LEMMA OneAttemptNext ==
    ASSUME NEW v, NEW j \in JobIds, job'[j].video = v, Active(j)',
           \A i \in JobIds : i # j /\ job'[i].video = v => ~Active(i)'
    PROVE  AttemptOn(v)' = IF job'[j].cancel THEN "stopping" ELSE "open"
  <1>1. ActiveOn(v)' = {j}
    BY DEF ActiveOn
  <1> QED
    BY <1>1 DEF AttemptOn

LEMMA NoAttemptNext ==
    ASSUME NEW v, \A i \in JobIds : job'[i].video = v => ~Active(i)'
    PROVE  AttemptOn(v)' = "none"
  BY DEF AttemptOn, ActiveOn

LEMMA AttemptLocal ==
    ASSUME NEW v,
           \A i \in JobIds :
              \/ /\ job'[i].video = job[i].video /\ job'[i].state = job[i].state
                 /\ job'[i].cancel = job[i].cancel
              \/ job'[i].video # v /\ job[i].video # v
    PROVE  AttemptOn(v)' = AttemptOn(v)
  <1>1. ActiveOn(v)' = ActiveOn(v)
    BY DEF ActiveOn, Active
  <1>2. \A i \in ActiveOn(v) : job'[i].cancel = job[i].cancel
    BY DEF ActiveOn
  <1> QED
    BY <1>1, <1>2 DEF AttemptOn

\* How a step on one video maps.
Elsewhere(v) == \A w \in Videos : w # v => AttemptOn(w)' = AttemptOn(w)

LEMMA MapsOne ==
    ASSUME NEW v \in Videos, Elsewhere(v)
    PROVE  [w \in Videos |-> AttemptOn(w)]'
             = [[w \in Videos |-> AttemptOn(w)] EXCEPT ![v] = AttemptOn(v)']
  BY DEF Elsewhere

LEMMA BeginMaps ==
    ASSUME NEW v \in Videos, Elsewhere(v), active' = active,
           AttemptOn(v) = "none", AttemptOn(v)' = "open"
    PROVE  Promise!Next
  BY MapsOne DEF Promise!Next, Promise!Begin

LEMMA StopMaps ==
    ASSUME NEW v \in Videos, Elsewhere(v), active' = active,
           AttemptOn(v) = "open", AttemptOn(v)' = "stopping"
    PROVE  Promise!Next
  BY MapsOne DEF Promise!Next, Promise!RequestStop

LEMMA GiveUpMaps ==
    ASSUME NEW v \in Videos, Elsewhere(v), active' = active,
           AttemptOn(v) # "none", AttemptOn(v)' = "none"
    PROVE  Promise!Next
  BY MapsOne DEF Promise!Next, Promise!GiveUp

LEMMA StutterMaps ==
    ASSUME active' = active, \A v \in Videos : AttemptOn(v)' = AttemptOn(v)
    PROVE  UNCHANGED Promise!vars
  BY DEF Promise!vars

LEMMA PublishMaps ==
    ASSUME NEW v \in Videos, Elsewhere(v), NEW g \in Gens, Promise!Fresh(g),
           NEW r \in [Stages -> Gens], active' = [active EXCEPT ![v] = r],
           \A s \in Stages : r[s] \in {0, g, active[v][s]},
           AttemptOn(v) = "open", AttemptOn(v)' = "none"
    PROVE  Promise!Next
  BY MapsOne DEF Promise!Next, Promise!Publish

\* A handler appends a row: an attempt begins on a video without one.
LEMMA InsertMaps ==
    ASSUME Base, NEW v \in Videos, NEW row, row.video = v, Insert(row),
           row.state = "queued", ~row.cancel, active' = active
    PROVE  Promise!Next
  <1>1. AttemptOn(v) = "none"
    BY InsertRows DEF AttemptOn
  <1>2. AttemptOn(v)' = "open"
    <2>1. PICK j \in JobIds : j = count + 1
      BY InsertRows
    <2>2. job'[j] = row /\ \A i \in JobIds : i # j => job'[i] = job[i]
      BY <2>1, InsertRows
    <2>3. Active(j)' /\ job'[j].video = v
      BY <2>2 DEF Active
    <2>4. ASSUME NEW i \in JobIds, i # j, job'[i].video = v
          PROVE  ~Active(i)'
      <3>1. job'[i] = job[i] /\ ~Active(i)
        BY <2>2, <2>4, InsertRows DEF ActiveOn
      <3> QED
        BY <3>1 DEF Active
    <2>5. AttemptOn(v)' = IF job'[j].cancel THEN "stopping" ELSE "open"
      BY <2>3, <2>4, OneAttemptNext
    <2> QED
      BY <2>2, <2>5
  <1>3. Elsewhere(v)
    <2>1. count + 1 \notin 1..count
      BY BoundIsNat DEF Base, TypeOK
    <2> SUFFICES ASSUME NEW w \in Videos, w # v
                 PROVE  AttemptOn(w)' = AttemptOn(w)
      BY DEF Elsewhere
    <2>2. job[count + 1].video # w /\ job'[count + 1].video # w
      BY <2>1, InsertRows, BlankRows, NoneIsNobody
    <2> QED
      BY <2>2, InsertRows, AttemptLocal
  <1> QED
    BY <1>1, <1>2, <1>3, BeginMaps

\* A stop request on the one running attempt of a video.
LEMMA RequestMaps ==
    ASSUME Base, SequentialAttempts, NEW j \in JobIds, CancelRunning(j)
    PROVE  Promise!Next
  <1>0. /\ j \in 1..count /\ Active(j) /\ ~job[j].cancel /\ active' = active
        /\ job[j] \in JobRow /\ job' = [job EXCEPT ![j].cancel = TRUE]
    BY HasState DEF CancelRunning, States, Active, Base, TypeOK
  <1>1. PICK v \in Videos : job[j].video = v
    BY <1>0 DEF Base, Rows
  <1>2. /\ job'[j].video = v /\ job'[j].state = job[j].state /\ job'[j].cancel
        /\ \A i \in JobIds : i # j => job'[i] = job[i]
    BY <1>0, <1>1 DEF Base, TypeOK, JobRow
  <1>3. AttemptOn(v) = "open"
    <2>1. AttemptOn(v) = IF job[j].cancel THEN "stopping" ELSE "open"
      BY <1>0, <1>1, OnlyActive, OneAttempt
    <2> QED
      BY <1>0, <2>1
  <1>4. AttemptOn(v)' = "stopping"
    <2>1. \A i \in JobIds : i # j /\ job'[i].video = v => ~Active(i)'
      BY <1>0, <1>1, <1>2, OnlyActive DEF Active
    <2>2. Active(j)'
      BY <1>0, <1>2 DEF Active
    <2>3. AttemptOn(v)' = IF job'[j].cancel THEN "stopping" ELSE "open"
      BY <1>2, <2>1, <2>2, OneAttemptNext
    <2> QED
      BY <1>2, <2>3
  <1>5. Elsewhere(v)
    BY <1>1, <1>2, AttemptLocal DEF Elsewhere
  <1> QED
    BY <1>0, <1>3, <1>4, <1>5, StopMaps

\* The one unfinished attempt of a video is claimed, or it ends without a
\* release.
LEMMA TurnMaps ==
    ASSUME Base, SequentialAttempts, NEW j \in 1..count, NEW row \in JobRow,
           Turns(j, row), active' = active
    PROVE  Promise!Next \/ UNCHANGED Promise!vars
  <1>0. /\ j \in JobIds /\ Active(j) /\ row.video = job[j].video
        /\ row.state \in {"running"} \cup Terminal
        /\ row.state = "running" => row.cancel = job[j].cancel
    BY DEF Turns, SameAttempt, Terminal
  <1>1. PICK v \in Videos : job[j].video = v
    BY DEF Base, Rows
  <1>2. job'[j] = row /\ \A i \in JobIds : i # j => job'[i] = job[i]
    BY TurnRows
  <1>3. AttemptOn(v) = IF job[j].cancel THEN "stopping" ELSE "open"
    BY <1>0, <1>1, OnlyActive, OneAttempt
  <1>4. \A i \in JobIds : i # j /\ job'[i].video = v => ~Active(i)'
    BY <1>0, <1>1, <1>2, OnlyActive DEF Active
  <1>5. Elsewhere(v)
    BY <1>0, <1>1, <1>2, AttemptLocal DEF Elsewhere
  <1>6. CASE row.state = "running"
    <2>1. Active(j)' /\ job'[j].video = v
      BY <1>0, <1>1, <1>2, <1>6 DEF Active
    <2>2. AttemptOn(v)' = IF job'[j].cancel THEN "stopping" ELSE "open"
      BY <1>0, <1>4, <2>1, OneAttemptNext
    <2>3. job'[j].cancel = job[j].cancel
      BY <1>0, <1>2, <1>6
    <2>4. AttemptOn(v)' = AttemptOn(v)
      BY <1>3, <2>2, <2>3
    <2> QED
      BY <1>5, <2>4, StutterMaps DEF Elsewhere
  <1>7. CASE row.state \in Terminal
    <2>1. ~Active(j)'
      BY <1>2, <1>7 DEF Active, Terminal
    <2>2. AttemptOn(v)' = "none"
      BY <1>4, <2>1, NoAttemptNext
    <2>3. AttemptOn(v) # "none"
      BY <1>3
    <2> QED
      BY <1>5, <2>2, <2>3, GiveUpMaps
  <1> QED
    BY <1>0, <1>6, <1>7

\* Recovery replaces an abandoned attempt by its child: the attempt on the
\* video goes on.
LEMMA RecoverMaps ==
    ASSUME Base, SequentialAttempts, NEW j \in JobIds, RecoverAbandoned(j)
    PROVE  UNCHANGED Promise!vars
  <1>1. PICK v \in Videos : job[j].video = v
    BY RecoverRows
  <1>2. PICK c \in JobIds : c = count + 1
    BY RecoverRows
  <1>3. /\ j \in 1..count /\ Active(j) /\ ~job[j].cancel /\ c # j
        /\ job'[j].video = v /\ job'[j].state = "failed"
        /\ job'[c].video = v /\ job'[c].state = "queued" /\ ~job'[c].cancel
        /\ \A i \in JobIds \ {j, c} : job'[i] = job[i]
    BY <1>1, <1>2, RecoverRows, RetryRow DEF Active, SameAttempt
  <1>4. AttemptOn(v) = "open"
    <2>1. AttemptOn(v) = IF job[j].cancel THEN "stopping" ELSE "open"
      BY <1>1, <1>3, OnlyActive, OneAttempt
    <2> QED
      BY <1>3, <2>1
  <1>5. AttemptOn(v)' = "open"
    <2>1. Active(c)'
      BY <1>3 DEF Active
    <2>2. ASSUME NEW i \in JobIds, i # c, job'[i].video = v
          PROVE  ~Active(i)'
      <3>1. CASE i = j
        BY <1>3, <3>1 DEF Active
      <3>2. CASE i # j
        BY <1>1, <1>3, <2>2, <3>2, OnlyActive DEF Active
      <3> QED
        BY <3>1, <3>2
    <2>3. AttemptOn(v)' = IF job'[c].cancel THEN "stopping" ELSE "open"
      BY <1>3, <2>1, <2>2, OneAttemptNext
    <2> QED
      BY <1>3, <2>3
  <1>6. ASSUME NEW w \in Videos, w # v
        PROVE  AttemptOn(w)' = AttemptOn(w)
    <2>1. job[c].video # w
      <3>1. c \notin 1..count
        BY <1>2, BoundIsNat DEF Base, TypeOK
      <3> QED
        BY <3>1, BlankRows, NoneIsNobody
    <2> QED
      BY <1>1, <1>3, <1>6, <2>1, AttemptLocal
  <1>7. active' = active
    BY DEF RecoverAbandoned
  <1> QED
    BY <1>4, <1>5, <1>6, <1>7, StutterMaps

\* A completion publishes outputs named by the running job, which no release
\* can name yet, and generations of the release before it.
LEMMA CompleteMaps ==
    ASSUME Base, SequentialAttempts, CoherentRelease, Complete
    PROVE  Promise!Next
  <1>0. /\ J \in JobIds /\ J # 0 /\ J \in 1..count /\ job[J].video \in Videos
        /\ job[J].state = "running" /\ ~job[J].cancel
        /\ job'[J].state = "complete" /\ job'[J].video = job[J].video
    BY CompleteEffect
  <1>1. PICK v \in Videos : job[J].video = v
    BY <1>0
  <1>2. Active(J) /\ \A i \in JobIds : i # J => job'[i] = job[i]
    BY <1>0 DEF Complete, Save, Active, Base, TypeOK
  <1>3. AttemptOn(v) = "open"
    <2>1. AttemptOn(v) = IF job[J].cancel THEN "stopping" ELSE "open"
      BY <1>0, <1>1, <1>2, OnlyActive, OneAttempt
    <2> QED
      BY <1>0, <2>1
  <1>4. AttemptOn(v)' = "none"
    <2>1. PICK j \in 1..count : j = J
      BY <1>0
    <2>2. ~Active(j)'
      BY <1>0, <2>1 DEF Active
    <2>3. \A i \in JobIds : i # j /\ job'[i].video = v => ~Active(i)'
      BY <1>0, <1>1, <1>2, <2>1, OnlyActive DEF Active
    <2> QED
      BY <2>2, <2>3, NoAttemptNext
  <1>5. Elsewhere(v)
    BY <1>0, <1>1, <1>2, AttemptLocal DEF Elsewhere
  <1>6. Promise!Fresh(J)
    <2>1. \A w \in Videos, s \in Stages : active[w][s] # J
      <3> SUFFICES ASSUME NEW w \in Videos, NEW s \in Stages, active[w][s] = J
                   PROVE  FALSE
        OBVIOUS
      <3>1. job[J].state = "complete"
        BY <1>0, CoherentParts DEF Backed, Released
      <3> QED
        BY <1>0, <3>1
    <2> QED
      BY <1>0, <2>1 DEF Promise!Fresh
  <1>7. /\ ReleaseOf(J) \in [Stages -> Gens] /\ J \in Gens
        /\ active' = [active EXCEPT ![v] = ReleaseOf(J)]
    BY <1>0, <1>1, SelectedType, BoundIsNat DEF Complete, JobIds, Gens
  <1>8. \A s \in Stages : ReleaseOf(J)[s] \in {0, J, active[v][s]}
    BY <1>0, <1>1, ReleaseOrigin
  <1> QED
    BY <1>3, <1>4, <1>5, <1>6, <1>7, <1>8, PublishMaps

LEMMA PromiseStep ==
    Base /\ SequentialAttempts /\ CoherentRelease /\ [Next]_vars
        => [Promise!Next]_(Promise!vars)
  <1> SUFFICES ASSUME Base, SequentialAttempts, CoherentRelease, [Next]_vars
               PROVE  Promise!Next \/ UNCHANGED Promise!vars
    BY DEF Promise!vars
  <1>1. CASE Complete
    BY <1>1, CompleteMaps
  <1>2. CASE ~Complete
    <2>0. active' = active
      BY <1>2, OnlyCompleteReleases
    <2>1. CASE UNCHANGED <<job, count, status>>
      BY <2>0, <2>1, AttemptLocal, StutterMaps
    <2>2. ASSUME NEW v \in Videos, NEW p \in Plans, CreateIngest(v, p) \/ EnqueueReindex(v, p)
          PROVE  Promise!Next
      BY <2>0, <2>2, InsertMaps DEF CreateIngest, EnqueueReindex, NewJob
    <2>3. ASSUME NEW j \in JobIds, Retry(j)
          PROVE  Promise!Next
      <3>1. j \in 1..count
        BY <2>3, HasState DEF Retry, States
      <3>2. Insert(RetryOf(j)) /\ RetryOf(j).video \in Videos
        BY <2>3, <3>1, RetryRow DEF Retry, Base, Rows
      <3> QED
        BY <2>0, <3>2, RetryRow, InsertMaps
    <2>4. ASSUME NEW j \in JobIds, CancelRunning(j) \/ RecoverAbandoned(j)
          PROVE  Promise!Next \/ UNCHANGED Promise!vars
      BY <2>4, RequestMaps, RecoverMaps
    <2>5. ASSUME NEW j \in 1..count, NEW row \in JobRow, Turns(j, row)
          PROVE  Promise!Next \/ UNCHANGED Promise!vars
      BY <2>0, <2>5, TurnMaps
    <2> QED
      BY <2>1, <2>2, <2>3, <2>4, <2>5, StepKinds
  <1> QED
    BY <1>1, <1>2

\* Handlers, recovery and the dispatcher together keep the promise of
\* VideoRelease for any number of videos, attempts and restarts: one attempt
\* at a time, and a release replaced only by an attempt that nobody stopped,
\* from its own outputs and those of the release before.
THEOREM JobsImplementRelease == Spec => ImplementsVideoRelease
  <1>1. Init => Promise!Init
    <2> SUFFICES ASSUME Init PROVE Promise!Init
      OBVIOUS
    <2>1. \A v \in Videos : AttemptOn(v) = "none"
      BY DEF Init, AttemptOn, ActiveOn, Active, NoRow, None
    <2> QED
      BY <2>1 DEF Init, Promise!Init
  <1>2. Spec => []SequentialAttempts /\ []CoherentRelease
    BY AttemptsAreSequential, ReleaseIsCoherent
  <1> QED
    BY <1>1, <1>2, PromiseStep, BaseInvariant, PTL
       DEF Spec, ImplementsVideoRelease, Promise!Spec
=============================================================================
