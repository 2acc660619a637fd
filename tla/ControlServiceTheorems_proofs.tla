------------------- MODULE ControlServiceTheorems_proofs -------------------
(***************************************************************************)
(* The safety properties of ControlService, for every value of its         *)
(* constants, as consequences of the inductive invariant; that the service *)
(* implements RunLifecycle; and that workers come to the end of a run.     *)
(***************************************************************************)
EXTENDS ControlServiceSafety_proofs

(* A run is never executed by two workers.                                 *)
THEOREM RunsHaveOneExecutor == Spec => []OneExecutor
<1>1. SafeInv => OneExecutor
  BY DEF SafeInv
<1> QED
  BY <1>1, SafetyInvariance, PTL

(* A run is reported succeeded only when all its stages have succeeded.    *)
THEOREM SuccessImpliesComplete == Spec => []SuccessIsComplete
<1>1. SafeInv => SuccessIsComplete
  BY DEF SafeInv, RunInv, Complete, SuccessIsComplete, Finished
<1> QED
  BY <1>1, SafetyInvariance, PTL

(* Stages are started in order, each after the one before it succeeded.    *)
THEOREM StagesRunInOrder == Spec => []StagesInOrder
<1>1. SafeInv => StagesInOrder
  <2>1. \A s \in Stages : \A t \in 1..(s - 1) : t \in Stages /\ t < s
    BY StoreAssumption DEF Stages
  <2> QED
    BY <2>1 DEF SafeInv, RunInv, Ordered, Untouched, StagesInOrder, Finished
<1> QED
  BY <1>1, SafetyInvariance, PTL

(* current_stage is the stage in hand or the one just finished.            *)
THEOREM CurrentStageIsRight == Spec => []CurrentStageAgrees
<1>1. TypeInv /\ SafeInv => CurrentStageAgrees
  <2> SUFFICES ASSUME TypeInv, SafeInv, NEW p \in Runs
               PROVE  Finished(p) \in IF curStage[p] = 0 THEN {{}}
                                      ELSE {1..(curStage[p] - 1), 1..curStage[p]}
    BY DEF CurrentStageAgrees
  <2>1. PICK c \in 0..NumStages : c = curStage[p]
    BY DEF TypeInv, StoreTypeOK
  <2>2. \A s \in Stages : (sStatus[p][s] = "succeeded" => s <= c) /\ (s < c => sStatus[p][s] = "succeeded")
    BY <2>1 DEF SafeInv, RunInv, Counted
  <2>3. CASE c = 0
    <3>1. Finished(p) = {}
      BY <2>2, <2>3, StoreAssumption DEF Finished, Stages
    <3> QED
      BY <2>1, <2>3, <3>1
  <2>4. CASE c # 0 /\ sStatus[p][c] = "succeeded"
    <3>1. Finished(p) = 1..c
      BY <2>2, <2>4, StoreAssumption DEF Finished, Stages
    <3> QED
      BY <2>1, <2>4, <3>1
  <2>5. CASE c # 0 /\ sStatus[p][c] # "succeeded"
    <3>1. Finished(p) = 1..(c - 1)
      BY <2>2, <2>5, StoreAssumption DEF Finished, Stages
    <3> QED
      BY <2>1, <2>5, <3>1
  <2> QED
    BY <2>3, <2>4, <2>5
<1> QED
  BY <1>1, TypeInvariance, SafetyInvariance, PTL

(* A run never occupies two containers at a time.                          *)
THEOREM RunsHaveOneContainer == Spec => []OneContainer
<1>1. SafeInv => OneContainer
  BY DEF SafeInv, RunInv, OneActive, OneContainer
<1> QED
  BY <1>1, SafetyInvariance, PTL

-----------------------------------------------------------------------------
(* A worker moves no other goroutine.                                      *)
LEMMA WorkerAlone ==
    ASSUME TypeInv, NEW w \in Workers, Worker(w)
    PROVE  /\ UNCHANGED <<procVars, callVars, rIds>>
           /\ \A v \in Workers \ {w} : LocalsKept(v)
<1>1. UNCHANGED <<procVars, callVars, rIds>>
  BY
  DEF Worker, Dequeue, Claim, Load, CheckStage, LeaveIfCanceled, MarkRunning, RunController,
      Launch, Record, Abandon, WaitTick, Poll, StopTask, Release, AfterStage, SaveStage,
      Advance, Finish, WriteRun, WriteRunFails, FailStage, FailRun
<1>2. \A v \in Workers \ {w} : LocalsKept(v)
  BY
  DEF Worker, Dequeue, Claim, Load, CheckStage, LeaveIfCanceled, MarkRunning, RunController,
      Launch, Record, Abandon, WaitTick, Poll, StopTask, Release, AfterStage, SaveStage,
      Advance, Finish, WriteStage, WriteRun, WriteRunFails, FailStage, FailRun, WorkerGo,
      WorkerDone, LocalsKept, TypeInv, GoroutineInv, ExecutorTypeOK
<1> QED
  BY <1>1, <1>2

(* A container that is deleted, or stops, is one that was created.         *)
LEMMA TasksOnlyEnd ==
    ASSUME TypeInv, UNCHANGED gcsVars \/ \E p \in Runs, s \in Stages : DeleteTask(p, s) \/ TaskEnds(p, s),
           NEW q \in Runs, NEW t \in Stages
    PROVE  /\ task'[q][t] = "active" => task[q][t] = "active"
           /\ task[q][t] = "none" => task'[q][t] = "none"
  BY DEF DeleteTask, RemoveTask, TaskEnds, gcsVars, TypeInv, GcsTypeOK

(* Only workers create containers: what the others do to the containers,   *)
(* and to the workers, unless the process ends.                            *)
LEMMA OthersEndTasks ==
    ASSUME TypeInv, [Next]_vars, ~(Crash \/ Exit), \A w \in Workers : ~Worker(w)
    PROVE  /\ UNCHANGED workerVars
           /\ UNCHANGED gcsVars \/ \E p \in Runs, s \in Stages : DeleteTask(p, s) \/ TaskEnds(p, s)
<1>0. Recovery \in Callers /\ \A c \in Clients : c \in Callers
  BY DEF Callers
<1>1. CASE Boot \/ Shutdown \/ UNCHANGED vars
  BY <1>1 DEF Boot, Shutdown, vars, executorVars
<1>2. ASSUME NEW c \in Callers, ReleaseContainers(c)
      PROVE  UNCHANGED workerVars /\ \E p \in Runs, s \in Stages : DeleteTask(p, s)
  BY <1>2
  DEF ReleaseContainers, TypeInv, GoroutineInv, ExecutorTypeOK, CallersHoldRuns, StageCopies
<1>3. CASE Recover /\ ~ReleaseContainers(Recovery)
  BY <1>3
  DEF Recover, RecoverCollect, RecoverNext, SubmitPipeline, RecoverSubmitAborts,
      ListContainers, RecoverStages, RecoverMarkStage, MarkStage, RecoverFailRun
<1>4. ASSUME NEW c \in Clients, Client(c), ~ReleaseContainers(c)
      PROVE  UNCHANGED <<workerVars, gcsVars>>
  BY <1>4
  DEF Client, StartPipeline, CancelPipeline, CancelListStages, CancelMarkStage, MarkStage,
      HangUp, SubmitPipeline, ListContainers
<1>5. ASSUME NEW q \in Runs, Create(q)
      PROVE  UNCHANGED <<workerVars, gcsVars>>
  BY <1>5 DEF Create, CreateRun, CreateStage, CreateFails
<1>6. CASE ContainerEnds
  BY <1>6, GcsAssumption DEF ContainerEnds, executorVars
<1> QED
  BY <1>0, <1>1, <1>2, <1>3, <1>4, <1>5, <1>6 DEF Next

(* Until its container is created, the stage in hand has none, not even a  *)
(* stopped or deleted one.                                                 *)
ToCreate(w) == wPc[w] \in {"check", "mark", "execute"}
FreshInv == \A w \in Workers : ToCreate(w) => task[wRun[w]][wStage[w]] = "none"

LEMMA OwnNameFresh ==
    ASSUME TypeInv, TypeInv', SafeInv, FreshInv, NEW w \in Workers, Worker(w)
    PROVE  ToCreate(w)' => task'[wRun'[w]][wStage'[w]] = "none"
<1>1. CASE wPc'[w] \notin {"check", "mark", "execute"}
  BY <1>1 DEF ToCreate
<1>2. CASE Load(w) /\ wPc'[w] = "check"
  <2>1. /\ wPc[w] = "load" /\ UNCHANGED task /\ wRun'[w] = wRun[w] /\ wStage'[w] = wStage[w]
    BY <1>2 DEF Load, WorkerGo, gcsVars
  <2>2. HandFirst("load", wRun[w], wStage[w]) /\ wStage[w] \in Stages
    BY <2>1 DEF SafeInv, HandInv, Hand, TypeInv, GoroutineInv, ExecutorTypeOK
  <2> QED
    BY <2>1, <2>2 DEF HandFirst, ToCreate
<1>3. CASE Advance(w) /\ wPc'[w] = "check"
  <2>1. /\ wPc[w] = "advance" /\ UNCHANGED task /\ wRun'[w] = wRun[w] /\ wStage'[w] = wStage[w] + 1
    BY <1>3
    DEF Advance, WriteRun, WriteRunFails, WorkerGo, gcsVars, TypeInv, GoroutineInv, ExecutorTypeOK
  <2>2. HandOthers("advance", wRun[w], wStage[w]) /\ wStage[w] \in Stages /\ wStage'[w] \in Stages
    BY <2>1 DEF SafeInv, HandInv, Hand, TypeInv, GoroutineInv, ExecutorTypeOK
  <2>3. wStage'[w] > wStage[w]
    BY <2>1, <2>2, StoreAssumption DEF Stages
  <2> QED
    BY <2>1, <2>2, <2>3 DEF HandOthers, ToCreate, LoopPc, DonePc
<1>4. CASE (CheckStage(w) \/ MarkRunning(w)) /\ wPc'[w] \in {"check", "mark", "execute"}
  <2>1. wPc[w] \in {"check", "mark"} /\ UNCHANGED task
    BY <1>4 DEF CheckStage, LeaveIfCanceled, MarkRunning, WriteStage, gcsVars
  <2>2. wRun'[w] = wRun[w] /\ wStage'[w] = wStage[w]
    BY <1>4
    DEF CheckStage, LeaveIfCanceled, MarkRunning, WriteStage, WorkerGo, WorkerDone, TypeInv,
        GoroutineInv, ExecutorTypeOK
  <2> QED
    BY <2>1, <2>2 DEF FreshInv, ToCreate
<1>5. CASE \/ Dequeue(w) \/ Claim(w) \/ RunController(w) \/ Launch(w) \/ Record(w)
           \/ Abandon(w) \/ WaitTick(w) \/ Poll(w) \/ StopTask(w) \/ Release(w)
  BY <1>1, <1>5
  DEF Dequeue, Claim, RunController, Launch, Record, Abandon, WaitTick, Poll, AfterPoll,
      StopTask, Release, ReleaseResult, WriteStage, WorkerGo, WorkerDone, TypeInv, GoroutineInv,
      ExecutorTypeOK
<1>6. CASE AfterStage(w) \/ SaveStage(w) \/ Finish(w) \/ FailStage(w) \/ FailRun(w)
  BY <1>1, <1>6
  DEF AfterStage, LeaveIfCanceled, SaveStage, Finish, WriteRunFails, FailStage, FailRun,
      WriteStage, WorkerGo, WorkerDone, TypeInv, GoroutineInv, ExecutorTypeOK
<1>7. CASE (Load(w) \/ Advance(w)) /\ wPc'[w] # "check"
  BY <1>1, <1>7
  DEF Load, Advance, WriteRunFails, WorkerGo, TypeInv, GoroutineInv, ExecutorTypeOK
<1> QED
  BY <1>1, <1>2, <1>3, <1>4, <1>5, <1>6, <1>7 DEF Worker

(* A worker creates a container for no run but its own.                    *)
LEMMA WorkerEndsTasks ==
    ASSUME TypeInv, NEW w \in Workers, Worker(w), NEW q \in Runs, NEW t \in Stages,
           ~(wPc[w] = "execute" /\ wRun[w] = q)
    PROVE  task[q][t] = "none" => task'[q][t] = "none"
<1>1. CASE Launch(w)
  BY <1>1
  DEF Launch, CreateTask, gcsVars, TypeInv, GcsTypeOK, GoroutineInv, ExecutorTypeOK, WorkersHoldRuns
<1>2. CASE Abandon(w) \/ StopTask(w) \/ Release(w)
  <2>1. DeleteTask(wRun[w], wStage[w]) /\ wRun[w] \in Runs /\ wStage[w] \in Stages
    BY <1>2
    DEF Abandon, StopTask, Release, TypeInv, GoroutineInv, ExecutorTypeOK, WorkersHoldRuns
  <2> QED
    BY <2>1, TasksOnlyEnd
<1>3. CASE ~(Launch(w) \/ Abandon(w) \/ StopTask(w) \/ Release(w))
  <2>1. UNCHANGED task
    BY <1>3
    DEF Worker, Dequeue, Claim, Load, CheckStage, LeaveIfCanceled, MarkRunning, RunController,
        Record, WaitTick, Poll, AfterStage, SaveStage, Advance, Finish, WriteStage, WriteRun,
        WriteRunFails, FailStage, FailRun, gcsVars
  <2> QED
    BY <2>1
<1> QED
  BY <1>1, <1>2, <1>3

LEMMA FreshStep ==
    ASSUME TypeInv, TypeInv', SafeInv, FreshInv, [Next]_vars
    PROVE  FreshInv'
<1>1. CASE Crash \/ Exit
  BY <1>1 DEF Crash, Exit, Die, LoseMemory, FreshInv, ToCreate
<1>2. ASSUME NEW w \in Workers, Worker(w)
      PROVE  FreshInv'
  <2> SUFFICES ASSUME NEW v \in Workers
               PROVE  ToCreate(v)' => task'[wRun'[v]][wStage'[v]] = "none"
    BY DEF FreshInv
  <2>1. CASE v = w
    BY <1>2, <2>1, OwnNameFresh
  <2>2. CASE v # w /\ ToCreate(v)
    <3>1. LocalsKept(v)
      BY <1>2, <2>2, WorkerAlone
    <3>2. wRun[v] \in Runs /\ wStage[v] \in Stages
      BY <2>2 DEF ToCreate, TypeInv, GoroutineInv, ExecutorTypeOK, WorkersHoldRuns
    <3>3. ~(wPc[w] = "execute" /\ wRun[w] = wRun[v])
      BY <2>2, <3>2 DEF ToCreate, SafeInv, OneExecutor, Executing, ExecutePc
    <3>4. task'[wRun[v]][wStage[v]] = "none"
      BY <1>2, <2>2, <3>2, <3>3, WorkerEndsTasks DEF FreshInv, ToCreate
    <3> QED
      BY <3>1, <3>4 DEF LocalsKept, ToCreate
  <2>3. CASE v # w /\ ~ToCreate(v)
    BY <1>2, <2>3, WorkerAlone DEF LocalsKept, ToCreate
  <2> QED
    BY <2>1, <2>2, <2>3
<1>3. CASE ~(Crash \/ Exit) /\ \A w \in Workers : ~Worker(w)
  <2> SUFFICES ASSUME NEW v \in Workers, ToCreate(v)'
               PROVE  task'[wRun'[v]][wStage'[v]] = "none"
    BY DEF FreshInv, ToCreate
  <2>1. UNCHANGED <<wPc, wRun, wStage>>
    BY <1>3, OthersEndTasks DEF workerVars
  <2>2. wRun[v] \in Runs /\ wStage[v] \in Stages
    BY <2>1 DEF ToCreate, TypeInv, GoroutineInv, ExecutorTypeOK, WorkersHoldRuns
  <2> QED
    BY <1>3, <2>1, <2>2, OthersEndTasks, TasksOnlyEnd DEF FreshInv, ToCreate
<1> QED
  BY <1>1, <1>2, <1>3

(* Every container is created under a name that no process used before.    *)
THEOREM NamesAreFresh == Spec => []NamesFresh
<1>1. Init => FreshInv
  BY DEF Init, ExecutorInit, FreshInv, ToCreate
<1>2. FreshInv => NamesFresh
  BY DEF FreshInv, ToCreate, NamesFresh
<1> QED
  BY <1>1, <1>2, FreshStep, TypeInvariance, SafetyInvariance, PTL DEF Spec

-----------------------------------------------------------------------------
(* How far a worker is from the end of its run: the steps left of the      *)
(* stage in hand, and the stages after it.                                 *)
StepsOfStage == 13

StepsLeft(pc) ==
    CASE pc = "load" -> 13
      [] pc = "check" -> 12
      [] pc = "mark" -> 11
      [] pc = "execute" -> 10
      [] pc = "record" -> 9
      [] pc \in {"wait", "poll"} -> 8
      [] pc = "stop" -> 7
      [] pc \in {"abandon", "releaseOk", "releaseErr"} -> 6
      [] pc \in {"ranOk", "ranErr"} -> 5
      [] pc \in {"saveStage", "failStage"} -> 4
      [] pc \in {"advance", "finish", "failRun"} -> 3
      [] pc = "deferFail" -> 2
      [] OTHER -> 0

Distance(w) == StepsOfStage * (NumStages - wStage[w]) + StepsLeft(wPc[w])

Polling(w) == wPc[w] \in {"wait", "poll"}

(* A worker that executes a run comes nearer to its end, or leaves the     *)
(* run, with every step but a poll that found the container not ended:     *)
(* nothing but the wait for a container keeps a worker from its next run.  *)
Nearer(w) ==
    \/ LocalsKept(w)
    \/ wPc'[w] = "idle"
    \/ Polling(w) /\ Polling(w)' /\ wStage'[w] = wStage[w]
    \/ Distance(w)' < Distance(w)

LEMMA DistanceBound ==
    ASSUME TypeInv, NEW w \in Workers
    PROVE  Distance(w) \in 0..(StepsOfStage * NumStages)
<1>1. wStage[w] \in 1..NumStages
  BY DEF TypeInv, GoroutineInv, ExecutorTypeOK, Stages
<1>2. StepsLeft(wPc[w]) \in 0..13
  BY DEF StepsLeft
<1> QED
  BY <1>1, <1>2, StoreAssumption DEF Distance, StepsOfStage

(* Going on with the same stage, the worker is nearer at fewer steps left. *)
LEMMA GoesNearer ==
    ASSUME TypeInv, NEW w \in Workers, NEW pc, WorkerGo(w, pc),
           StepsLeft(pc) < StepsLeft(wPc[w])
    PROVE  Nearer(w)
<1>1. wPc'[w] = pc /\ wStage'[w] = wStage[w]
  BY GoEffect
<1>2. wStage[w] \in 1..NumStages /\ StepsLeft(pc) \in 0..13 /\ StepsLeft(wPc[w]) \in 0..13
  BY DEF StepsLeft, TypeInv, GoroutineInv, ExecutorTypeOK, Stages
<1>3. Distance(w)' = StepsOfStage * (NumStages - wStage[w]) + StepsLeft(pc)
  BY <1>1 DEF Distance
<1>4. Distance(w)' < Distance(w)
  BY <1>2, <1>3, StoreAssumption DEF Distance, StepsOfStage
<1> QED
  BY <1>4 DEF Nearer

LEMMA WorkerNearer ==
    ASSUME TypeInv, NEW w \in Workers, Worker(w), wPc[w] \in ExecutePc
    PROVE  Nearer(w)
<1>1. CASE Dequeue(w) \/ Claim(w)
  BY <1>1, PcClasses DEF Dequeue, Claim
<1>2. CASE WorkerDone(w)
  BY <1>2, DoneEffect DEF Nearer
<1>3. CASE Load(w) \/ CheckStage(w) \/ RunController(w) \/ Abandon(w) \/ StopTask(w) \/ Release(w)
           \/ AfterStage(w)
  BY <1>2, <1>3, GoesNearer
  DEF Load, CheckStage, LeaveIfCanceled, RunController, Abandon, StopTask, Release,
      ReleaseResult, AfterStage, StepsLeft
<1>4. CASE MarkRunning(w) \/ Record(w) \/ SaveStage(w) \/ FailStage(w)
  BY <1>4, GoesNearer DEF MarkRunning, Record, SaveStage, FailStage, WriteStage, StepsLeft
<1>5. CASE Launch(w)
  <2>1. CASE wPc' = [wPc EXCEPT ![w] = "record"] /\ UNCHANGED wStage
    <3>1. wPc[w] = "execute" /\ wPc'[w] = "record" /\ wStage'[w] = wStage[w]
      BY <1>5, <2>1 DEF Launch, TypeInv, GoroutineInv, ExecutorTypeOK
    <3>2. wStage[w] \in 1..NumStages
      BY DEF TypeInv, GoroutineInv, ExecutorTypeOK, Stages
    <3> QED
      BY <3>1, <3>2, StoreAssumption DEF Nearer, Distance, StepsOfStage, StepsLeft
  <2>2. CASE wPc[w] = "execute" /\ WorkerGo(w, "ranErr")
    BY <2>2, GoesNearer DEF StepsLeft
  <2> QED
    BY <1>5, <2>1, <2>2 DEF Launch
<1>6. CASE WaitTick(w) \/ Poll(w)
  <2>1. /\ wPc[w] \in {"wait", "poll"}
        /\ \E pc \in {"wait", "poll", "stop", "releaseOk", "releaseErr"} : WorkerGo(w, pc)
    BY <1>6 DEF WaitTick, Poll, AfterPoll, WriteStage
  <2>2. CASE \E pc \in {"wait", "poll"} : WorkerGo(w, pc)
    BY <2>1, <2>2, GoEffect DEF Nearer, Polling
  <2>3. CASE \E pc \in {"stop", "releaseOk", "releaseErr"} : WorkerGo(w, pc)
    BY <2>1, <2>3, GoesNearer DEF StepsLeft
  <2> QED
    BY <2>1, <2>2, <2>3
<1>7. CASE Advance(w)
  <2>1. CASE wPc' = [wPc EXCEPT ![w] = "check"] /\ wStage' = [wStage EXCEPT ![w] = @ + 1]
    <3>1. wPc[w] = "advance" /\ wPc'[w] = "check" /\ wStage'[w] = wStage[w] + 1
      BY <1>7, <2>1 DEF Advance, TypeInv, GoroutineInv, ExecutorTypeOK
    <3>2. wStage[w] \in 1..NumStages
      BY DEF TypeInv, GoroutineInv, ExecutorTypeOK, Stages
    <3> QED
      BY <3>1, <3>2, StoreAssumption DEF Nearer, Distance, StepsOfStage, StepsLeft
  <2>2. CASE wPc[w] = "advance" /\ WorkerGo(w, "deferFail")
    BY <2>2, GoesNearer DEF StepsLeft
  <2> QED
    BY <1>7, <2>1, <2>2 DEF Advance, WriteRunFails
<1>8. CASE Finish(w) \/ FailRun(w)
  BY <1>2, <1>8, GoesNearer DEF Finish, WriteRunFails, FailRun, StepsLeft
<1> QED
  BY <1>1, <1>3, <1>4, <1>5, <1>6, <1>7, <1>8 DEF Worker

(* With every step of an execution that is not a poll, its worker comes    *)
(* nearer to being idle again; it starts at most StepsOfStage * NumStages  *)
(* steps away.                                                             *)
THEOREM WorkersComeNearer ==
    Spec => [][\A w \in Workers :
                   wPc[w] \in ExecutePc =>
                       Nearer(w) /\ Distance(w) \in 0..(StepsOfStage * NumStages)]_vars
<1>1. ASSUME TypeInv, [Next]_vars, NEW w \in Workers, wPc[w] \in ExecutePc
      PROVE  Nearer(w)
  <2>1. CASE Crash \/ Exit
    BY <1>1, <2>1 DEF Crash, Exit, Die, LoseMemory, Nearer
  <2>2. ASSUME NEW v \in Workers, Worker(v)
        PROVE  Nearer(w)
    BY <1>1, <2>2, WorkerNearer, WorkerAlone DEF Nearer
  <2>3. CASE ~(Crash \/ Exit) /\ \A v \in Workers : ~Worker(v)
    BY <1>1, <2>3, OthersEndTasks DEF workerVars, LocalsKept, Nearer
  <2> QED
    BY <2>1, <2>2, <2>3
<1>2. TypeInv /\ [Next]_vars =>
          [\A w \in Workers :
               wPc[w] \in ExecutePc =>
                   Nearer(w) /\ Distance(w) \in 0..(StepsOfStage * NumStages)]_vars
  BY <1>1, DistanceBound
<1> QED
  BY <1>2, TypeInvariance, PTL DEF Spec

-----------------------------------------------------------------------------
(* What a step of the system may do to the rows of the runs.               *)
StatusMoves(p, st) ==
    \/ pStatus[p] = "absent" /\ st = "pending"
    \/ pStatus[p] = "pending" /\ st = "scheduled"
    \/ pStatus[p] = "running" /\ st = "failed"
    \/ pStatus[p] \in NonTerminal /\ st = "canceled"
    \/ pStatus[p] = "running" /\ st = "succeeded" /\ Finished(p) = Stages

Claimed(p) ==
    /\ pStatus[p] = "scheduled"
    /\ pStatus' = [pStatus EXCEPT ![p] = "running"]
    /\ curStage' = [curStage EXCEPT ![p] = 1]

Advanced(p) ==
    /\ pStatus[p] = "running" /\ UNCHANGED pStatus
    /\ curStage[p] < NumStages /\ Finished(p) = 1..curStage[p]
    /\ curStage' = [curStage EXCEPT ![p] = curStage[p] + 1]

RunMoves(p) ==
    /\ UNCHANGED sStatus
    /\ \/ \E st : /\ StatusMoves(p, st)
                  /\ pStatus' = [pStatus EXCEPT ![p] = st]
                  /\ UNCHANGED curStage
       \/ Claimed(p) \/ Advanced(p)

StageMoves(p, s, st) ==
    /\ UNCHANGED <<pStatus, curStage>>
    /\ sStatus' = [sStatus EXCEPT ![p][s] = st]
    /\ \/ st # "succeeded" /\ sStatus[p][s] \in {"absent", st} \cup NonTerminal
       \/ /\ st = "succeeded" /\ sStatus[p][s] \in NonTerminal
          /\ pStatus[p] \in {"running", "failed", "canceled"}
          /\ s = curStage[p] /\ Finished(p) = 1..(s - 1)

RowsMove ==
    \/ UNCHANGED <<pStatus, curStage, sStatus>>
    \/ \E p \in Runs : RunMoves(p)
    \/ \E p \in Runs, s \in Stages : \E st : StageMoves(p, s, st)

(* The worker's snapshot of a stage row that it marks running or failed.   *)
LEMMA SnapshotMoves ==
    ASSUME TypeInv, NEW p \in Runs, NEW s \in Stages, NEW cont,
           NEW st \in {"running", "failed", "canceled"},
           UpdateStage(p, s, st, cont) \/ UNCHANGED stageRow, UNCHANGED runRow
    PROVE  RowsMove
<1>1. CASE UpdateStage(p, s, st, cont)
  <2>1. StageMoves(p, s, st)
    BY <1>1 DEF StageMoves, UpdateStage, StageOpen, runRow
  <2> QED
    BY <2>1 DEF RowsMove
<1>2. CASE UNCHANGED stageRow
  BY <1>2 DEF RowsMove, runRow, stageRow
<1> QED
  BY <1>1, <1>2

LEMMA WriteMoves ==
    ASSUME TypeInv, NEW w \in Workers, wPc[w] # "idle", NEW okPc, NEW errPc,
           NEW st \in {"running", "failed"}, WriteStage(w, st, okPc, errPc)
    PROVE  RowsMove
<1>1. PICK p \in Runs, s \in Stages, cont \in BOOLEAN : p = wRun[w] /\ s = wStage[w] /\ cont = wCont[w]
  BY DEF TypeInv, GoroutineInv, ExecutorTypeOK, WorkersHoldRuns
<1>2. UNCHANGED runRow /\ (UpdateStage(p, s, st, cont) \/ UNCHANGED stageRow)
  BY <1>1 DEF WriteStage
<1> QED
  BY <1>1, <1>2, SnapshotMoves

(* The result of a stage is recorded while it is the one in hand.          *)
LEMMA SaveMoves ==
    ASSUME TypeInv, SafeInv, NEW w \in Workers, SaveStage(w)
    PROVE  RowsMove
<1>1. PICK p \in Runs, k \in Stages : p = wRun[w] /\ k = wStage[w]
  BY DEF TypeInv, GoroutineInv, ExecutorTypeOK, WorkersHoldRuns, SaveStage
<1>2. wPc[w] = "saveStage" /\ "saveStage" \in BusyPc /\ Hand("saveStage", p, k)
  BY <1>1 DEF SaveStage, BusyPc, SafeInv, HandInv
<1>3. UNCHANGED runRow
  BY DEF SaveStage, WriteStage
<1>4. CASE UNCHANGED stageRow
  BY <1>3, <1>4 DEF RowsMove, runRow, stageRow
<1>5. CASE UpdateStage(p, k, "succeeded", wCont[w])
  <2>1. /\ curStage[p] = k /\ pStatus[p] \in {"running", "failed", "canceled"}
        /\ sStatus[p][k] \in {"running", "failed", "canceled"}
        /\ \A s \in Stages : s < k => sStatus[p][s] = "succeeded"
        /\ \A s \in Stages : s > k => sStatus[p][s] = "pending"
    BY <1>2, PcClasses DEF Hand, HandRun, HandOthers, HandRow
  <2>2. Finished(p) = 1..(k - 1)
    BY <2>1, StoreAssumption DEF Finished, Stages
  <2>3. StageMoves(p, k, "succeeded")
    BY <1>3, <1>5, <2>1, <2>2 DEF StageMoves, UpdateStage, StageOpen, NonTerminal, runRow
  <2> QED
    BY <2>3 DEF RowsMove
<1> QED
  BY <1>1, <1>4, <1>5 DEF SaveStage, WriteStage

LEMMA AdvanceMoves ==
    ASSUME TypeInv, SafeInv, NEW w \in Workers, Advance(w)
    PROVE  RowsMove
<1>1. PICK p \in Runs, k \in Stages : p = wRun[w] /\ k = wStage[w] /\ k < NumStages
  BY DEF TypeInv, GoroutineInv, ExecutorTypeOK, WorkersHoldRuns, Advance
<1>2. wPc[w] = "advance" /\ "advance" \in DonePc /\ Hand("advance", p, k)
  BY <1>1 DEF Advance, DonePc, SafeInv, HandInv
<1>3. UNCHANGED stageRow /\ (UNCHANGED runRow \/ UpdateRun(p, "running", k + 1))
  BY <1>1 DEF Advance, WriteRun, WriteRunFails
<1>4. CASE UNCHANGED runRow
  BY <1>3, <1>4 DEF RowsMove, runRow, stageRow
<1>5. CASE UpdateRun(p, "running", k + 1)
  <2>1. /\ curStage[p] = k /\ pStatus[p] = "running" /\ sStatus[p][k] = "succeeded"
        /\ \A s \in Stages : s < k => sStatus[p][s] = "succeeded"
        /\ \A s \in Stages : s > k => sStatus[p][s] = "pending"
    BY <1>2, <1>5, PcClasses
    DEF Hand, HandRun, HandOthers, HandRow, UpdateRun, RunOpen, NonTerminal
  <2>2. Finished(p) = 1..k
    BY <2>1, StoreAssumption DEF Finished, Stages
  <2>3. UNCHANGED pStatus
    BY <1>5, <2>1 DEF UpdateRun, TypeInv, StoreTypeOK
  <2>4. Advanced(p)
    BY <1>1, <1>5, <2>1, <2>2, <2>3 DEF Advanced, UpdateRun
  <2> QED
    BY <1>3, <2>4 DEF RowsMove, RunMoves, stageRow
<1> QED
  BY <1>3, <1>4, <1>5

LEMMA FinishMoves ==
    ASSUME TypeInv, SafeInv, NEW w \in Workers, Finish(w)
    PROVE  RowsMove
<1>1. PICK p \in Runs, k \in Stages : p = wRun[w] /\ k = wStage[w]
  BY DEF TypeInv, GoroutineInv, ExecutorTypeOK, WorkersHoldRuns, Finish
<1>2. wPc[w] = "finish" /\ "finish" \in DonePc /\ Hand("finish", p, k)
  BY <1>1 DEF Finish, DonePc, SafeInv, HandInv
<1>3. UNCHANGED stageRow /\ (UNCHANGED runRow \/ UpdateRun(p, "succeeded", k))
  BY <1>1 DEF Finish, WriteRun, WriteRunFails
<1>4. CASE UNCHANGED runRow
  BY <1>3, <1>4 DEF RowsMove, runRow, stageRow
<1>5. CASE UpdateRun(p, "succeeded", k)
  <2>1. /\ k = NumStages /\ curStage[p] = k /\ sStatus[p][k] = "succeeded"
        /\ pStatus[p] = "running"
        /\ \A s \in Stages : s < k => sStatus[p][s] = "succeeded"
    BY <1>2, <1>5, PcClasses
    DEF Hand, HandRun, HandOthers, HandRow, UpdateRun, RunOpen, NonTerminal
  <2>2. Finished(p) = Stages
    BY <2>1, StoreAssumption DEF Finished, Stages
  <2>3. UNCHANGED curStage
    BY <1>5, <2>1 DEF UpdateRun, TypeInv, StoreTypeOK
  <2>4. StatusMoves(p, "succeeded") /\ pStatus' = [pStatus EXCEPT ![p] = "succeeded"]
    BY <1>5, <2>1, <2>2 DEF StatusMoves, UpdateRun
  <2> QED
    BY <1>3, <2>3, <2>4 DEF RowsMove, RunMoves, stageRow
<1> QED
  BY <1>3, <1>4, <1>5

(* Only a run that was started is failed, by its worker or by recovery.    *)
LEMMA FailMoves ==
    ASSUME NEW p \in Runs, pStatus[p] \notin Unstarted, FailPipeline(p)
    PROVE  RowsMove
<1>1. UNCHANGED stageRow /\ (UNCHANGED runRow \/ UpdateStatus(p, "failed"))
  BY DEF FailPipeline
<1>2. CASE UNCHANGED runRow
  BY <1>1, <1>2 DEF RowsMove, runRow, stageRow
<1>3. CASE UpdateStatus(p, "failed")
  <2>1. StatusMoves(p, "failed")
    BY <1>3 DEF StatusMoves, UpdateStatus, RunOpen, NonTerminal, Unstarted
  <2> QED
    BY <1>1, <1>3, <2>1 DEF RowsMove, RunMoves, UpdateStatus, stageRow
<1> QED
  BY <1>1, <1>2, <1>3

LEMMA SilentMoves ==
    UNCHANGED <<runRow, stageRow>> => RowsMove
  BY DEF RowsMove, runRow, stageRow

LEMMA WorkerMoves ==
    ASSUME TypeInv, SafeInv, NEW w \in Workers, Worker(w)
    PROVE  RowsMove
<1>1. CASE Claim(w)
  <2>1. PICK p \in Runs : p = wRun[w]
    BY <1>1 DEF TypeInv, GoroutineInv, WorkersHoldRuns, Claim
  <2>2. CASE UNCHANGED <<runRow, stageRow>>
    BY <2>2, SilentMoves
  <2>3. CASE UNCHANGED stageRow /\ Transition(p, "scheduled", "running")
    <3>1. Claimed(p)
      BY <2>3 DEF Claimed, Transition, TypeInv, StoreTypeOK
    <3> QED
      BY <2>3, <3>1 DEF RowsMove, RunMoves, stageRow
  <2> QED
    BY <1>1, <2>1, <2>2, <2>3 DEF Claim
<1>2. CASE MarkRunning(w) \/ Record(w) \/ FailStage(w)
  BY <1>2, WriteMoves DEF MarkRunning, Record, FailStage
<1>3. CASE Poll(w)
  <2>1. wPc[w] # "idle" /\ (UNCHANGED <<runRow, stageRow>>
            \/ \E next : WriteStage(w, "running", next, "stop"))
    BY <1>3 DEF Poll, storeVars, runRow, stageRow
  <2> QED
    BY <2>1, SilentMoves, WriteMoves
<1>4. CASE FailRun(w)
  <2>1. PICK p \in Runs, pc \in {"failRun", "deferFail"} :
            p = wRun[w] /\ pc = wPc[w] /\ FailPipeline(p)
    BY <1>4 DEF TypeInv, GoroutineInv, WorkersHoldRuns, FailRun
  <2>2. HandRun(pc, p) /\ pc \in ExecutePc
    BY <2>1 DEF SafeInv, HandInv, Hand, ExecutePc
  <2>3. pStatus[p] \notin Unstarted
    BY <2>2 DEF HandRun, Unstarted
  <2> QED
    BY <2>1, <2>3, FailMoves
<1>5. CASE Dequeue(w) \/ Load(w) \/ CheckStage(w) \/ AfterStage(w)
  <2>1. UNCHANGED <<runRow, stageRow>>
    BY <1>5
    DEF Dequeue, Load, CheckStage, AfterStage, LeaveIfCanceled, storeVars, runRow, stageRow
  <2> QED
    BY <2>1, SilentMoves
<1>6. CASE RunController(w) \/ Launch(w) \/ Abandon(w) \/ WaitTick(w) \/ StopTask(w) \/ Release(w)
  <2>1. UNCHANGED <<runRow, stageRow>>
    BY <1>6
    DEF RunController, Launch, Abandon, WaitTick, StopTask, Release, storeVars, runRow, stageRow
  <2> QED
    BY <2>1, SilentMoves
<1> QED
  BY <1>1, <1>2, <1>3, <1>4, <1>5, <1>6, SaveMoves, AdvanceMoves, FinishMoves DEF Worker

(* The methods that requests and recovery share.                           *)
LEMMA MarkMoves ==
    ASSUME TypeInv, NEW c \in Callers, NEW st \in {"failed", "canceled"}, NEW after,
           MarkStage(c, st, after)
    PROVE  RowsMove
<1>1. PICK p \in Runs : p = cRun[c]
  BY DEF TypeInv, GoroutineInv, CallersHoldRuns, MarkStage
<1>2. PICK copy \in cTodo[c] : UpdateStage(p, copy[1], st, copy[2]) \/ UNCHANGED stageRow
  BY <1>1 DEF MarkStage
<1>3. PICK s \in Stages, cont \in BOOLEAN : s = copy[1] /\ cont = copy[2]
  BY DEF TypeInv, GoroutineInv, ExecutorTypeOK, StageCopies
<1>4. UNCHANGED runRow
  BY DEF MarkStage
<1> QED
  BY <1>2, <1>3, <1>4, SnapshotMoves

LEMMA SharedMoves ==
    ASSUME NEW c \in Callers, SubmitPipeline(c) \/ ListContainers(c) \/ ReleaseContainers(c)
    PROVE  RowsMove
<1>1. UNCHANGED <<runRow, stageRow>>
  BY DEF SubmitPipeline, ListContainers, ReleaseContainers, storeVars, runRow, stageRow
<1> QED
  BY <1>1, SilentMoves

LEMMA RecoverMoves ==
    ASSUME TypeInv, SafeInv, Recover
    PROVE  RowsMove
<1>0. Recovery \in Callers
  BY DEF Callers
<1>1. CASE RecoverCollect \/ RecoverNext \/ RecoverSubmitAborts \/ RecoverStages
  <2>1. UNCHANGED <<runRow, stageRow>>
    BY <1>1
    DEF RecoverCollect, RecoverNext, RecoverSubmitAborts, RecoverStages, storeVars, runRow, stageRow
  <2> QED
    BY <2>1, SilentMoves
<1>2. CASE RecoverMarkStage
  BY <1>0, <1>2, MarkMoves DEF RecoverMarkStage
<1>3. CASE RecoverFailRun
  <2>1. cRun[Recovery] \in Runs /\ pStatus[cRun[Recovery]] \notin Unstarted
    BY <1>0, <1>3
    DEF RecoverFailRun, TypeInv, GoroutineInv, CallersHoldRuns, SafeInv, CallInv
  <2> QED
    BY <1>3, <2>1, FailMoves DEF RecoverFailRun
<1> QED
  BY <1>0, <1>1, <1>2, <1>3, SharedMoves DEF Recover

LEMMA ClientMoves ==
    ASSUME TypeInv, NEW c \in Clients, Client(c)
    PROVE  RowsMove
<1>0. c \in Callers
  BY DEF Callers
<1>1. ASSUME NEW p \in Runs, StartPipeline(c, p)
      PROVE  RowsMove
  <2>1. StatusMoves(p, "scheduled") /\ UNCHANGED sStatus
    BY <1>1 DEF StartPipeline, Transition, StatusMoves, stageRow
  <2>2. pStatus' = [pStatus EXCEPT ![p] = "scheduled"] /\ UNCHANGED curStage
    BY <1>1 DEF StartPipeline, Transition, TypeInv, StoreTypeOK
  <2> QED
    BY <2>1, <2>2 DEF RowsMove, RunMoves
<1>2. ASSUME NEW p \in Runs, CancelPipeline(c, p)
      PROVE  RowsMove
  <2>1. /\ StatusMoves(p, "canceled") /\ UNCHANGED <<sStatus, curStage>>
        /\ pStatus' = [pStatus EXCEPT ![p] = "canceled"]
    BY <1>2 DEF CancelPipeline, UpdateStatus, RunOpen, StatusMoves, stageRow
  <2> QED
    BY <2>1 DEF RowsMove, RunMoves
<1>3. CASE CancelListStages(c) \/ HangUp(c)
  <2>1. UNCHANGED <<runRow, stageRow>>
    BY <1>3 DEF CancelListStages, HangUp, storeVars, runRow, stageRow
  <2> QED
    BY <2>1, SilentMoves
<1>4. CASE CancelMarkStage(c)
  BY <1>0, <1>4, MarkMoves DEF CancelMarkStage
<1> QED
  BY <1>0, <1>1, <1>2, <1>3, <1>4, SharedMoves DEF Client

LEMMA CreateMoves ==
    ASSUME TypeInv, NEW p \in Runs, Create(p)
    PROVE  RowsMove
<1>1. CASE CreateRun(p)
  <2>1. /\ StatusMoves(p, "pending") /\ UNCHANGED <<sStatus, curStage>>
        /\ pStatus' = [pStatus EXCEPT ![p] = "pending"]
    BY <1>1 DEF CreateRun, InsertRun, StatusMoves, stageRow
  <2> QED
    BY <2>1 DEF RowsMove, RunMoves
<1>2. CASE CreateStage(p)
  <2>1. PICK s \in Stages : StageMoves(p, s, "pending")
    BY <1>2 DEF CreateStage, InsertStage, StageMoves, runRow
  <2> QED
    BY <2>1 DEF RowsMove
<1>3. CASE CreateFails(p)
  BY <1>3, SilentMoves DEF CreateFails
<1> QED
  BY <1>1, <1>2, <1>3 DEF Create

LEMMA EnvironmentMoves == Environment => RowsMove
<1>1. Environment => UNCHANGED <<runRow, stageRow>>
  BY DEF Environment, Boot, Crash, Shutdown, Exit, Die, ContainerEnds, storeVars, runRow, stageRow
<1> QED
  BY <1>1, SilentMoves

LEMMA NextMoves == TypeInv /\ SafeInv /\ [Next]_vars => RowsMove
<1>1. UNCHANGED vars => RowsMove
  BY SilentMoves DEF vars, storeVars, runRow, stageRow
<1> QED
  BY <1>1, WorkerMoves, RecoverMoves, ClientMoves, CreateMoves, EnvironmentMoves
  DEF Next, Environment

-----------------------------------------------------------------------------
(* The end of a run, and of a stage, is never overwritten.                 *)
FinalKept ==
    \A p \in Runs :
        /\ pStatus[p] \in Terminal => pStatus'[p] = pStatus[p]
        /\ \A s \in Stages : sStatus[p][s] \in Terminal => sStatus'[p][s] = sStatus[p][s]

LEMMA EndsKept == TypeInv /\ SafeInv /\ [Next]_vars => FinalKept
<1>1. TypeInv /\ RowsMove => FinalKept
  <2> SUFFICES ASSUME TypeInv, RowsMove
               PROVE  FinalKept
    OBVIOUS
  <2>1. CASE UNCHANGED <<pStatus, curStage, sStatus>>
    BY <2>1 DEF FinalKept
  <2>2. ASSUME NEW p \in Runs, RunMoves(p)
        PROVE  FinalKept
    <3>1. pStatus[p] \in Terminal => UNCHANGED pStatus
      BY <2>2
      DEF RunMoves, StatusMoves, Claimed, Advanced, Terminal, NonTerminal
    <3>2. \A q \in Runs \ {p} : pStatus'[q] = pStatus[q]
      BY <2>2 DEF RunMoves, Claimed, Advanced, TypeInv, StoreTypeOK
    <3> QED
      BY <2>2, <3>1, <3>2 DEF FinalKept, RunMoves
  <2>3. ASSUME NEW p \in Runs, NEW s \in Stages, NEW st, StageMoves(p, s, st)
        PROVE  FinalKept
    <3>1. sStatus[p][s] \in Terminal => st = sStatus[p][s]
      BY <2>3 DEF StageMoves, Terminal, NonTerminal
    <3>2. /\ sStatus'[p][s] = st
          /\ \A q \in Runs, t \in Stages : q # p \/ t # s => sStatus'[q][t] = sStatus[q][t]
      BY <2>3 DEF StageMoves, TypeInv, StoreTypeOK
    <3> QED
      BY <2>3, <3>1, <3>2 DEF FinalKept, StageMoves
  <2> QED
    BY <2>1, <2>2, <2>3 DEF RowsMove
<1> QED
  BY <1>1, NextMoves

THEOREM EndsStayFinal == Spec => EndsAreFinal
<1>1. FinalKept => [\A p \in Runs :
           /\ pStatus[p] \in Terminal => pStatus'[p] = pStatus[p]
           /\ \A s \in Stages : sStatus[p][s] \in Terminal => sStatus'[p][s] = sStatus[p][s]]_vars
  BY DEF FinalKept
<1> QED
  BY <1>1, EndsKept, TypeInvariance, SafetyInvariance, PTL DEF Spec, EndsAreFinal

-----------------------------------------------------------------------------
(* The service implements RunLifecycle.                                    *)
LEMMA InitRefines == Init => Lifecycle!Init
<1> SUFFICES ASSUME Init
             PROVE  Lifecycle!Init
  OBVIOUS
<1>1. \A p \in Runs : Finished(p) = {}
  BY DEF Init, StoreInit, Finished
<1> QED
  BY <1>1 DEF Init, StoreInit, Lifecycle!Init

(* A step on the row of a run is a move of the run's life.                 *)
LEMMA RunMovesRefine ==
    ASSUME TypeInv, NEW p \in Runs, RunMoves(p)
    PROVE  Lifecycle!Next
<1>1. UNCHANGED [q \in Runs |-> Finished(q)]
  BY DEF RunMoves, Finished
<1>2. CASE Claimed(p)
  <2>1. Lifecycle!Claim(p)
    BY <1>1, <1>2 DEF Claimed, Lifecycle!Claim, Lifecycle!Move
  <2> QED
    BY <2>1 DEF Lifecycle!Next
<1>3. CASE Advanced(p)
  <2>1. Lifecycle!NextStage(p)
    BY <1>1, <1>3 DEF Advanced, Lifecycle!NextStage
  <2> QED
    BY <2>1 DEF Lifecycle!Next
<1>4. ASSUME NEW st, StatusMoves(p, st), pStatus' = [pStatus EXCEPT ![p] = st], UNCHANGED curStage
      PROVE  Lifecycle!Next
  <2>1. \/ Lifecycle!Submit(p) \/ Lifecycle!Schedule(p) \/ Lifecycle!Fail(p)
        \/ Lifecycle!Cancel(p) \/ Lifecycle!Succeed(p)
    BY <1>1, <1>4
    DEF StatusMoves, Lifecycle!Submit, Lifecycle!Schedule, Lifecycle!Fail, Lifecycle!Cancel,
        Lifecycle!Succeed, Lifecycle!Move, NonTerminal, Stages
  <2> QED
    BY <2>1 DEF Lifecycle!Next
<1> QED
  BY <1>2, <1>3, <1>4 DEF RunMoves

(* A step on the row of a stage is invisible, or it finishes the stage.    *)
LEMMA StageMovesRefine ==
    ASSUME TypeInv, NEW p \in Runs, NEW s \in Stages, NEW st, StageMoves(p, s, st)
    PROVE  Lifecycle!Next \/ UNCHANGED Lifecycle!lifecycleVars
<1>1. /\ sStatus'[p][s] = st
      /\ \A q \in Runs, t \in Stages : q # p \/ t # s => sStatus'[q][t] = sStatus[q][t]
  BY DEF StageMoves, TypeInv, StoreTypeOK
<1>2. \A q \in Runs \ {p} : Finished(q)' = Finished(q)
  BY <1>1 DEF Finished
<1>3. CASE st # "succeeded"
  <2>1. Finished(p)' = Finished(p)
    BY <1>1, <1>3 DEF StageMoves, NonTerminal, Finished
  <2>2. UNCHANGED [q \in Runs |-> Finished(q)]
    BY <1>2, <2>1
  <2> QED
    BY <2>2 DEF StageMoves, Lifecycle!lifecycleVars
<1>4. CASE st = "succeeded"
  <2>1. s = curStage[p] /\ Finished(p) = 1..(s - 1) /\ pStatus[p] \in {"running", "failed", "canceled"}
    BY <1>4 DEF StageMoves, NonTerminal
  <2>2. Finished(p)' = 1..s
    BY <1>1, <1>4, <2>1, StoreAssumption DEF Finished, Stages
  <2>3. [q \in Runs |-> Finished(q)]' = [[q \in Runs |-> Finished(q)] EXCEPT ![p] = 1..curStage[p]]
    BY <1>2, <2>1, <2>2
  <2>4. curStage[p] > 0
    BY <2>1, StoreAssumption DEF Stages
  <2>5. Lifecycle!FinishStage(p)
    BY <2>1, <2>3, <2>4 DEF Lifecycle!FinishStage, StageMoves
  <2> QED
    BY <2>5 DEF Lifecycle!Next
<1> QED
  BY <1>3, <1>4

THEOREM LifecycleImplemented == Spec => ImplementsLifecycle
<1>1. TypeInv /\ RowsMove => [Lifecycle!Next]_(Lifecycle!lifecycleVars)
  <2> SUFFICES ASSUME TypeInv, RowsMove
               PROVE  Lifecycle!Next \/ UNCHANGED Lifecycle!lifecycleVars
    OBVIOUS
  <2>1. CASE UNCHANGED <<pStatus, curStage, sStatus>>
    BY <2>1 DEF Lifecycle!lifecycleVars, Finished
  <2> QED
    BY <2>1, RunMovesRefine, StageMovesRefine DEF RowsMove
<1> QED
  BY <1>1, InitRefines, NextMoves, TypeInvariance, SafetyInvariance, PTL
  DEF Spec, ImplementsLifecycle, Lifecycle!Spec
=============================================================================
