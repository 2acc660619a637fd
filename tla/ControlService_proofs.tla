----------------------- MODULE ControlService_proofs -----------------------
(***************************************************************************)
(* Theorems about ControlService for any number of runs, stages, workers   *)
(* and clients, any queue, and any number of faults and restarts.          *)
(***************************************************************************)
EXTENDS ControlService, TLAPS

(* TypeOK is inductive together with what the goroutines hold: who works   *)
(* on a run has one, and a worker that moves on has a stage to move to.    *)
WorkersHoldRuns ==
    \A w \in Workers :
        /\ wPc[w] # "idle" => wRun[w] \in Runs
        /\ wPc[w] = "advance" => wStage[w] < NumStages

CallersHoldRuns ==
    \A c \in Callers : cPc[c] \notin {"idle", "collect", "next"} => cRun[c] \in Runs

GoroutineInv == ExecutorTypeOK /\ WorkersHoldRuns /\ CallersHoldRuns

TypeInv == StoreTypeOK /\ GcsTypeOK /\ GoroutineInv

LEMMA InitTypeInv == Init => TypeInv
  BY StoreAssumption, GcsAssumption, ExecutorAssumption
  DEF Init, StoreInit, GcsInit, ExecutorInit, TypeInv, StoreTypeOK, GcsTypeOK,
      GoroutineInv, ExecutorTypeOK, WorkersHoldRuns, CallersHoldRuns, Status, Terminal,
      NonTerminal, TaskState, WorkerPc, ExecutePc, CallerPc, Stages, StageCopies, Callers

-----------------------------------------------------------------------------
(* Whether a statement works or fails, the count of failures is in bounds. *)
LEMMA FaultCounts ==
    /\ StoreTypeOK /\ (UNCHANGED dbFaults \/ DbFault) => dbFaults' \in 0..MaxDbFaults
    /\ GcsTypeOK /\ (UNCHANGED gcsFaults \/ GcsFault) => gcsFaults' \in 0..MaxGcsFaults
  BY StoreAssumption, GcsAssumption DEF StoreTypeOK, GcsTypeOK, DbFault, GcsFault

(* Every statement on a run's row keeps the row well-typed.                *)
LEMMA RunRowType ==
    ASSUME StoreTypeOK, NEW p \in Runs, NEW from, NEW st \in Status, NEW k \in 0..NumStages,
           \/ Transition(p, from, st) \/ UpdateRun(p, st, k) \/ UpdateStatus(p, st)
           \/ UNCHANGED runRow
    PROVE  /\ pStatus' \in [Runs -> Status]
           /\ curStage' \in [Runs -> 0..NumStages]
<1>1. CASE Transition(p, from, st)
  BY <1>1, StoreAssumption DEF StoreTypeOK, Transition
<1>2. CASE UpdateRun(p, st, k)
  BY <1>2 DEF StoreTypeOK, UpdateRun
<1>3. CASE UpdateStatus(p, st)
  BY <1>3 DEF StoreTypeOK, UpdateStatus
<1>4. CASE UNCHANGED runRow
  BY <1>4 DEF StoreTypeOK, runRow
<1> QED
  BY <1>1, <1>2, <1>3, <1>4

(* Likewise for a stage's row.                                             *)
LEMMA StageRowType ==
    ASSUME StoreTypeOK, NEW p \in Runs, NEW s \in Stages, NEW st \in Status,
           NEW cont \in BOOLEAN,
           UpdateStage(p, s, st, cont) \/ UNCHANGED stageRow
    PROVE  /\ sStatus' \in [Runs -> [Stages -> Status]]
           /\ sCont' \in [Runs -> [Stages -> BOOLEAN]]
<1>1. CASE UpdateStage(p, s, st, cont)
  BY <1>1 DEF StoreTypeOK, UpdateStage
<1>2. CASE UNCHANGED stageRow
  BY <1>2 DEF StoreTypeOK, stageRow
<1> QED
  BY <1>1, <1>2

(* The requests to gcs-v2 keep the tasks well-typed.                       *)
LEMMA TaskType ==
    ASSUME GcsTypeOK, NEW p \in Runs, NEW s \in Stages,
           \/ CreateTask(p, s) /\ (UNCHANGED gcsFaults \/ GcsFault)
           \/ DeleteTask(p, s) \/ TaskEnds(p, s) \/ UNCHANGED gcsVars
    PROVE  GcsTypeOK'
<1>1. task' \in [Runs -> [Stages -> TaskState]]
  BY DEF GcsTypeOK, CreateTask, DeleteTask, RemoveTask, TaskEnds, gcsVars, TaskState
<1>2. gcsFaults' \in 0..MaxGcsFaults
  BY FaultCounts DEF GcsTypeOK, DeleteTask, TaskEnds, gcsVars
<1> QED
  BY <1>1, <1>2 DEF GcsTypeOK

(* A worker's next step and the end of its work.                           *)
LEMMA WorkerGoType ==
    ASSUME GoroutineInv, NEW w \in Workers, NEW pc \in WorkerPc \ {"idle"},
           wPc[w] # "idle", pc = "advance" => wStage[w] < NumStages,
           WorkerGo(w, pc), UNCHANGED <<procVars, queue, callVars, rIds>>
    PROVE  GoroutineInv'
  BY DEF GoroutineInv, ExecutorTypeOK, WorkersHoldRuns, CallersHoldRuns, WorkerGo,
         procVars, callVars

LEMMA WorkerDoneType ==
    ASSUME GoroutineInv, NEW w \in Workers,
           WorkerDone(w), UNCHANGED <<procVars, queue, callVars, rIds>>
    PROVE  GoroutineInv'
  BY StoreAssumption
  DEF GoroutineInv, ExecutorTypeOK, WorkersHoldRuns, CallersHoldRuns, WorkerDone,
      procVars, callVars, WorkerPc, Stages

(* WriteStage, of which the snapshot writes of a worker are instances.     *)
LEMMA WriteStageType ==
    ASSUME TypeInv, NEW w \in Workers, wPc[w] # "idle", NEW st \in Status,
           NEW okPc \in WorkerPc \ {"idle"}, NEW errPc \in WorkerPc \ {"idle"},
           "advance" \in {okPc, errPc} => wStage[w] < NumStages,
           WriteStage(w, st, okPc, errPc), UNCHANGED <<procVars, queue, callVars, rIds>>
    PROVE  TypeInv'
<1>1. wRun[w] \in Runs /\ wStage[w] \in Stages /\ wCont[w] \in BOOLEAN
  BY DEF TypeInv, GoroutineInv, ExecutorTypeOK, WorkersHoldRuns
<1>2. StoreTypeOK'
  <2>1. UNCHANGED runRow
    BY DEF WriteStage
  <2>2. UpdateStage(wRun[w], wStage[w], st, wCont[w]) \/ UNCHANGED stageRow
    BY DEF WriteStage
  <2>3. dbFaults' \in 0..MaxDbFaults
    BY FaultCounts DEF TypeInv, WriteStage, CtxAlive, WorkerDbFails
  <2> QED
    BY <1>1, <2>1, <2>2, <2>3, StageRowType DEF TypeInv, StoreTypeOK, runRow
<1>3. GcsTypeOK'
  BY DEF TypeInv, GcsTypeOK, WriteStage
<1>4. WorkerGo(w, okPc) \/ WorkerGo(w, errPc)
  BY DEF WriteStage
<1>5. GoroutineInv'
  BY <1>4, WorkerGoType DEF TypeInv
<1> QED
  BY <1>2, <1>3, <1>5 DEF TypeInv

(* A worker's step that reads the database and changes nothing in it.      *)
LEMMA WorkerReadsType ==
    ASSUME TypeInv, NEW w \in Workers, wPc[w] # "idle",
           NEW pc \in WorkerPc \ {"idle", "advance"},
           WorkerGo(w, pc) \/ WorkerDone(w),
           UNCHANGED dbFaults \/ DbFault,
           UNCHANGED <<runRow, stageRow, gcsVars, procVars, queue, callVars, rIds>>
    PROVE  TypeInv'
<1>1. StoreTypeOK'
  BY FaultCounts DEF TypeInv, StoreTypeOK, runRow, stageRow
<1>2. GcsTypeOK'
  BY DEF TypeInv, GcsTypeOK, gcsVars
<1>3. GoroutineInv'
  BY WorkerGoType, WorkerDoneType DEF TypeInv
<1> QED
  BY <1>1, <1>2, <1>3 DEF TypeInv

(* A worker's step that sends a request to gcs-v2 or only computes.        *)
LEMMA WorkerRequestsType ==
    ASSUME TypeInv, NEW w \in Workers, wPc[w] # "idle",
           NEW pc \in WorkerPc \ {"idle", "advance"}, WorkerGo(w, pc),
           \/ CreateTask(wRun[w], wStage[w]) /\ (UNCHANGED gcsFaults \/ GcsFault)
           \/ DeleteTask(wRun[w], wStage[w]) \/ UNCHANGED gcsVars,
           UNCHANGED <<storeVars, procVars, queue, callVars, rIds>>
    PROVE  TypeInv'
<1>1. wRun[w] \in Runs /\ wStage[w] \in Stages
  BY DEF TypeInv, GoroutineInv, ExecutorTypeOK, WorkersHoldRuns
<1>2. StoreTypeOK'
  BY DEF TypeInv, StoreTypeOK, storeVars
<1>3. GcsTypeOK'
  BY <1>1, TaskType DEF TypeInv
<1>4. GoroutineInv'
  BY WorkerGoType DEF TypeInv
<1> QED
  BY <1>2, <1>3, <1>4 DEF TypeInv

-----------------------------------------------------------------------------
(* A worker's step on the run it took keeps the rows and the tasks typed.  *)
LEMMA WorkerTypeInv ==
    ASSUME TypeInv, NEW w \in Workers, Worker(w)
    PROVE  TypeInv'
<1> DEFINE rest == <<procVars, queue, callVars, rIds>>
<1>0. wPc[w] # "idle" => wRun[w] \in Runs /\ wStage[w] \in Stages /\ wCont[w] \in BOOLEAN
  BY DEF TypeInv, GoroutineInv, ExecutorTypeOK, WorkersHoldRuns
<1>1. CASE Dequeue(w)
  <2>1. StoreTypeOK' /\ GcsTypeOK'
    BY <1>1 DEF TypeInv, Dequeue, storeVars, gcsVars, StoreTypeOK, GcsTypeOK
  <2>2. Head(queue) \in Runs /\ Tail(queue) \in Seq(Runs) /\ Len(Tail(queue)) <= QueueCap
    BY <1>1, ExecutorAssumption DEF TypeInv, GoroutineInv, ExecutorTypeOK, Dequeue
  <2>3. ExecutorTypeOK'
    BY <1>1, <2>2 DEF TypeInv, GoroutineInv, ExecutorTypeOK, Dequeue, procVars, callVars, WorkerPc
  <2>4. WorkersHoldRuns' /\ CallersHoldRuns'
    BY <1>1, <2>2
    DEF TypeInv, GoroutineInv, ExecutorTypeOK, WorkersHoldRuns, CallersHoldRuns, Dequeue, callVars
  <2> QED
    BY <2>1, <2>3, <2>4 DEF TypeInv, GoroutineInv
<1>2. CASE Claim(w)
  <2>1. wPc[w] = "claim" /\ UNCHANGED <<stageRow, gcsVars>> /\ UNCHANGED rest
    BY <1>2 DEF Claim
  <2>2. /\ Transition(wRun[w], "scheduled", "running") \/ UNCHANGED runRow
        /\ UNCHANGED dbFaults \/ DbFault
        /\ WorkerGo(w, "load") \/ WorkerDone(w)
    BY <1>2 DEF Claim, CtxAlive, WorkerDbFails
  <2>3. StoreTypeOK'
    BY <1>0, <2>1, <2>2, RunRowType, FaultCounts, StoreAssumption
    DEF TypeInv, StoreTypeOK, stageRow, Status, NonTerminal
  <2>4. GcsTypeOK'
    BY <2>1 DEF TypeInv, GcsTypeOK, gcsVars
  <2>5. GoroutineInv'
    BY <2>1, <2>2, WorkerGoType, WorkerDoneType DEF TypeInv, WorkerPc, ExecutePc
  <2> QED
    BY <2>3, <2>4, <2>5 DEF TypeInv
<1> USE DEF WorkerPc, ExecutePc
<1>3. CASE Load(w)
  BY <1>3, WorkerReadsType DEF Load, CtxAlive, WorkerDbFails
<1>4. CASE CheckStage(w)
  BY <1>4, WorkerReadsType DEF CheckStage, LeaveIfCanceled, CtxAlive, WorkerDbFails
<1>5. CASE MarkRunning(w)
  BY <1>5, WriteStageType DEF MarkRunning, Status, NonTerminal
<1>6. CASE RunController(w)
  BY <1>6, WorkerRequestsType DEF RunController
<1>7. CASE Launch(w)
  <2>1. CASE WorkerGo(w, "ranErr")
    BY <1>7, <2>1, WorkerRequestsType DEF Launch, gcsVars
  <2>2. CASE /\ CreateTask(wRun[w], wStage[w]) /\ UNCHANGED gcsFaults
             /\ wPc' = [wPc EXCEPT ![w] = "record"]
             /\ wCont' = [wCont EXCEPT ![w] = TRUE]
             /\ UNCHANGED <<wRun, wStage>>
    <3>1. wPc[w] = "execute" /\ UNCHANGED <<storeVars, procVars, queue, callVars, rIds>>
      BY <1>7 DEF Launch
    <3>2. StoreTypeOK' /\ GcsTypeOK'
      BY <1>0, <2>2, <3>1, TaskType DEF TypeInv, StoreTypeOK, storeVars
    <3>3. GoroutineInv'
      BY <2>2, <3>1
      DEF TypeInv, GoroutineInv, ExecutorTypeOK, WorkersHoldRuns, CallersHoldRuns,
          procVars, callVars
    <3> QED
      BY <3>2, <3>3 DEF TypeInv
  <2> QED
    BY <1>7, <2>1, <2>2 DEF Launch
<1>8. CASE Record(w)
  BY <1>8, WriteStageType DEF Record, Status, NonTerminal
<1>9. CASE Abandon(w)
  BY <1>9, WorkerRequestsType DEF Abandon
<1>10. CASE WaitTick(w)
  BY <1>10, WorkerReadsType DEF WaitTick, CtxAlive, WorkerDbFails
<1>11. CASE Poll(w)
  <2> DEFINE next == AfterPoll(task[wRun[w]][wStage[w]])
  <2>1. next \in WorkerPc \ {"idle", "advance"}
    BY DEF AfterPoll
  <2> HIDE DEF next
  <2>2. CASE WriteStage(w, "running", next, "stop")
    BY <1>11, <2>1, <2>2, WriteStageType DEF Poll, Status, NonTerminal
  <2>3. CASE UNCHANGED <<storeVars, gcsVars>> /\ \E pc \in {next, "wait", "stop"} : WorkerGo(w, pc)
    BY <1>11, <2>1, <2>3, WorkerRequestsType DEF Poll
  <2>4. CASE GcsFault /\ UNCHANGED <<storeVars, task>> /\ WorkerGo(w, "wait")
    BY <1>11, <2>4, WorkerRequestsType DEF Poll, DeleteTask
  <2> QED
    BY <1>11, <2>2, <2>3, <2>4 DEF Poll, next
<1>12. CASE StopTask(w)
  BY <1>12, WorkerRequestsType DEF StopTask
<1>13. CASE Release(w)
  BY <1>13, WorkerRequestsType DEF Release, ReleaseResult
<1>14. CASE AfterStage(w)
  BY <1>14, WorkerReadsType DEF AfterStage, LeaveIfCanceled, CtxAlive, WorkerDbFails
<1>15. CASE SaveStage(w)
  <2>1. PICK pc \in {"advance", "finish"} :
            /\ pc = "advance" => wStage[w] < NumStages
            /\ WriteStage(w, "succeeded", pc, "deferFail")
    BY <1>15 DEF SaveStage
  <2> QED
    BY <1>15, <2>1, WriteStageType DEF SaveStage, Status, Terminal
<1>16. CASE Advance(w)
  <2>1. wPc[w] = "advance" /\ wStage[w] + 1 \in Stages /\ wStage[w] + 1 \in 0..NumStages
    BY <1>16, StoreAssumption
    DEF Advance, TypeInv, GoroutineInv, ExecutorTypeOK, WorkersHoldRuns, Stages
  <2>2. /\ UNCHANGED <<stageRow, gcsVars>> /\ UNCHANGED rest
        /\ UpdateRun(wRun[w], "running", wStage[w] + 1) \/ UNCHANGED runRow
        /\ UNCHANGED dbFaults \/ DbFault
    BY <1>16 DEF Advance, WriteRun, WriteRunFails, CtxAlive, WorkerDbFails
  <2>3. StoreTypeOK' /\ GcsTypeOK'
    BY <1>0, <2>1, <2>2, RunRowType, FaultCounts
    DEF TypeInv, StoreTypeOK, stageRow, GcsTypeOK, gcsVars, Status, NonTerminal
  <2>4. CASE WorkerGo(w, "deferFail")
    BY <2>1, <2>2, <2>3, <2>4, WorkerGoType DEF TypeInv
  <2>5. CASE /\ wPc' = [wPc EXCEPT ![w] = "check"]
             /\ wStage' = [wStage EXCEPT ![w] = @ + 1]
             /\ wCont' = [wCont EXCEPT ![w] = FALSE]
             /\ UNCHANGED wRun
    <3>1. GoroutineInv'
      BY <2>1, <2>2, <2>5
      DEF TypeInv, GoroutineInv, ExecutorTypeOK, WorkersHoldRuns, CallersHoldRuns,
          procVars, callVars
    <3> QED
      BY <2>3, <3>1 DEF TypeInv
  <2> QED
    BY <1>16, <2>4, <2>5 DEF Advance, WriteRunFails
<1>17. CASE Finish(w)
  <2>1. wPc[w] = "finish" /\ wStage[w] \in 0..NumStages
    BY <1>0, <1>17, StoreAssumption DEF Finish, Stages
  <2>2. /\ UNCHANGED <<stageRow, gcsVars>> /\ UNCHANGED rest
        /\ UpdateRun(wRun[w], "succeeded", wStage[w]) \/ UNCHANGED runRow
        /\ UNCHANGED dbFaults \/ DbFault
        /\ WorkerDone(w) \/ WorkerGo(w, "deferFail")
    BY <1>17 DEF Finish, WriteRun, WriteRunFails, CtxAlive, WorkerDbFails
  <2>3. StoreTypeOK' /\ GcsTypeOK'
    BY <1>0, <2>1, <2>2, RunRowType, FaultCounts
    DEF TypeInv, StoreTypeOK, stageRow, GcsTypeOK, gcsVars, Status, Terminal
  <2> QED
    BY <2>1, <2>2, <2>3, WorkerGoType, WorkerDoneType DEF TypeInv
<1>18. CASE FailStage(w)
  BY <1>18, WriteStageType DEF FailStage, Status, Terminal
<1>19. CASE FailRun(w)
  <2>1. /\ wPc[w] \in {"failRun", "deferFail"}
        /\ UNCHANGED <<stageRow, gcsVars>> /\ UNCHANGED rest
        /\ UpdateStatus(wRun[w], "failed") \/ UNCHANGED runRow
        /\ UNCHANGED dbFaults \/ DbFault
        /\ WorkerDone(w) \/ WorkerGo(w, "deferFail")
    BY <1>19 DEF FailRun, FailPipeline, CtxAlive, WorkerDbFails
  <2>2. StoreTypeOK' /\ GcsTypeOK'
    BY <1>0, <2>1, RunRowType, FaultCounts, StoreAssumption
    DEF TypeInv, StoreTypeOK, stageRow, GcsTypeOK, gcsVars, Status, Terminal
  <2> QED
    BY <2>1, <2>2, WorkerGoType, WorkerDoneType DEF TypeInv
<1> QED
  BY <1>1, <1>2, <1>3, <1>4, <1>5, <1>6, <1>7, <1>8, <1>9, <1>10, <1>11, <1>12, <1>13,
     <1>14, <1>15, <1>16, <1>17, <1>18, <1>19 DEF Worker

-----------------------------------------------------------------------------
(* The same for the goroutines of recovery and of the requests.            *)
CallerFrame ==
    /\ UNCHANGED <<procVars, workerVars>>
    /\ queue' \in Seq(Runs) /\ Len(queue') <= QueueCap
    /\ rIds' \in SUBSET Runs

LEMMA CallGoType ==
    ASSUME GoroutineInv, NEW c \in Callers, NEW pc \in CallerPc,
           NEW todo \in SUBSET StageCopies,
           pc \notin {"idle", "collect", "next"} => cRun[c] \in Runs,
           CallGo(c, pc, todo), CallerFrame
    PROVE  GoroutineInv'
  BY DEF GoroutineInv, ExecutorTypeOK, WorkersHoldRuns, CallersHoldRuns, CallGo,
         CallerFrame, procVars, workerVars

LEMMA CallReturnType ==
    ASSUME GoroutineInv, NEW c \in Callers, CallReturn(c), CallerFrame
    PROVE  GoroutineInv'
  BY DEF GoroutineInv, ExecutorTypeOK, WorkersHoldRuns, CallersHoldRuns, CallReturn,
         CallerFrame, procVars, workerVars, CallerPc

LEMMA CallBeginType ==
    ASSUME GoroutineInv, NEW c \in Callers, NEW p \in Runs, NEW pc \in CallerPc,
           CallBegin(c, p, pc), CallerFrame
    PROVE  GoroutineInv'
  BY DEF GoroutineInv, ExecutorTypeOK, WorkersHoldRuns, CallersHoldRuns, CallBegin,
         CallerFrame, procVars, workerVars

(* Nothing that the callers share changes.                                 *)
LEMMA CallerFrameHolds ==
    GoroutineInv /\ UNCHANGED <<procVars, queue, workerVars, rIds>> => CallerFrame
  BY DEF GoroutineInv, ExecutorTypeOK, CallerFrame

(* What a caller takes from ListByPipeline is a snapshot of stages.        *)
LEMMA SnapshotType ==
    ASSUME StoreTypeOK, NEW p \in Runs
    PROVE  RunningStages(p) \subseteq StageCopies /\ RecordedStages(p) \subseteq StageCopies
  BY DEF StoreTypeOK, RunningStages, RecordedStages, StageList, StageCopies

(* The loop over the stages of a snapshot, whatever comes after it.        *)
LEMMA CallLoopType ==
    ASSUME GoroutineInv, NEW c \in Callers, cRun[c] \in Runs,
           NEW pc \in {"release", "markStage"}, NEW after \in {"stages", "list", "failRun"},
           NEW todo \in SUBSET StageCopies,
           CallGo(c, pc, todo) \/ CallGo(c, after, {}) \/ CallReturn(c), CallerFrame
    PROVE  GoroutineInv'
<1>1. pc \in CallerPc /\ after \in CallerPc /\ {} \in SUBSET StageCopies
  BY DEF CallerPc
<1> QED
  BY <1>1, CallGoType, CallReturnType

LEMMA SubmitType ==
    ASSUME TypeInv, NEW c \in Callers, SubmitPipeline(c)
    PROVE  TypeInv'
<1>1. cRun[c] \in Runs
  BY DEF TypeInv, GoroutineInv, CallersHoldRuns, SubmitPipeline
<1>2. queue' \in Seq(Runs) /\ Len(queue') <= QueueCap
  BY <1>1, ExecutorAssumption DEF SubmitPipeline, TypeInv, GoroutineInv, ExecutorTypeOK
<1>3. GoroutineInv'
  BY <1>2, CallReturnType
  DEF TypeInv, SubmitPipeline, CallerFrame, GoroutineInv, ExecutorTypeOK
<1>4. StoreTypeOK' /\ GcsTypeOK'
  BY DEF TypeInv, SubmitPipeline, StoreTypeOK, storeVars, GcsTypeOK, gcsVars
<1> QED
  BY <1>3, <1>4 DEF TypeInv

(* A caller's step that reads, or that sends a request to gcs-v2.          *)
LEMMA CallerReadsType ==
    ASSUME TypeInv, UNCHANGED <<runRow, stageRow>>, UNCHANGED dbFaults \/ DbFault,
           NEW p \in Runs, NEW s \in Stages, UNCHANGED gcsVars \/ DeleteTask(p, s)
    PROVE  StoreTypeOK' /\ GcsTypeOK'
<1>1. StoreTypeOK'
  BY FaultCounts DEF TypeInv, StoreTypeOK, runRow, stageRow
<1>2. GcsTypeOK'
  BY TaskType DEF TypeInv
<1> QED
  BY <1>1, <1>2

LEMMA ListContainersType ==
    ASSUME TypeInv, NEW c \in Callers, ListContainers(c)
    PROVE  TypeInv'
<1>1. cRun[c] \in Runs /\ 1 \in Stages
  BY StoreAssumption
  DEF TypeInv, GoroutineInv, CallersHoldRuns, ListContainers, Stages
<1>2. StoreTypeOK' /\ GcsTypeOK'
  BY <1>1, CallerReadsType DEF ListContainers, CallDbOk, CallDbFails
<1>3. /\ RecordedStages(cRun[c]) \in SUBSET StageCopies
      /\ \/ CallGo(c, "release", RecordedStages(cRun[c]))
         \/ CallGo(c, "stages", {}) \/ CallReturn(c)
  BY <1>1, SnapshotType DEF ListContainers, CallLoop, AfterCancel, TypeInv
<1>4. CallerFrame
  BY CallerFrameHolds DEF TypeInv, ListContainers
<1>5. GoroutineInv'
  BY <1>1, <1>3, <1>4, CallLoopType DEF TypeInv
<1> QED
  BY <1>2, <1>5 DEF TypeInv

LEMMA ReleaseContainersType ==
    ASSUME TypeInv, NEW c \in Callers, ReleaseContainers(c)
    PROVE  TypeInv'
<1>1. cRun[c] \in Runs /\ cTodo[c] \in SUBSET StageCopies
  BY DEF TypeInv, GoroutineInv, ExecutorTypeOK, CallersHoldRuns, ReleaseContainers
<1>2. PICK copy \in cTodo[c] :
          /\ DeleteTask(cRun[c], copy[1])
          /\ \/ CallGo(c, "release", cTodo[c] \ {copy})
             \/ CallGo(c, "stages", {}) \/ CallReturn(c)
  BY DEF ReleaseContainers, CallLoop, AfterCancel
<1>3. copy[1] \in Stages /\ cTodo[c] \ {copy} \in SUBSET StageCopies
  BY <1>1 DEF StageCopies
<1>4. StoreTypeOK' /\ GcsTypeOK'
  BY <1>1, <1>2, <1>3, CallerReadsType DEF ReleaseContainers, storeVars, runRow, stageRow
<1>5. CallerFrame
  BY CallerFrameHolds DEF TypeInv, ReleaseContainers
<1>6. GoroutineInv'
  BY <1>1, <1>2, <1>3, <1>5, CallLoopType DEF TypeInv
<1> QED
  BY <1>4, <1>6 DEF TypeInv

LEMMA MarkStageType ==
    ASSUME TypeInv, NEW c \in Callers, NEW st \in Status, NEW after \in {"list", "failRun"},
           MarkStage(c, st, after)
    PROVE  TypeInv'
<1>1. cRun[c] \in Runs /\ cTodo[c] \in SUBSET StageCopies
  BY DEF TypeInv, GoroutineInv, ExecutorTypeOK, CallersHoldRuns, MarkStage
<1>2. PICK copy \in cTodo[c] :
          /\ CallGo(c, "markStage", cTodo[c] \ {copy}) \/ CallGo(c, after, {})
          /\ UpdateStage(cRun[c], copy[1], st, copy[2]) \/ UNCHANGED stageRow
          /\ UNCHANGED dbFaults \/ DbFault
  BY DEF MarkStage, CallLoop, CallDbOk, CallDbFails
<1>3. copy[1] \in Stages /\ copy[2] \in BOOLEAN /\ cTodo[c] \ {copy} \in SUBSET StageCopies
  BY <1>1 DEF StageCopies
<1>4. StoreTypeOK' /\ GcsTypeOK'
  BY <1>1, <1>2, <1>3, StageRowType, FaultCounts
  DEF MarkStage, TypeInv, StoreTypeOK, runRow, GcsTypeOK, gcsVars
<1>5. CallerFrame
  BY CallerFrameHolds DEF TypeInv, MarkStage
<1>6. GoroutineInv'
  BY <1>1, <1>2, <1>3, <1>5, CallLoopType DEF TypeInv
<1> QED
  BY <1>4, <1>6 DEF TypeInv

LEMMA RecoverTypeInv ==
    ASSUME TypeInv, Recover
    PROVE  TypeInv'
<1>0. Recovery \in Callers
  BY DEF Callers
<1> USE DEF CallerPc
<1>1. CASE RecoverCollect
  <2>1. StoreTypeOK' /\ GcsTypeOK'
    BY <1>1, FaultCounts
    DEF RecoverCollect, CallDbOk, CallDbFails, TypeInv, StoreTypeOK, runRow, stageRow,
        GcsTypeOK, gcsVars
  <2>2. CallerFrame
    BY <1>1
    DEF RecoverCollect, CallerFrame, TypeInv, GoroutineInv, ExecutorTypeOK
  <2>3. CallGo(Recovery, "next", {}) \/ CallGo(Recovery, "idle", {})
    BY <1>1 DEF RecoverCollect
  <2> QED
    BY <1>0, <2>1, <2>2, <2>3, CallGoType DEF TypeInv
<1>2. CASE RecoverNext
  <2>1. StoreTypeOK' /\ GcsTypeOK'
    BY <1>2, FaultCounts
    DEF RecoverNext, CallDbOk, CallDbFails, TypeInv, StoreTypeOK, runRow, stageRow,
        GcsTypeOK, gcsVars
  <2>2. UNCHANGED <<procVars, queue, workerVars, cTodo>> /\ rIds' \in SUBSET Runs
    BY <1>2 DEF RecoverNext, TypeInv, GoroutineInv, ExecutorTypeOK
  <2>3. CASE UNCHANGED <<cPc, cRun>>
    BY <2>1, <2>2, <2>3
    DEF TypeInv, GoroutineInv, ExecutorTypeOK, WorkersHoldRuns, CallersHoldRuns,
        procVars, workerVars
  <2>4. CASE cPc' = [cPc EXCEPT ![Recovery] = "idle"] /\ UNCHANGED cRun
    BY <2>1, <2>2, <2>4
    DEF TypeInv, GoroutineInv, ExecutorTypeOK, WorkersHoldRuns, CallersHoldRuns,
        procVars, workerVars
  <2>5. CASE \E p \in rIds :
                 /\ cPc' = [cPc EXCEPT ![Recovery] = StepFor(p)]
                 /\ cRun' = [cRun EXCEPT ![Recovery] = IF StepFor(p) = "next" THEN NoRun ELSE p]
    <3>1. PICK p \in rIds :
              /\ cPc' = [cPc EXCEPT ![Recovery] = StepFor(p)]
              /\ cRun' = [cRun EXCEPT ![Recovery] = IF StepFor(p) = "next" THEN NoRun ELSE p]
      BY <2>5
    <3>2. p \in Runs /\ StepFor(p) \in {"submit", "list", "next"}
      BY DEF StepFor, TypeInv, GoroutineInv, ExecutorTypeOK
    <3> QED
      BY <1>0, <2>1, <2>2, <3>1, <3>2
      DEF TypeInv, GoroutineInv, ExecutorTypeOK, WorkersHoldRuns, CallersHoldRuns,
          procVars, workerVars
  <2> QED
    BY <1>2, <2>3, <2>4, <2>5 DEF RecoverNext
<1>3. CASE SubmitPipeline(Recovery)
  BY <1>0, <1>3, SubmitType
<1>4. CASE RecoverSubmitAborts
  <2>1. StoreTypeOK' /\ GcsTypeOK'
    BY <1>4
    DEF RecoverSubmitAborts, TypeInv, StoreTypeOK, storeVars, GcsTypeOK, gcsVars
  <2>2. GoroutineInv'
    BY <1>0, <1>4, CallerFrameHolds, CallReturnType DEF RecoverSubmitAborts, TypeInv
  <2> QED
    BY <2>1, <2>2 DEF TypeInv
<1>5. CASE ListContainers(Recovery)
  BY <1>0, <1>5, ListContainersType
<1>6. CASE ReleaseContainers(Recovery)
  BY <1>0, <1>6, ReleaseContainersType
<1>7. CASE RecoverStages
  <2>1. cRun[Recovery] \in Runs /\ 1 \in Stages
    BY <1>0, <1>7, StoreAssumption DEF RecoverStages, TypeInv, GoroutineInv, CallersHoldRuns, Stages
  <2>2. StoreTypeOK' /\ GcsTypeOK'
    BY <1>7, <2>1, CallerReadsType DEF RecoverStages, CallDbOk, CallDbFails
  <2>3. /\ RunningStages(cRun[Recovery]) \in SUBSET StageCopies
        /\ \/ CallGo(Recovery, "markStage", RunningStages(cRun[Recovery]))
           \/ CallGo(Recovery, "failRun", {})
    BY <1>7, <2>1, SnapshotType DEF RecoverStages, ListRunning, CallLoop, TypeInv
  <2>4. GoroutineInv'
    BY <1>0, <1>7, <2>1, <2>3, CallerFrameHolds, CallLoopType DEF RecoverStages, TypeInv
  <2> QED
    BY <2>2, <2>4 DEF TypeInv
<1>8. CASE RecoverMarkStage
  BY <1>0, <1>8, MarkStageType DEF RecoverMarkStage, Status, Terminal
<1>9. CASE RecoverFailRun
  <2>1. cRun[Recovery] \in Runs
    BY <1>0, <1>9 DEF RecoverFailRun, TypeInv, GoroutineInv, CallersHoldRuns
  <2>2. /\ UpdateStatus(cRun[Recovery], "failed") \/ UNCHANGED runRow
        /\ UNCHANGED dbFaults \/ DbFault
        /\ UNCHANGED <<stageRow, gcsVars>>
    BY <1>9 DEF RecoverFailRun, FailPipeline, CtxAlive, WorkerDbFails
  <2>3. StoreTypeOK' /\ GcsTypeOK'
    BY <2>1, <2>2, RunRowType, FaultCounts, StoreAssumption
    DEF TypeInv, StoreTypeOK, stageRow, GcsTypeOK, gcsVars, Status, Terminal
  <2>4. GoroutineInv'
    BY <1>0, <1>9, CallerFrameHolds, CallReturnType DEF RecoverFailRun, TypeInv
  <2> QED
    BY <2>3, <2>4 DEF TypeInv
<1> QED
  BY <1>1, <1>2, <1>3, <1>4, <1>5, <1>6, <1>7, <1>8, <1>9 DEF Recover

LEMMA ClientTypeInv ==
    ASSUME TypeInv, NEW c \in Clients, Client(c)
    PROVE  TypeInv'
<1>0. c \in Callers
  BY DEF Callers
<1> USE DEF CallerPc
<1>1. ASSUME NEW p \in Runs, StartPipeline(c, p)
      PROVE  TypeInv'
  <2>1. StoreTypeOK' /\ GcsTypeOK'
    BY <1>1, RunRowType, FaultCounts, StoreAssumption
    DEF StartPipeline, TypeInv, StoreTypeOK, stageRow, GcsTypeOK, gcsVars, Status, NonTerminal
  <2>2. CASE CallBegin(c, p, "submit")
    BY <1>0, <1>1, <2>1, <2>2, CallerFrameHolds, CallBeginType DEF StartPipeline, TypeInv
  <2>3. CASE UNCHANGED callVars
    BY <1>1, <2>1, <2>3
    DEF StartPipeline, TypeInv, GoroutineInv, ExecutorTypeOK, WorkersHoldRuns, CallersHoldRuns,
        procVars, workerVars, callVars
  <2> QED
    BY <1>1, <2>2, <2>3 DEF StartPipeline
<1>2. ASSUME NEW p \in Runs, CancelPipeline(c, p)
      PROVE  TypeInv'
  <2>1. StoreTypeOK' /\ GcsTypeOK'
    BY <1>2, RunRowType, FaultCounts, StoreAssumption
    DEF CancelPipeline, TypeInv, StoreTypeOK, stageRow, GcsTypeOK, gcsVars, Status, Terminal
  <2>2. CASE CallBegin(c, p, "stages")
    BY <1>0, <1>2, <2>1, <2>2, CallerFrameHolds, CallBeginType DEF CancelPipeline, TypeInv
  <2>3. CASE UNCHANGED callVars
    BY <1>2, <2>1, <2>3
    DEF CancelPipeline, TypeInv, GoroutineInv, ExecutorTypeOK, WorkersHoldRuns, CallersHoldRuns,
        procVars, workerVars, callVars
  <2> QED
    BY <1>2, <2>2, <2>3 DEF CancelPipeline
<1>3. CASE CancelListStages(c)
  <2>1. cRun[c] \in Runs /\ 1 \in Stages
    BY <1>0, <1>3, StoreAssumption
    DEF CancelListStages, TypeInv, GoroutineInv, CallersHoldRuns, Stages
  <2>2. StoreTypeOK' /\ GcsTypeOK'
    BY <1>3, <2>1, CallerReadsType DEF CancelListStages, CallDbOk, CallDbFails
  <2>3. /\ RunningStages(cRun[c]) \in SUBSET StageCopies
        /\ \/ CallGo(c, "markStage", RunningStages(cRun[c]))
           \/ CallGo(c, "list", {}) \/ CallReturn(c)
    BY <1>3, <2>1, SnapshotType DEF CancelListStages, ListRunning, CallLoop, TypeInv
  <2>4. GoroutineInv'
    BY <1>0, <1>3, <2>1, <2>3, CallerFrameHolds, CallLoopType DEF CancelListStages, TypeInv
  <2> QED
    BY <2>2, <2>4 DEF TypeInv
<1>4. CASE CancelMarkStage(c)
  BY <1>0, <1>4, MarkStageType DEF CancelMarkStage, Status, Terminal
<1>5. CASE HangUp(c)
  <2>1. StoreTypeOK' /\ GcsTypeOK'
    BY <1>5 DEF HangUp, TypeInv, StoreTypeOK, storeVars, GcsTypeOK, gcsVars
  <2>2. GoroutineInv'
    BY <1>0, <1>5, CallerFrameHolds, CallReturnType DEF HangUp, TypeInv
  <2> QED
    BY <2>1, <2>2 DEF TypeInv
<1>6. CASE SubmitPipeline(c)
  BY <1>0, <1>6, SubmitType
<1>7. CASE ListContainers(c)
  BY <1>0, <1>7, ListContainersType
<1>8. CASE ReleaseContainers(c)
  BY <1>0, <1>8, ReleaseContainersType
<1> QED
  BY <1>1, <1>2, <1>3, <1>4, <1>5, <1>6, <1>7, <1>8 DEF Client

(* CreatePipeline touches the rows of its run and the set of such calls.   *)
LEMMA CreateTypeInv ==
    ASSUME TypeInv, NEW p \in Runs, Create(p)
    PROVE  TypeInv'
<1>1. /\ UNCHANGED <<gcsVars, phase, boots, queue, workerVars, callVars, rIds>>
      /\ creating' \in SUBSET Runs
      /\ UNCHANGED dbFaults \/ DbFault
  BY DEF Create, CreateRun, CreateStage, CreateFails, TypeInv, GoroutineInv, ExecutorTypeOK
<1>2. GcsTypeOK' /\ GoroutineInv'
  BY <1>1
  DEF TypeInv, GcsTypeOK, gcsVars, GoroutineInv, ExecutorTypeOK, WorkersHoldRuns,
      CallersHoldRuns, workerVars, callVars
<1>3. dbFaults' \in 0..MaxDbFaults
  BY <1>1, FaultCounts DEF TypeInv
<1>4. CASE CreateRun(p)
  BY <1>2, <1>3, <1>4
  DEF CreateRun, InsertRun, TypeInv, StoreTypeOK, stageRow, Status, NonTerminal
<1>5. CASE CreateStage(p)
  BY <1>2, <1>3, <1>5
  DEF CreateStage, InsertStage, TypeInv, StoreTypeOK, runRow, Status, NonTerminal
<1>6. CASE CreateFails(p)
  BY <1>2, <1>3, <1>6 DEF CreateFails, TypeInv, StoreTypeOK, runRow, stageRow
<1> QED
  BY <1>4, <1>5, <1>6 DEF Create

(* The process boots, stops or dies, or a container stops by itself.       *)
Environment == Boot \/ Crash \/ Shutdown \/ Exit \/ ContainerEnds

LEMMA LoseMemoryType ==
    ASSUME GoroutineInv, LoseMemory, UNCHANGED boots
    PROVE  GoroutineInv'
  BY StoreAssumption, ExecutorAssumption
  DEF GoroutineInv, ExecutorTypeOK, WorkersHoldRuns, CallersHoldRuns, LoseMemory, WorkerPc,
      CallerPc, Stages, StageCopies

LEMMA EnvironmentTypeInv ==
    ASSUME TypeInv, Environment
    PROVE  TypeInv'
<1>1. CASE Boot
  <2>1. StoreTypeOK' /\ GcsTypeOK'
    BY <1>1 DEF Boot, TypeInv, StoreTypeOK, storeVars, GcsTypeOK, gcsVars
  <2>2. GoroutineInv'
    <3>1. boots' \in 0..MaxBoots
      BY <1>1, ExecutorAssumption DEF Boot, TypeInv, GoroutineInv, ExecutorTypeOK
    <3>2. ExecutorTypeOK'
      BY <1>1, <3>1 DEF Boot, TypeInv, GoroutineInv, ExecutorTypeOK, workerVars, CallerPc
    <3>3. WorkersHoldRuns' /\ CallersHoldRuns'
      BY <1>1
      DEF Boot, TypeInv, GoroutineInv, ExecutorTypeOK, WorkersHoldRuns, CallersHoldRuns,
          workerVars
    <3> QED
      BY <3>2, <3>3 DEF GoroutineInv
  <2> QED
    BY <2>1, <2>2 DEF TypeInv
<1>2. CASE Crash \/ Exit
  <2>1. StoreTypeOK' /\ GcsTypeOK'
    BY <1>2 DEF Crash, Exit, Die, TypeInv, StoreTypeOK, storeVars, GcsTypeOK, gcsVars
  <2> QED
    BY <1>2, <2>1, LoseMemoryType DEF Crash, Exit, Die, TypeInv
<1>3. CASE Shutdown
  BY <1>3
  DEF Shutdown, TypeInv, StoreTypeOK, storeVars, GcsTypeOK, gcsVars, GoroutineInv,
      ExecutorTypeOK, WorkersHoldRuns, CallersHoldRuns, workerVars, callVars
<1>4. CASE ContainerEnds
  <2>1. StoreTypeOK' /\ GoroutineInv'
    BY <1>4
    DEF ContainerEnds, TypeInv, StoreTypeOK, storeVars, GoroutineInv, ExecutorTypeOK,
        WorkersHoldRuns, CallersHoldRuns, executorVars, procVars, workerVars, callVars
  <2>2. GcsTypeOK'
    BY <1>4, TaskType, GcsAssumption DEF ContainerEnds, TypeInv
  <2> QED
    BY <2>1, <2>2 DEF TypeInv
<1> QED
  BY <1>1, <1>2, <1>3, <1>4 DEF Environment

LEMMA StutterTypeInv ==
    TypeInv /\ UNCHANGED vars => TypeInv'
  BY DEF vars, storeVars, gcsVars, executorVars, procVars, workerVars, callVars, TypeInv,
         StoreTypeOK, GcsTypeOK, GoroutineInv, ExecutorTypeOK, WorkersHoldRuns, CallersHoldRuns

(* The system keeps its types, and every goroutine at work has its run.    *)
THEOREM TypeInvariance == Spec => []TypeInv
<1>1. TypeInv /\ [Next]_vars => TypeInv'
  BY WorkerTypeInv, RecoverTypeInv, ClientTypeInv, CreateTypeInv, EnvironmentTypeInv,
     StutterTypeInv
  DEF Next, Environment
<1> QED
  BY <1>1, InitTypeInv, PTL DEF Spec

(* Every variable keeps its type, and every counter its bound.             *)
THEOREM TypeCorrect == Spec => []TypeOK
<1>1. TypeInv => TypeOK
  BY DEF TypeInv, TypeOK, GoroutineInv
<1> QED
  BY <1>1, TypeInvariance, PTL
=============================================================================
