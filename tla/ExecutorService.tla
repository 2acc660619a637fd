--------------------------- MODULE ExecutorService ---------------------------
(***************************************************************************)
(* The executor of the control service: the bounded in-memory queue, the   *)
(* worker goroutines that execute one run each (executePipeline and the    *)
(* container life cycle of runtime/stage_executor.go), the recovery        *)
(* goroutine started with every process, and the two methods the HTTP      *)
(* handlers call: SubmitPipeline and CancelContainers.                     *)
(*                                                                         *)
(* Every SQL statement and every request to gcs-v2 is a step of its own:   *)
(* between two of them any other goroutine may run.                        *)
(***************************************************************************)
EXTENDS GcsTasks, Sequences

CONSTANTS
    Workers,     \* the maxConcurrent goroutines running runLoop
    Clients,     \* goroutines serving start and cancel requests
    Recovery,    \* the goroutine running recoverTasks
    QueueCap,    \* capacity of the queue channel (100 in the code)
    NoRun,       \* not a run id
    MaxBoots     \* bound: how often the process is started

ASSUME ExecutorAssumption ==
    /\ QueueCap \in Nat \ {0}
    /\ MaxBoots \in Nat
    /\ NoRun \notin Runs
    /\ Recovery \notin Clients

VARIABLES
    phase,       \* of the process: "down", "up", "draining" (context cancelled)
    boots,       \* processes started so far
    creating,    \* runs whose CreatePipeline request is between two inserts
    queue,       \* the queue channel
    wPc,         \* [worker -> the next step of executePipeline]
    wRun,        \* [worker -> the run it took from the queue]
    wStage,      \* [worker -> StageOrder in hand, also pipeline.CurrentStage]
    wCont,       \* [worker -> stage.ContainerID # "" in its copy of the stage]
    cPc,         \* [caller -> the next step of its handler]
    cRun,        \* [caller -> the run its call is about]
    cTodo,       \* [caller -> stages of its snapshot still to treat]
    rIds         \* runs recovery still has to look at

procVars == <<phase, boots, creating>>
workerVars == <<wPc, wRun, wStage, wCont>>
callVars == <<cPc, cRun, cTodo>>
executorVars == <<procVars, queue, workerVars, callVars, rIds>>

Callers == Clients \cup {Recovery}

(* Steps of a worker: taking a run and claiming it; the loop over the      *)
(* stages; inside ExecuteStage, the container life cycle; the error exits. *)
ExecutePc == {"load", "check", "mark", "execute", "record", "wait", "poll",
              "abandon", "stop", "releaseOk", "releaseErr", "ranOk", "ranErr",
              "saveStage", "advance", "finish", "failStage", "failRun", "deferFail"}
WorkerPc == {"idle", "claim"} \cup ExecutePc

CallerPc == {"idle", "submit", "list", "release", "stages", "markStage",
             "collect", "next", "failRun"}

(* A snapshot of stage rows: the order and whether container_id was set.   *)
StageCopies == Stages \X BOOLEAN

ExecutorTypeOK ==
    /\ phase \in {"down", "up", "draining"}
    /\ boots \in 0..MaxBoots
    /\ creating \in SUBSET Runs
    /\ queue \in Seq(Runs)
    /\ Len(queue) <= QueueCap
    /\ wPc \in [Workers -> WorkerPc]
    /\ wRun \in [Workers -> Runs \cup {NoRun}]
    /\ wStage \in [Workers -> Stages]
    /\ wCont \in [Workers -> BOOLEAN]
    /\ cPc \in [Callers -> CallerPc]
    /\ cRun \in [Callers -> Runs \cup {NoRun}]
    /\ cTodo \in [Callers -> SUBSET StageCopies]
    /\ rIds \in SUBSET Runs

ExecutorInit ==
    /\ phase = "down"
    /\ boots = 0
    /\ creating = {}
    /\ queue = <<>>
    /\ wPc = [w \in Workers |-> "idle"]
    /\ wRun = [w \in Workers |-> NoRun]
    /\ wStage = [w \in Workers |-> 1]
    /\ wCont = [w \in Workers |-> FALSE]
    /\ cPc = [c \in Callers |-> "idle"]
    /\ cRun = [c \in Callers |-> NoRun]
    /\ cTodo = [c \in Callers |-> {}]
    /\ rIds = {}

(* A process ends: its queue and its goroutines are gone.                  *)
LoseMemory ==
    /\ phase' = "down"
    /\ creating' = {}
    /\ queue' = <<>>
    /\ wPc' = [w \in Workers |-> "idle"]
    /\ wRun' = [w \in Workers |-> NoRun]
    /\ wStage' = [w \in Workers |-> 1]
    /\ wCont' = [w \in Workers |-> FALSE]
    /\ cPc' = [c \in Callers |-> "idle"]
    /\ cRun' = [c \in Callers |-> NoRun]
    /\ cTodo' = [c \in Callers |-> {}]
    /\ rIds' = {}

-----------------------------------------------------------------------------
(* A worker's statement works while its context is alive; once execCancel  *)
(* was called it fails, and before that it may fail by itself.             *)
CtxAlive == phase = "up" /\ UNCHANGED dbFaults

WorkerDbFails ==
    \/ phase = "draining" /\ UNCHANGED dbFaults
    \/ DbFault

WorkerGo(w, pc) ==
    /\ wPc' = [wPc EXCEPT ![w] = pc]
    /\ UNCHANGED <<wRun, wStage, wCont>>

WorkerDone(w) ==
    /\ wPc' = [wPc EXCEPT ![w] = "idle"]
    /\ wRun' = [wRun EXCEPT ![w] = NoRun]
    /\ wStage' = [wStage EXCEPT ![w] = 1]
    /\ wCont' = [wCont EXCEPT ![w] = FALSE]

(* The executor writes its copy of the stage row.  The write is refused    *)
(* when the row became terminal; a failing statement may or may not have   *)
(* been applied before its answer was lost.                                *)
WriteStage(w, st, okPc, errPc) ==
    LET p == wRun[w]
        s == wStage[w]
    IN /\ UNCHANGED <<runRow, task, gcsFaults>>
       /\ \/ CtxAlive /\ UpdateStage(p, s, st, wCont[w]) /\ WorkerGo(w, okPc)
          \/ CtxAlive /\ ~StageOpen(p, s, st) /\ UNCHANGED stageRow /\ WorkerGo(w, errPc)
          \/ WorkerDbFails /\ UpdateStage(p, s, st, wCont[w]) /\ WorkerGo(w, errPc)
          \/ WorkerDbFails /\ UNCHANGED stageRow /\ WorkerGo(w, errPc)

(* UpdateStatus(failed), whose error every caller ignores.                 *)
FailPipeline(p) ==
    /\ UNCHANGED stageRow
    /\ \/ CtxAlive /\ UpdateStatus(p, "failed")
       \/ CtxAlive /\ ~RunOpen(p) /\ UNCHANGED runRow
       \/ WorkerDbFails /\ UpdateStatus(p, "failed")
       \/ WorkerDbFails /\ UNCHANGED runRow

-----------------------------------------------------------------------------
(* runLoop: receive from the queue.                                        *)
Dequeue(w) ==
    /\ phase # "down"
    /\ wPc[w] = "idle"
    /\ queue # <<>>
    /\ wPc' = [wPc EXCEPT ![w] = "claim"]
    /\ wRun' = [wRun EXCEPT ![w] = Head(queue)]
    /\ queue' = Tail(queue)
    /\ UNCHANGED <<storeVars, gcsVars, procVars, wStage, wCont, callVars, rIds>>

(* The run is executed only by the worker whose compare-and-set moves it   *)
(* from scheduled to running.  (The read before it returns early on the    *)
(* same condition.)  On an error the worker drops the run without a trace, *)
(* even if the statement was applied.                                      *)
Claim(w) ==
    /\ wPc[w] = "claim"
    /\ UNCHANGED <<stageRow, gcsVars, procVars, queue, callVars, rIds>>
    /\ \/ /\ CtxAlive
          /\ Transition(wRun[w], "scheduled", "running")
          /\ WorkerGo(w, "load")
       \/ /\ CtxAlive
          /\ pStatus[wRun[w]] # "scheduled"
          /\ UNCHANGED runRow
          /\ WorkerDone(w)
       \/ /\ WorkerDbFails
          /\ \/ Transition(wRun[w], "scheduled", "running")
             \/ UNCHANGED runRow
          /\ WorkerDone(w)

(* validateExecutionStages: all stage rows exist and none was started.     *)
StagesReady(p) ==
    /\ curStage[p] = 1
    /\ \A s \in Stages : sStatus[p][s] = "pending"

(* Read the run, its project and its stages, and validate them.            *)
Load(w) ==
    /\ wPc[w] = "load"
    /\ UNCHANGED <<runRow, stageRow, gcsVars, procVars, queue, callVars, rIds>>
    /\ \/ CtxAlive /\ StagesReady(wRun[w]) /\ WorkerGo(w, "check")
       \/ CtxAlive /\ ~StagesReady(wRun[w]) /\ WorkerGo(w, "deferFail")
       \/ WorkerDbFails /\ WorkerGo(w, "deferFail")

(* Before a stage, and again after it, the worker reads the status and     *)
(* leaves if the run was cancelled meanwhile.                              *)
LeaveIfCanceled(w, next) ==
    /\ UNCHANGED <<runRow, stageRow, gcsVars, procVars, queue, callVars, rIds>>
    /\ \/ CtxAlive /\ pStatus[wRun[w]] = "canceled" /\ WorkerDone(w)
       \/ CtxAlive /\ pStatus[wRun[w]] # "canceled" /\ WorkerGo(w, next)
       \/ WorkerDbFails /\ WorkerGo(w, "deferFail")

CheckStage(w) == wPc[w] = "check" /\ LeaveIfCanceled(w, "mark")

MarkRunning(w) ==
    /\ wPc[w] = "mark"
    /\ WriteStage(w, "running", "execute", "deferFail")
    /\ UNCHANGED <<procVars, queue, callVars, rIds>>

(* ExecuteStage for teacher_config, dataset_build and dataset_export: runs *)
(* in this process and succeeds or fails.                                  *)
RunController(w) ==
    /\ wPc[w] = "execute"
    /\ wStage[w] \notin ContainerStages
    /\ \E result \in {"ranOk", "ranErr"} : WorkerGo(w, result)
    /\ UNCHANGED <<storeVars, gcsVars, procVars, queue, callVars, rIds>>

(* runContainerTask: the create request is accepted; or fails with nothing *)
(* created (as does everything prepared before it); or is applied and its  *)
(* answer lost.  With the context cancelled only the failures remain.      *)
Launch(w) ==
    /\ wPc[w] = "execute"
    /\ wStage[w] \in ContainerStages
    /\ UNCHANGED <<storeVars, procVars, queue, callVars, rIds>>
    /\ \/ /\ phase = "up"
          /\ CreateTask(wRun[w], wStage[w])
          /\ wCont' = [wCont EXCEPT ![w] = TRUE]
          /\ wPc' = [wPc EXCEPT ![w] = "record"]
          /\ UNCHANGED <<wRun, wStage, gcsFaults>>
       \/ /\ WorkerGo(w, "ranErr")
          /\ UNCHANGED gcsVars
       \/ /\ GcsFault
          /\ CreateTask(wRun[w], wStage[w])
          /\ WorkerGo(w, "ranErr")

(* A bug kept for the mutation runs: the task is left running when its     *)
(* name could not be recorded.                                             *)
RecordForgetful(w) ==
    /\ wPc[w] = "record"
    /\ WriteStage(w, "running", "wait", "ranErr")
    /\ UNCHANGED <<procVars, queue, callVars, rIds>>

(* recordContainer; a container that cannot be recorded is stopped.        *)
Record(w) ==
    /\ wPc[w] = "record"
    /\ WriteStage(w, "running", "wait", "abandon")
    /\ UNCHANGED <<procVars, queue, callVars, rIds>>

Abandon(w) ==
    /\ wPc[w] = "abandon"
    /\ DeleteTask(wRun[w], wStage[w])
    /\ WorkerGo(w, "ranErr")
    /\ UNCHANGED <<storeVars, procVars, queue, callVars, rIds>>

(* What a poll concludes from the state of the task.  The first definition *)
(* is a bug kept for the mutation runs: whatever is found has ended.       *)
AfterPollEager(state) == IF state = "error" THEN "releaseErr" ELSE "releaseOk"

AfterPoll(state) ==
    CASE state = "active" -> "wait"
      [] state = "done" -> "releaseOk"
      [] OTHER -> "releaseErr"

(* A bug kept for the mutation runs: a cancelled run is left at once.      *)
WaitTickLeaves(w) ==
    /\ wPc[w] = "wait"
    /\ LeaveIfCanceled(w, "poll")

(* waitForContainerTask: on a tick, read the status of the run...          *)
WaitTick(w) ==
    /\ wPc[w] = "wait"
    /\ UNCHANGED <<runRow, stageRow, gcsVars, procVars, queue, callVars, rIds>>
    /\ \/ CtxAlive /\ pStatus[wRun[w]] = "canceled" /\ WorkerGo(w, "stop")
       \/ CtxAlive /\ pStatus[wRun[w]] # "canceled" /\ WorkerGo(w, "poll")
       \/ WorkerDbFails /\ WorkerGo(w, "stop")

(* ... then ask gcs-v2 for the task.  A task that is not found is waited   *)
(* for without limit, and so is an answer that is lost.  When the node     *)
(* that runs it became known or changed, recordTaskWorker writes the stage *)
(* row; two nodes are an error.                                            *)
Poll(w) ==
    LET p == wRun[w]
        s == wStage[w]
        next == AfterPoll(task[p][s])
    IN /\ wPc[w] = "poll"
       /\ UNCHANGED <<procVars, queue, callVars, rIds>>
       /\ \/ /\ phase = "draining" \/ ~TaskFound(p, s)
             /\ WorkerGo(w, "wait")
             /\ UNCHANGED <<storeVars, gcsVars>>
          \/ /\ GcsFault
             /\ WorkerGo(w, "wait")
             /\ UNCHANGED <<storeVars, task>>
          \/ /\ phase = "up" /\ TaskFound(p, s)
             /\ WorkerGo(w, next) \/ WorkerGo(w, "stop")
             /\ UNCHANGED <<storeVars, gcsVars>>
          \/ /\ phase = "up" /\ TaskFound(p, s)
             /\ WriteStage(w, "running", next, "stop")

(* A wait that ended in an error of its own stops the container first; the *)
(* deferred ReleaseContainer deletes it in any case.  What is read after a *)
(* good end (the checkpoint files) may still be missing.                   *)
StopTask(w) ==
    /\ wPc[w] = "stop"
    /\ DeleteTask(wRun[w], wStage[w])
    /\ WorkerGo(w, "releaseErr")
    /\ UNCHANGED <<storeVars, procVars, queue, callVars, rIds>>

ReleaseResult(w) ==
    IF wPc[w] = "releaseOk" THEN {"ranOk", "ranErr"} ELSE {"ranErr"}

(* A bug kept for the mutation runs: only the logs are archived.           *)
ReleaseLogsOnly(w) ==
    /\ wPc[w] \in {"releaseOk", "releaseErr"}
    /\ \E result \in ReleaseResult(w) : WorkerGo(w, result)
    /\ UNCHANGED <<storeVars, gcsVars, procVars, queue, callVars, rIds>>

Release(w) ==
    /\ wPc[w] \in {"releaseOk", "releaseErr"}
    /\ DeleteTask(wRun[w], wStage[w])
    /\ \E result \in ReleaseResult(w) : WorkerGo(w, result)
    /\ UNCHANGED <<storeVars, procVars, queue, callVars, rIds>>

AfterStage(w) ==
    \/ wPc[w] = "ranOk" /\ LeaveIfCanceled(w, "saveStage")
    \/ wPc[w] = "ranErr" /\ LeaveIfCanceled(w, "failStage")

(* Bugs kept for the mutation runs: a result that could not be recorded is *)
(* taken for recorded; the last stage is followed by another one.          *)
SaveStageUnchecked(w) ==
    LET next == IF wStage[w] < NumStages THEN "advance" ELSE "finish"
    IN /\ wPc[w] = "saveStage"
       /\ WriteStage(w, "succeeded", next, next)
       /\ UNCHANGED <<procVars, queue, callVars, rIds>>

SaveStageOffByOne(w) ==
    /\ wPc[w] = "saveStage"
    /\ WriteStage(w, "succeeded",
                  IF wStage[w] <= NumStages THEN "advance" ELSE "finish", "deferFail")
    /\ UNCHANGED <<procVars, queue, callVars, rIds>>

SaveStage(w) ==
    /\ wPc[w] = "saveStage"
    /\ WriteStage(w, "succeeded",
                  IF wStage[w] < NumStages THEN "advance" ELSE "finish", "deferFail")
    /\ UNCHANGED <<procVars, queue, callVars, rIds>>

(* The worker writes its copy of the run row, with the status it last knew *)
(* (running) or the final one.                                             *)
WriteRun(w, st, stage) ==
    /\ UNCHANGED <<stageRow, gcsVars, procVars, queue, callVars, rIds>>
    /\ UpdateRun(wRun[w], st, stage)

WriteRunFails(w, st, stage) ==
    /\ \/ /\ CtxAlive /\ ~RunOpen(wRun[w])
          /\ UNCHANGED <<runRow, stageRow, gcsVars, procVars, queue, callVars, rIds>>
       \/ /\ WorkerDbFails
          /\ \/ WriteRun(w, st, stage)
             \/ UNCHANGED <<runRow, stageRow, gcsVars, procVars, queue, callVars, rIds>>
    /\ WorkerGo(w, "deferFail")

Advance(w) ==
    /\ wPc[w] = "advance"
    /\ \/ /\ CtxAlive
          /\ WriteRun(w, "running", wStage[w] + 1)
          /\ wPc' = [wPc EXCEPT ![w] = "check"]
          /\ wStage' = [wStage EXCEPT ![w] = @ + 1]
          /\ wCont' = [wCont EXCEPT ![w] = FALSE]
          /\ UNCHANGED wRun
       \/ WriteRunFails(w, "running", wStage[w] + 1)

Finish(w) ==
    /\ wPc[w] = "finish"
    /\ \/ /\ CtxAlive
          /\ WriteRun(w, "succeeded", wStage[w])
          /\ WorkerDone(w)
       \/ WriteRunFails(w, "succeeded", wStage[w])

FailStage(w) ==
    /\ wPc[w] = "failStage"
    /\ WriteStage(w, "failed", "failRun", "failRun")
    /\ UNCHANGED <<procVars, queue, callVars, rIds>>

(* The error branch fails the run, and the deferred function once more.    *)
FailRun(w) ==
    /\ wPc[w] \in {"failRun", "deferFail"}
    /\ FailPipeline(wRun[w])
    /\ IF wPc[w] = "failRun" THEN WorkerGo(w, "deferFail") ELSE WorkerDone(w)
    /\ UNCHANGED <<gcsVars, procVars, queue, callVars, rIds>>

Worker(w) ==
    \/ Dequeue(w) \/ Claim(w) \/ Load(w)
    \/ CheckStage(w) \/ MarkRunning(w) \/ RunController(w)
    \/ Launch(w) \/ Record(w) \/ Abandon(w) \/ WaitTick(w) \/ Poll(w)
    \/ StopTask(w) \/ Release(w)
    \/ AfterStage(w) \/ SaveStage(w) \/ Advance(w) \/ Finish(w)
    \/ FailStage(w) \/ FailRun(w)

-----------------------------------------------------------------------------
(* Callers: goroutines that use the executor's methods.                    *)
CallGo(c, pc, todo) ==
    /\ cPc' = [cPc EXCEPT ![c] = pc]
    /\ cTodo' = [cTodo EXCEPT ![c] = todo]
    /\ UNCHANGED cRun

(* Return from the call: a client answers, recovery takes its next run.    *)
CallReturn(c) ==
    /\ cPc' = [cPc EXCEPT ![c] = IF c = Recovery THEN "next" ELSE "idle"]
    /\ cTodo' = [cTodo EXCEPT ![c] = {}]
    /\ cRun' = [cRun EXCEPT ![c] = NoRun]

(* Go on with the stages left over in the loop at pc, or past the loop.    *)
CallLoop(c, pc, todo, Past) ==
    \/ todo # {} /\ CallGo(c, pc, todo)
    \/ todo = {} /\ Past

(* What ListByPipeline returns, and the part of it the callers act on.     *)
StageList(p) == {<<s, sCont[p][s]>> : s \in {t \in Stages : sStatus[p][t] # "absent"}}

RunningStages(p) == {copy \in StageList(p) : sStatus[p][copy[1]] = "running"}

RecordedStages(p) == {copy \in StageList(p) : copy[2]}

(* Recovery uses the executor's context, a client its request's.           *)
CallDbOk(c) ==
    /\ c = Recovery => phase = "up"
    /\ UNCHANGED dbFaults

CallDbFails(c) ==
    \/ c = Recovery /\ phase = "draining" /\ UNCHANGED dbFaults
    \/ DbFault

(* Bugs kept for the mutation runs: a full queue drops its oldest entry;   *)
(* recovery goes on to fail the run it has just submitted.                 *)
SubmitPipelineDropping(c) ==
    /\ cPc[c] = "submit"
    /\ queue' = Append(IF Len(queue) < QueueCap THEN queue ELSE Tail(queue), cRun[c])
    /\ CallReturn(c)
    /\ UNCHANGED <<storeVars, gcsVars, procVars, workerVars, rIds>>

SubmitPipelineFallsThrough(c) ==
    /\ cPc[c] = "submit"
    /\ Len(queue) < QueueCap
    /\ queue' = Append(queue, cRun[c])
    /\ IF c = Recovery THEN CallGo(c, "list", {}) ELSE CallReturn(c)
    /\ UNCHANGED <<storeVars, gcsVars, procVars, workerVars, rIds>>

(* SubmitPipeline blocks while the queue is full.                          *)
SubmitPipeline(c) ==
    /\ cPc[c] = "submit"
    /\ Len(queue) < QueueCap
    /\ queue' = Append(queue, cRun[c])
    /\ CallReturn(c)
    /\ UNCHANGED <<storeVars, gcsVars, procVars, workerVars, rIds>>

(* CancelContainers: list the stages of the run, then delete the container *)
(* of each stage that has one recorded.  Recovery ignores a failing list.  *)
AfterCancel(c) ==
    IF c = Recovery THEN CallGo(c, "stages", {}) ELSE CallReturn(c)

ListContainers(c) ==
    /\ cPc[c] = "list"
    /\ UNCHANGED <<runRow, stageRow, gcsVars, procVars, queue, workerVars, rIds>>
    /\ \/ /\ CallDbOk(c)
          /\ CallLoop(c, "release", RecordedStages(cRun[c]), AfterCancel(c))
       \/ CallDbFails(c) /\ AfterCancel(c)

ReleaseContainers(c) ==
    /\ cPc[c] = "release"
    /\ \E copy \in cTodo[c] :
           /\ DeleteTask(cRun[c], copy[1])
           /\ CallLoop(c, "release", cTodo[c] \ {copy}, AfterCancel(c))
    /\ UNCHANGED <<storeVars, procVars, queue, workerVars, rIds>>

(* List the stages of the run to mark those that are running, then write   *)
(* the end of each from the caller's copy of it; errors are ignored.       *)
ListRunning(c, after) ==
    CallLoop(c, "markStage", RunningStages(cRun[c]), CallGo(c, after, {}))

(* The first definition is a bug kept for the mutation runs: a refused     *)
(* write is tried again.                                                   *)
MarkStageRetries(c, st, after) ==
    /\ cPc[c] = "markStage"
    /\ \E copy \in cTodo[c] :
           /\ UpdateStage(cRun[c], copy[1], st, copy[2])
           /\ CallLoop(c, "markStage", cTodo[c] \ {copy}, CallGo(c, after, {}))
           /\ CallDbOk(c)
    /\ UNCHANGED <<runRow, gcsVars, procVars, queue, workerVars, rIds>>

MarkStage(c, st, after) ==
    /\ cPc[c] = "markStage"
    /\ \E copy \in cTodo[c] :
           /\ CallLoop(c, "markStage", cTodo[c] \ {copy}, CallGo(c, after, {}))
           /\ \/ CallDbOk(c) /\ UpdateStage(cRun[c], copy[1], st, copy[2])
              \/ /\ CallDbOk(c) /\ ~StageOpen(cRun[c], copy[1], st)
                 /\ UNCHANGED stageRow
              \/ CallDbFails(c) /\ UNCHANGED stageRow
    /\ UNCHANGED <<runRow, gcsVars, procVars, queue, workerVars, rIds>>

-----------------------------------------------------------------------------
(* recoverTasks, once per process.  The ids are a snapshot; what is done   *)
(* with each depends on its status when its turn comes.  (They are taken   *)
(* in order of creation; the model takes any order.)  The first definition *)
(* is a bug kept for the mutation runs.                                    *)
RecoverableScheduledOnly(p) == pStatus[p] = "scheduled"

Recoverable(p) == pStatus[p] \in {"scheduled", "running"}

RecoverCollect ==
    /\ cPc[Recovery] = "collect"
    /\ UNCHANGED <<runRow, stageRow, gcsVars, procVars, queue, workerVars>>
    /\ \/ /\ CallDbOk(Recovery)
          /\ rIds' = {p \in Runs : Recoverable(p)}
          /\ CallGo(Recovery, "next", {})
       \/ /\ CallDbFails(Recovery)
          /\ UNCHANGED rIds
          /\ CallGo(Recovery, "idle", {})

(* Bugs kept for the mutation runs: recovery fails the runs that were only *)
(* scheduled, too; it leaves them alone; it fails the interrupted ones     *)
(* without deleting their containers.                                      *)
StepForFailsAll(p) == IF pStatus[p] \in {"scheduled", "running"} THEN "list" ELSE "next"

StepForIgnoresScheduled(p) == IF pStatus[p] = "running" THEN "list" ELSE "next"

StepForKeepsContainers(p) ==
    CASE pStatus[p] = "scheduled" -> "submit"
      [] pStatus[p] = "running" -> "stages"
      [] OTHER -> "next"

(* What recovery does with a run: submit it, fail it or pass.              *)
StepFor(p) ==
    CASE pStatus[p] = "scheduled" -> "submit"
      [] pStatus[p] = "running" -> "list"
      [] OTHER -> "next"

RecoverNext ==
    /\ cPc[Recovery] = "next"
    /\ UNCHANGED <<runRow, stageRow, gcsVars, procVars, queue, workerVars, cTodo>>
    /\ \/ \E p \in rIds :
              /\ rIds' = rIds \ {p}
              /\ \/ /\ CallDbOk(Recovery)
                    /\ cPc' = [cPc EXCEPT ![Recovery] = StepFor(p)]
                    /\ cRun' = [cRun EXCEPT ![Recovery] = IF StepFor(p) = "next" THEN NoRun ELSE p]
                 \/ CallDbFails(Recovery) /\ UNCHANGED <<cPc, cRun>>
       \/ /\ rIds = {}
          /\ cPc' = [cPc EXCEPT ![Recovery] = "idle"]
          /\ UNCHANGED <<dbFaults, rIds, cRun>>

(* The blocked SubmitPipeline gives up when the context is cancelled.      *)
RecoverSubmitAborts ==
    /\ cPc[Recovery] = "submit"
    /\ phase = "draining"
    /\ CallReturn(Recovery)
    /\ UNCHANGED <<storeVars, gcsVars, procVars, queue, workerVars, rIds>>

(* A list that fails is taken for an empty one.                            *)
RecoverStages ==
    /\ cPc[Recovery] = "stages"
    /\ UNCHANGED <<runRow, stageRow, gcsVars, procVars, queue, workerVars, rIds>>
    /\ \/ CallDbOk(Recovery) /\ ListRunning(Recovery, "failRun")
       \/ CallDbFails(Recovery) /\ CallGo(Recovery, "failRun", {})

RecoverMarkStage == MarkStage(Recovery, "failed", "failRun")

RecoverFailRun ==
    /\ cPc[Recovery] = "failRun"
    /\ FailPipeline(cRun[Recovery])
    /\ CallReturn(Recovery)
    /\ UNCHANGED <<gcsVars, procVars, queue, workerVars, rIds>>

Recover ==
    \/ RecoverCollect \/ RecoverNext
    \/ SubmitPipeline(Recovery) \/ RecoverSubmitAborts
    \/ ListContainers(Recovery) \/ ReleaseContainers(Recovery)
    \/ RecoverStages \/ RecoverMarkStage \/ RecoverFailRun
=============================================================================
