--------------------------- MODULE ControlService ---------------------------
(***************************************************************************)
(* The control service as a process (cmd/server/main.go): it boots, runs   *)
(* the executor, its recovery and the HTTP handlers side by side, crashes  *)
(* or is stopped, and boots again on the same database while the           *)
(* containers of gcs-v2 go on.  This module composes the components and    *)
(* states what they guarantee together.                                    *)
(***************************************************************************)
EXTENDS PipelineService

vars == <<storeVars, gcsVars, executorVars>>

TypeOK ==
    /\ StoreTypeOK
    /\ GcsTypeOK
    /\ ExecutorTypeOK

Init ==
    /\ StoreInit
    /\ GcsInit
    /\ ExecutorInit

-----------------------------------------------------------------------------
(* Start: workers and recovery are launched together; nothing of the       *)
(* previous process is left but the database and the containers.           *)
Boot ==
    /\ phase = "down"
    /\ boots < MaxBoots
    /\ boots' = boots + 1
    /\ phase' = "up"
    /\ cPc' = [cPc EXCEPT ![Recovery] = "collect"]
    /\ UNCHANGED <<storeVars, gcsVars, creating, queue, workerVars, cRun, cTodo, rIds>>

(* All goroutines and the queue vanish.                                    *)
Die ==
    /\ LoseMemory
    /\ UNCHANGED <<storeVars, gcsVars, boots>>

Crash == phase # "down" /\ Die

(* A signal: execCancel, then Stop waits for the workers, but neither for  *)
(* recovery nor for the HTTP handlers.                                     *)
Shutdown ==
    /\ phase = "up"
    /\ phase' = "draining"
    /\ UNCHANGED <<storeVars, gcsVars, queue, workerVars, callVars, rIds, creating, boots>>

Exit ==
    /\ phase = "draining"
    /\ \A w \in Workers : wPc[w] = "idle"
    /\ Die

ContainerEnds ==
    /\ \E p \in Runs, s \in ContainerStages : TaskEnds(p, s)
    /\ UNCHANGED <<storeVars, executorVars>>

Next ==
    \/ Boot \/ Crash \/ Shutdown \/ Exit
    \/ \E w \in Workers : Worker(w)
    \/ Recover
    \/ \E c \in Clients : Client(c)
    \/ \E p \in Runs : Create(p)
    \/ ContainerEnds

Spec == Init /\ [][Next]_vars

(* Goroutines run, the container of a stage ends some day, and a process   *)
(* that died is started again by whoever operates it, MaxBoots permitting; *)
(* clients hang up, cancel or send requests as they like, but a request in *)
(* progress goes on.                                                       *)
Serve(c) ==
    \/ SubmitPipeline(c) \/ ListContainers(c) \/ ReleaseContainers(c)
    \/ CancelListStages(c) \/ CancelMarkStage(c)

FairSpec ==
    /\ Spec
    /\ \A w \in Workers : WF_vars(Worker(w))
    /\ WF_vars(Recover)
    /\ \A c \in Clients : WF_vars(Serve(c))
    /\ WF_vars(ContainerEnds)
    /\ WF_vars(Boot)
    /\ WF_vars(Exit)

-----------------------------------------------------------------------------
(* Notions of the properties.                                              *)
Executing(w, p) == wRun[w] = p /\ wPc[w] \in ExecutePc

Finished(p) == {s \in Stages : sStatus[p][s] = "succeeded"}

(* Recovery has still to look at the run, or is at work on it.             *)
RecoveryOwes(p) ==
    \/ cPc[Recovery] = "collect" /\ Recoverable(p)
    \/ p \in rIds
    \/ cRun[Recovery] = p

(* A worker that will find out what became of the container.               *)
Watched(p, s) ==
    \E w \in Workers : /\ wRun[w] = p /\ wStage[w] = s
                       /\ wPc[w] \in {"record", "wait", "poll", "abandon", "stop"}

(* A scheduled run that will reach a worker; a running one that has one,   *)
(* or that recovery will fail.                                             *)
OnItsWay(p) ==
    \/ \E i \in 1..Len(queue) : queue[i] = p
    \/ \E c \in Clients : cRun[c] = p /\ cPc[c] = "submit"
    \/ \E w \in Workers : wRun[w] = p /\ wPc[w] = "claim"
    \/ RecoveryOwes(p)

InHand(p) == RecoveryOwes(p) \/ \E w \in Workers : Executing(w, p)

(* The process died for good: nothing more happens in the model.           *)
GoneForGood == phase = "down" /\ boots = MaxBoots

-----------------------------------------------------------------------------
(* A run is reported succeeded only when every one of its stages was       *)
(* recorded succeeded, whatever was cancelled, failed or lost on the way.  *)
SuccessIsComplete ==
    \A p \in Runs : pStatus[p] = "succeeded" => Finished(p) = Stages

(* Stages are started in order, each after the one before it succeeded.    *)
StagesInOrder ==
    \A p \in Runs, s \in Stages :
        sStatus[p][s] \notin {"absent", "pending"} => 1..(s - 1) \subseteq Finished(p)

(* A run is never executed by two workers, though recovery and a start     *)
(* request may both put it into the queue.                                 *)
OneExecutor ==
    \A p \in Runs : \A v, w \in Workers : Executing(v, p) /\ Executing(w, p) => v = w

(* current_stage, which the worker writes from its own copy of the run,    *)
(* agrees with the stage rows: it is the stage in hand, or the one just    *)
(* finished.                                                               *)
CurrentStageAgrees ==
    \A p \in Runs :
        Finished(p) \in IF curStage[p] = 0 THEN {{}}
                        ELSE {1..(curStage[p] - 1), 1..curStage[p]}

(* A run never occupies two containers at a time, even when a create       *)
(* request was applied and its answer lost.                                *)
OneContainer ==
    \A p \in Runs : \A s, t \in Stages :
        task[p][s] = "active" /\ task[p][t] = "active" => s = t

(* A container is created under a name that was never used before, also    *)
(* not by a former process: the name is made of run and stage only         *)
(* (stageContainerName), and is all that polls and deletions go by.  The   *)
(* precondition of CreateTask is thus never in the way.                    *)
NamesFresh ==
    \A w \in Workers :
        wPc[w] = "execute" /\ wStage[w] \in ContainerStages => task[wRun[w]][wStage[w]] = "none"

(* While the first process lives and no request to gcs-v2 was lost, every  *)
(* active container has a worker that will stop it or see it end; failing  *)
(* statements, cancellation and recovery do not change that.               *)
ContainersWatched ==
    \A p \in Runs, s \in Stages :
        boots <= 1 /\ phase # "down" /\ gcsFaults = 0 /\ task[p][s] = "active" => Watched(p, s)

(* As long as no statement failed, a scheduled run is on its way to a      *)
(* worker: queued, being submitted or claimed, or waiting for recovery.    *)
ScheduledRunsCarried ==
    \A p \in Runs :
        phase = "up" /\ dbFaults = 0 /\ pStatus[p] = "scheduled" => OnItsWay(p)

(* Likewise a running run has its worker, or recovery will fail it.        *)
RunningRunsCarried ==
    \A p \in Runs :
        phase = "up" /\ dbFaults = 0 /\ pStatus[p] = "running" => InHand(p)

(* Recovery fails interrupted runs only: none that a worker of this        *)
(* process is executing.                                                   *)
RecoverySparesLiveRuns ==
    \A w \in Workers :
        cPc[Recovery] \in {"list", "release", "stages", "markStage", "failRun"} =>
            ~Executing(w, cRun[Recovery])

(* After recovery, a run that has failed has no active container that no   *)
(* worker watches: recovery deletes the containers of interrupted runs.    *)
NoOrphanContainers ==
    \A p \in Runs, s \in Stages :
        /\ phase = "up" /\ cPc[Recovery] = "idle"
        /\ pStatus[p] = "failed" /\ task[p][s] = "active"
        => Watched(p, s)

(* The end of a run, and of a stage, is never overwritten: not by the      *)
(* snapshot a worker, a cancellation or recovery writes late.              *)
EndsAreFinal ==
    [][\A p \in Runs :
           /\ pStatus[p] \in Terminal => pStatus'[p] = pStatus[p]
           /\ \A s \in Stages : sStatus[p][s] \in Terminal => sStatus'[p][s] = sStatus[p][s]]_vars

(* The service implements the life cycle promised for a run.               *)
Lifecycle == INSTANCE RunLifecycle WITH
    status <- pStatus,
    stage <- curStage,
    finished <- [p \in Runs |-> Finished(p)]

ImplementsLifecycle == Lifecycle!Spec

(* Every scheduled run ends, through restarts and with more runs than the  *)
(* queue and the workers hold.                                             *)
ScheduledRunsEnd ==
    \A p \in Runs : pStatus[p] = "scheduled" ~> pStatus[p] \in Terminal \/ GoneForGood

(* Every request is answered, also one that waits for room in the queue.   *)
CallsReturn ==
    \A c \in Clients : cPc[c] # "idle" ~> cPc[c] = "idle"
=============================================================================
