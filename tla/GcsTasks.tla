------------------------------ MODULE GcsTasks ------------------------------
(***************************************************************************)
(* The container tasks of gcs-v2, an external service, modelled from how   *)
(* internal/client/gcs and runtime use it.  A stage's task is named after  *)
(* the run and the stage, and a request can be lost before or after it     *)
(* took effect.                                                            *)
(***************************************************************************)
EXTENDS RunStore

CONSTANTS
    ContainerStages,  \* orders of distill_data and student_train
    MaxGcsFaults      \* bound: requests to gcs-v2 that may be lost

ASSUME GcsAssumption ==
    /\ ContainerStages \subseteq Stages
    /\ MaxGcsFaults \in Nat

VARIABLES
    task,             \* [run -> [stage order -> state of the task]]
    gcsFaults         \* requests lost so far

gcsVars == <<task, gcsFaults>>

(* "none" before the create request, "active" from its acceptance until    *)
(* the container stops, "gone" after a delete request.  GetTask may answer *)
(* "not found" while an accepted task is not yet registered; the caller    *)
(* then polls again, as it does when it finds the task active.             *)
TaskState == {"none", "active", "done", "error", "gone"}

GcsTypeOK ==
    /\ task \in [Runs -> [Stages -> TaskState]]
    /\ gcsFaults \in 0..MaxGcsFaults

GcsInit ==
    /\ task = [p \in Runs |-> [s \in Stages |-> "none"]]
    /\ gcsFaults = 0

(* What GetTask finds.                                                     *)
TaskFound(p, s) == task[p][s] \in {"active", "done", "error"}

GcsFault ==
    /\ gcsFaults < MaxGcsFaults
    /\ gcsFaults' = gcsFaults + 1

CreateTask(p, s) ==
    /\ task[p][s] = "none"
    /\ task' = [task EXCEPT ![p][s] = "active"]

(* DELETE /tasks/{name} takes effect; deleting what is not there is fine.  *)
RemoveTask(p, s) ==
    task' = [task EXCEPT ![p][s] = IF @ = "none" THEN @ ELSE "gone"]

(* stopContainerTask: the request takes effect, or is lost; its error is   *)
(* only logged.                                                            *)
DeleteTask(p, s) ==
    \/ RemoveTask(p, s) /\ UNCHANGED gcsFaults
    \/ GcsFault /\ UNCHANGED task

(* The container stops by itself: TaskStateContainerDone or an error state.*)
TaskEnds(p, s) ==
    /\ task[p][s] = "active"
    /\ \E end \in {"done", "error"} : task' = [task EXCEPT ![p][s] = end]
    /\ UNCHANGED gcsFaults
=============================================================================
