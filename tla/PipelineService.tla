--------------------------- MODULE PipelineService ---------------------------
(***************************************************************************)
(* The HTTP side of the control service: CreatePipeline, StartPipeline and *)
(* CancelPipeline, each a sequence of statements in the goroutine of one   *)
(* request, with nothing that excludes the executor or another request.    *)
(***************************************************************************)
EXTENDS ExecutorService, FiniteSets

CONSTANTS
    Disconnects,   \* BOOLEAN: may a client hang up during its request?
    EarlyTraffic   \* BOOLEAN: do requests arrive while recovery still runs?

ASSUME ServiceAssumption ==
    /\ Disconnects \in BOOLEAN
    /\ EarlyTraffic \in BOOLEAN

(* Requests are served until the process exits, also while it drains.      *)
Serving ==
    /\ phase # "down"
    /\ EarlyTraffic \/ cPc[Recovery] = "idle"

-----------------------------------------------------------------------------
(* CreatePipeline inserts the run, visible to everyone, then its stages    *)
(* one by one, without a transaction.                                      *)
CreateRun(p) ==
    /\ Serving
    /\ InsertRun(p)
    /\ creating' = creating \cup {p}
    /\ UNCHANGED <<stageRow, dbFaults, gcsVars, phase, boots, queue, workerVars, callVars, rIds>>

CreateStage(p) ==
    /\ p \in creating
    /\ \E s \in Stages :
           /\ sStatus[p][s] = "absent"
           /\ \A t \in 1..(s - 1) : sStatus[p][t] # "absent"
           /\ InsertStage(p, s)
           /\ creating' = IF s = NumStages THEN creating \ {p} ELSE creating
    /\ UNCHANGED <<runRow, dbFaults, gcsVars, phase, boots, queue, workerVars, callVars, rIds>>

CreateFails(p) ==
    /\ p \in creating
    /\ creating' = creating \ {p}
    /\ (Disconnects /\ UNCHANGED dbFaults) \/ DbFault
    /\ UNCHANGED <<runRow, stageRow, gcsVars, phase, boots, queue, workerVars, callVars, rIds>>

-----------------------------------------------------------------------------
CallBegin(c, p, pc) ==
    /\ cPc' = [cPc EXCEPT ![c] = pc]
    /\ cRun' = [cRun EXCEPT ![c] = p]
    /\ UNCHANGED cTodo

(* StartPipeline: the checks before only read; the compare-and-set decides *)
(* who submits the run.  A statement whose answer is lost leaves the run   *)
(* scheduled and returns.                                                  *)
StartPipeline(c, p) ==
    /\ Serving
    /\ cPc[c] = "idle"
    /\ Transition(p, "pending", "scheduled")
    /\ \/ CallBegin(c, p, "submit") /\ UNCHANGED dbFaults
       \/ DbFault /\ UNCHANGED callVars
    /\ UNCHANGED <<stageRow, gcsVars, procVars, queue, workerVars, rIds>>

(* CancelPipeline: the status is read and checked, then set if it is not   *)
(* terminal yet; both conditions are the same, so one step does both.      *)
CancelPipeline(c, p) ==
    /\ Serving
    /\ cPc[c] = "idle"
    /\ UpdateStatus(p, "canceled")
    /\ \/ CallBegin(c, p, "stages") /\ UNCHANGED dbFaults
       \/ DbFault /\ UNCHANGED callVars
    /\ UNCHANGED <<stageRow, gcsVars, procVars, queue, workerVars, rIds>>

CancelListStages(c) ==
    /\ cPc[c] = "stages"
    /\ UNCHANGED <<runRow, stageRow, gcsVars, procVars, queue, workerVars, rIds>>
    /\ \/ CallDbOk(c) /\ ListRunning(c, "list")
       \/ CallDbFails(c) /\ CallReturn(c)

CancelMarkStage(c) == MarkStage(c, "canceled", "list")

(* The client hangs up and its request context is cancelled.  Every later  *)
(* statement fails, the UpdateStatus(failed) that follows a given-up       *)
(* SubmitPipeline included, so the call ends where it stands; only the     *)
(* deletion of containers goes on, with a context of its own.              *)
HangUp(c) ==
    /\ Disconnects
    /\ cPc[c] \in {"submit", "stages", "markStage", "list"}
    /\ CallReturn(c)
    /\ UNCHANGED <<storeVars, gcsVars, procVars, queue, workerVars, rIds>>

Client(c) ==
    \/ \E p \in Runs : StartPipeline(c, p) \/ CancelPipeline(c, p)
    \/ CancelListStages(c) \/ CancelMarkStage(c) \/ HangUp(c)
    \/ SubmitPipeline(c) \/ ListContainers(c) \/ ReleaseContainers(c)

Create(p) == CreateRun(p) \/ CreateStage(p) \/ CreateFails(p)
=============================================================================
