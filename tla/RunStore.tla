------------------------------ MODULE RunStore ------------------------------
(***************************************************************************)
(* The rows of distill_pipeline_runs and distill_stage_runs that the       *)
(* control service shares between its goroutines, and the SQL statements   *)
(* of repository/mysql that change them.  Each statement is one atomic     *)
(* step of MySQL; the guards are the WHERE clauses.                        *)
(*                                                                         *)
(* A row is reduced to what the control flow reads: the status columns,    *)
(* current_stage and whether container_id is set.  The container's name is *)
(* a function of run and stage (stageContainerName), so a Boolean is       *)
(* enough.  Status "preparing" is read by the code and written nowhere, so *)
(* it does not occur.  Row deletion belongs to project deletion, which is  *)
(* a component of its own.                                                 *)
(***************************************************************************)
EXTENDS Integers

CONSTANTS
    Runs,         \* pipeline run ids
    NumStages,    \* stages of a run: 4, or 5 with student training
    MaxDbFaults   \* bound: statements that may fail in a behaviour

ASSUME StoreAssumption ==
    /\ NumStages \in Nat \ {0}
    /\ MaxDbFaults \in Nat

VARIABLES
    pStatus,      \* [run -> status], "absent" before the row is inserted
    curStage,     \* [run -> current_stage]
    sStatus,      \* [run -> [stage order -> status]]
    sCont,        \* [run -> [stage order -> container_id # ""]]
    dbFaults      \* statements that failed so far

runRow == <<pStatus, curStage>>
stageRow == <<sStatus, sCont>>
storeVars == <<pStatus, curStage, sStatus, sCont, dbFaults>>

Stages == 1..NumStages
Terminal == {"succeeded", "failed", "canceled"}
NonTerminal == {"pending", "scheduled", "running"}
Status == Terminal \cup NonTerminal \cup {"absent"}

StoreTypeOK ==
    /\ pStatus \in [Runs -> Status]
    /\ curStage \in [Runs -> 0..NumStages]
    /\ sStatus \in [Runs -> [Stages -> Status]]
    /\ sCont \in [Runs -> [Stages -> BOOLEAN]]
    /\ dbFaults \in 0..MaxDbFaults

StoreInit ==
    /\ pStatus = [p \in Runs |-> "absent"]
    /\ curStage = [p \in Runs |-> 0]
    /\ sStatus = [p \in Runs |-> [s \in Stages |-> "absent"]]
    /\ sCont = [p \in Runs |-> [s \in Stages |-> FALSE]]
    /\ dbFaults = 0

-----------------------------------------------------------------------------
(* Whether a guarded statement matches the row: a run is open until it is  *)
(* terminal, a stage accepts a snapshot with status st while it is open or *)
(* has that very status.                                                   *)
RunOpen(p) == pStatus[p] \in NonTerminal

StageOpen(p, s, st) == sStatus[p][s] \in NonTerminal \cup {st}

(* pipelineRepo.Create and stageRepo.Create.                               *)
InsertRun(p) ==
    /\ pStatus[p] = "absent"
    /\ pStatus' = [pStatus EXCEPT ![p] = "pending"]
    /\ UNCHANGED curStage

InsertStage(p, s) ==
    /\ sStatus' = [sStatus EXCEPT ![p][s] = "pending"]
    /\ UNCHANGED sCont

(* A bug kept for the mutation runs: the compare half of the compare-and-  *)
(* set is lost.                                                            *)
TransitionUnguarded(p, from, to) ==
    /\ pStatus[p] # "absent"
    /\ pStatus' = [pStatus EXCEPT ![p] = to]
    /\ curStage' = [curStage EXCEPT ![p] = IF to = "running" THEN 1 ELSE @]

(* Transition: compare-and-set on the status; enabled when it matches.     *)
Transition(p, from, to) ==
    /\ pStatus[p] = from
    /\ pStatus' = [pStatus EXCEPT ![p] = to]
    /\ curStage' = [curStage EXCEPT ![p] = IF to = "running" THEN 1 ELSE @]

(* Bugs kept for the mutation runs: the WHERE clause forgets the terminal  *)
(* states; the new current_stage is not written.                           *)
UpdateRunUnguarded(p, st, stage) ==
    /\ pStatus' = [pStatus EXCEPT ![p] = st]
    /\ curStage' = [curStage EXCEPT ![p] = stage]

UpdateRunStatusOnly(p, st, stage) ==
    /\ RunOpen(p)
    /\ pStatus' = [pStatus EXCEPT ![p] = st]
    /\ UNCHANGED curStage

(* pipelineRepo.Update: writes the caller's snapshot of the whole row.     *)
UpdateRun(p, st, stage) ==
    /\ RunOpen(p)
    /\ pStatus' = [pStatus EXCEPT ![p] = st]
    /\ curStage' = [curStage EXCEPT ![p] = stage]

(* UpdateStatus: only the status column.                                   *)
UpdateStatus(p, st) ==
    /\ RunOpen(p)
    /\ pStatus' = [pStatus EXCEPT ![p] = st]
    /\ UNCHANGED curStage

(* A bug kept for the mutation runs: a late snapshot overwrites an end.    *)
UpdateStageUnguarded(p, s, st, cont) ==
    /\ sStatus[p][s] # "absent"
    /\ sStatus' = [sStatus EXCEPT ![p][s] = st]
    /\ sCont' = [sCont EXCEPT ![p][s] = cont]

(* stageRepo.Update: writes the caller's snapshot, container_id included.  *)
UpdateStage(p, s, st, cont) ==
    /\ StageOpen(p, s, st)
    /\ sStatus' = [sStatus EXCEPT ![p][s] = st]
    /\ sCont' = [sCont EXCEPT ![p][s] = cont]

(* One statement fails: the connection breaks or the server refuses.  The  *)
(* caller decides what the broken call may have done before.               *)
DbFault ==
    /\ dbFaults < MaxDbFaults
    /\ dbFaults' = dbFaults + 1
=============================================================================
