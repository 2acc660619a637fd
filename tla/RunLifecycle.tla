---------------------------- MODULE RunLifecycle ----------------------------
(***************************************************************************)
(* What the control service promises about a run, whoever looks at it and  *)
(* whatever fails: a run is started once, its stages finish one after the  *)
(* other, it succeeds only with all of them finished, and an end is final. *)
(***************************************************************************)
EXTENDS Integers

CONSTANTS Runs, NumStages

VARIABLES
    status,      \* [run -> status]
    stage,       \* [run -> the stage it has reached, 0 before it runs]
    finished     \* [run -> set of stages recorded as succeeded]

lifecycleVars == <<status, stage, finished>>

Init ==
    /\ status = [p \in Runs |-> "absent"]
    /\ stage = [p \in Runs |-> 0]
    /\ finished = [p \in Runs |-> {}]

Move(p, from, to) ==
    /\ status[p] \in from
    /\ status' = [status EXCEPT ![p] = to]
    /\ UNCHANGED finished

Submit(p) == Move(p, {"absent"}, "pending") /\ UNCHANGED stage

Schedule(p) == Move(p, {"pending"}, "scheduled") /\ UNCHANGED stage

Claim(p) ==
    /\ Move(p, {"scheduled"}, "running")
    /\ stage' = [stage EXCEPT ![p] = 1]

(* The stage in hand finishes; its result may come after the run's end.    *)
FinishStage(p) ==
    /\ status[p] \in {"running", "failed", "canceled"}
    /\ stage[p] > 0
    /\ finished[p] = 1..(stage[p] - 1)
    /\ finished' = [finished EXCEPT ![p] = 1..stage[p]]
    /\ UNCHANGED <<status, stage>>

NextStage(p) ==
    /\ status[p] = "running"
    /\ stage[p] < NumStages
    /\ finished[p] = 1..stage[p]
    /\ stage' = [stage EXCEPT ![p] = @ + 1]
    /\ UNCHANGED <<status, finished>>

Succeed(p) ==
    /\ finished[p] = 1..NumStages
    /\ Move(p, {"running"}, "succeeded")
    /\ UNCHANGED stage

Fail(p) == Move(p, {"running"}, "failed") /\ UNCHANGED stage

Cancel(p) == Move(p, {"pending", "scheduled", "running"}, "canceled") /\ UNCHANGED stage

Next ==
    \E p \in Runs :
        \/ Submit(p) \/ Schedule(p) \/ Claim(p)
        \/ FinishStage(p) \/ NextStage(p)
        \/ Succeed(p) \/ Fail(p) \/ Cancel(p)

Spec == Init /\ [][Next]_lifecycleVars
=============================================================================
