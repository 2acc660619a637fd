---------------------------- MODULE RecoveredRuns ----------------------------
(***************************************************************************)
(* Which goroutine carries a run, and which looks after a container; and   *)
(* what a restart makes good.  A statement that fails, a crash, or a       *)
(* client that gives up while the queue is full can leave a run behind     *)
(* that nobody carries; no other step may, and the next process carries it *)
(* again.  It also deletes the containers that were recorded for the runs  *)
(* the former one left running.                                            *)
(***************************************************************************)
EXTENDS ControlService

(* Recovery collects every run that was interrupted: until it has read its *)
(* list, it carries all of them.                                           *)
Collected(p) == cPc[Recovery] = "collect" \/ p \in rIds

(* A scheduled run is queued, or in the hand of somebody who queues or     *)
(* claims it.                                                              *)
CarriedScheduled(p) ==
    \/ Collected(p)
    \/ \E i \in 1..Len(queue) : queue[i] = p
    \/ \E c \in Callers : cRun[c] = p /\ cPc[c] = "submit"
    \/ \E w \in Workers : wRun[w] = p /\ wPc[w] = "claim"

(* What recovery does to a run that it fails.                              *)
FailPc == {"list", "release", "stages", "markStage", "failRun"}

CarriedRunning(p) ==
    \/ Collected(p)
    \/ cRun[Recovery] = p /\ cPc[Recovery] \in FailPc
    \/ \E w \in Workers : Executing(w, p)

Carried(p) ==
    /\ pStatus[p] = "scheduled" => CarriedScheduled(p)
    /\ pStatus[p] = "running" => CarriedRunning(p)

(* A submission that ends without the run being queued.                    *)
GivesUp(c) == cPc[c] = "submit" /\ cPc'[c] # "submit" /\ queue' = queue

NothingLost == dbFaults' = dbFaults /\ \A c \in Clients : ~GivesUp(c)

(* No run falls between two hands: while a process lives, a step at which  *)
(* no statement fails and no client gives up passes on every run that is   *)
(* carried, between queue, requests, recovery and workers; and the step    *)
(* that starts a process takes up every run, whatever former processes     *)
(* lost.                                                                   *)
RunsHandedOn ==
    [][ \A p \in Runs :
            phase' = "up" /\ NothingLost /\ (phase = "up" => Carried(p)) => Carried(p)' ]_vars
-----------------------------------------------------------------------------
(* Recovery has the run on its list, or in hand; somebody else has it in   *)
(* the queue, on the way there, or in a worker.                            *)
InCall == cPc[Recovery] \in FailPc \cup {"submit"}

HeldByRecovery(p) == p \in rIds \/ (InCall /\ cRun[Recovery] = p)

HeldElsewhere(p) ==
    \/ \E i \in 1..Len(queue) : queue[i] = p
    \/ \E c \in Clients : cRun[c] = p /\ cPc[c] = "submit"
    \/ \E w \in Workers : wRun[w] = p /\ wPc[w] # "idle"

HeldTwice(p) == HeldByRecovery(p) /\ HeldElsewhere(p)

(* Recovery and the rest of the process get hold of the same run, and may  *)
(* work against each other, in one way only: a request had started the run *)
(* before recovery read its list, and the list has it.  Whatever requests, *)
(* workers and recovery do after that, no other run gets into both hands.  *)
OnlyEarlyRunsHeldTwice ==
    [][ \A p \in Runs :
            HeldTwice(p)' =>
                HeldTwice(p) \/ (cPc[Recovery] = "collect" /\ HeldElsewhere(p)) ]_vars
-----------------------------------------------------------------------------
(* The container of a run that no worker executes any more, which recovery *)
(* has yet to delete: it will list the stages of the run, or has listed    *)
(* this one.                                                               *)
LeftToRecovery(p, s) ==
    \/ /\ pStatus[p] = "running" /\ sCont[p][s]
       /\ \A w \in Workers : ~Executing(w, p)
       /\ \/ Collected(p)
          \/ cRun[Recovery] = p /\ cPc[Recovery] = "list"
    \/ /\ cRun[Recovery] = p /\ cPc[Recovery] = "release"
       /\ <<s, TRUE>> \in cTodo[Recovery]

NothingFails == dbFaults' = dbFaults /\ gcsFaults' = gcsFaults

(* In every process: a container that is created has a worker about to see *)
(* it or stop it, and keeps that worker until it has stopped by itself or  *)
(* was deleted, unless a request to gcs-v2 is lost or the process ends.    *)
ContainersHandedOn ==
    [][ \A p \in Runs, s \in Stages :
            /\ phase' # "down" /\ gcsFaults' = gcsFaults
            /\ task'[p][s] = "active" /\ (task[p][s] = "active" => Watched(p, s))
            => Watched(p, s)' ]_vars

(* A new process takes up every recorded container of every run that the   *)
(* former ones left running, and recovery does not lose one of them before *)
(* it is deleted, whatever clients and workers do meanwhile; unless a      *)
(* statement or a request fails, or the run is cancelled, which deletes    *)
(* its containers by itself.                                               *)
ContainersCollected ==
    [][ \A p \in Runs, s \in Stages :
            /\ phase' = "up" /\ NothingFails /\ task'[p][s] = "active"
            /\ IF phase = "up"
               THEN LeftToRecovery(p, s) /\ (pStatus'[p] = "canceled" => pStatus[p] = "canceled")
               ELSE pStatus[p] = "running" /\ sCont[p][s]
            => LeftToRecovery(p, s)' ]_vars

(* Every container that a worker watches is deleted, after an end of its   *)
(* own, a cancellation or an error alike, and so is every container that   *)
(* was left to recovery; unless the process ends before.                   *)
ContainersRemoved ==
    \A p \in Runs, s \in Stages :
        task[p][s] = "active" /\ (Watched(p, s) \/ LeftToRecovery(p, s)) ~>
            task[p][s] = "gone" \/ phase = "down"
=============================================================================
