------------------------ MODULE RecoveredRuns_proofs ------------------------
(***************************************************************************)
(* Who has a run or a container in hand, for every value of the constants: *)
(* that a process carries the runs it finds, that every container is       *)
(* watched, that recovery spares the runs that are executed, and that it   *)
(* collects the containers of those that were interrupted.                 *)
(***************************************************************************)
EXTENDS ControlServiceTheorems_proofs, RecoveredRuns

(* A run that is carried is on its way to a worker, or in hand.            *)
LEMMA CarriedIsOwed ==
    ASSUME NEW p \in Runs, Carried(p)
    PROVE  /\ pStatus[p] = "scheduled" => OnItsWay(p)
           /\ pStatus[p] = "running" => InHand(p)
<1>1. Collected(p) /\ pStatus[p] \in {"scheduled", "running"} => RecoveryOwes(p)
  BY DEF Collected, RecoveryOwes, Recoverable
<1>2. \A c \in Callers : cRun[c] = p => c \in Clients \/ RecoveryOwes(p)
  BY DEF Callers, RecoveryOwes
<1> QED
  BY <1>1, <1>2 DEF Carried, CarriedScheduled, CarriedRunning, OnItsWay, InHand, RecoveryOwes

(* A worker that executes a run keeps it, or ends it.                      *)
LEMMA ExecutorCarries ==
    ASSUME NEW w \in Workers, wPc[w] \in ExecutePc,
           UNCHANGED <<queue, callVars, rIds>>,
           \A v \in Workers \ {w} : LocalsKept(v),
           \A q \in Runs \ {wRun[w]} : pStatus'[q] = pStatus[q],
           pStatus'[wRun[w]] = "scheduled" => pStatus[wRun[w]] = "scheduled",
           pStatus'[wRun[w]] = "running" => wPc'[w] \in ExecutePc /\ wRun'[w] = wRun[w],
           NEW p \in Runs, Carried(p)
    PROVE  Carried(p)'
<1>1. wPc[w] # "claim"
  BY PcClasses
<1>2. Collected(p)' <=> Collected(p)
  BY DEF Collected, callVars
<1>3. CarriedScheduled(p) => CarriedScheduled(p)'
  <2>1. ASSUME NEW v \in Workers, wRun[v] = p, wPc[v] = "claim"
        PROVE  wRun'[v] = p /\ wPc'[v] = "claim"
    BY <1>1, <2>1 DEF LocalsKept
  <2> QED
    BY <1>2, <2>1 DEF CarriedScheduled, callVars
<1>4. p # wRun[w] /\ CarriedRunning(p) => CarriedRunning(p)'
  <2>1. p # wRun[w] => \A v \in Workers : Executing(v, p) => Executing(v, p)'
    BY DEF Executing, LocalsKept
  <2> QED
    BY <1>2, <2>1 DEF CarriedRunning, callVars
<1>5. p = wRun[w] /\ pStatus'[p] = "running" => CarriedRunning(p)'
  BY DEF CarriedRunning, Executing
<1> QED
  BY <1>3, <1>4, <1>5 DEF Carried

(* It goes on to another step of the execution.                            *)
LEMMA ExecutorGoes ==
    ASSUME TypeInv, NEW w \in Workers, wPc[w] \in ExecutePc,
           NEW pc \in ExecutePc, WorkerGo(w, pc),
           UNCHANGED <<pStatus, queue, callVars, rIds>>,
           NEW p \in Runs, Carried(p)
    PROVE  Carried(p)'
<1>1. wPc'[w] = pc /\ wRun'[w] = wRun[w] /\ \A v \in Workers \ {w} : LocalsKept(v)
  BY GoEffect
<1> QED
  BY <1>1, ExecutorCarries

(* A statement whose context is alive and that does not fail.              *)
LEMMA NoFailure ==
    ASSUME TypeInv, phase = "up", UNCHANGED dbFaults
    PROVE  ~DbFault /\ ~WorkerDbFails /\ ~CallDbFails(Recovery)
<1>1. ~DbFault
  BY StoreAssumption DEF TypeInv, StoreTypeOK, DbFault
<1> QED
  BY <1>1 DEF WorkerDbFails, CallDbFails

LEMMA DequeueCarries ==
    ASSUME TypeInv, NEW w \in Workers, Dequeue(w), NEW p \in Runs, Carried(p)
    PROVE  Carried(p)'
<1>1. /\ wPc[w] = "idle" /\ queue # <<>> /\ queue' = Tail(queue)
      /\ wPc' = [wPc EXCEPT ![w] = "claim"] /\ wRun' = [wRun EXCEPT ![w] = Head(queue)]
      /\ UNCHANGED <<pStatus, cPc, cRun, rIds>>
  BY DEF Dequeue, storeVars, callVars
<1>2. wPc \in [Workers -> WorkerPc] /\ wRun \in [Workers -> Runs \cup {NoRun}] /\ queue \in Seq(Runs)
  BY DEF TypeInv, GoroutineInv, ExecutorTypeOK
<1>3. wRun'[w] = Head(queue) /\ wPc'[w] = "claim"
  BY <1>1, <1>2
<1>4. \A v \in Workers : wPc[v] # "idle" => wPc'[v] = wPc[v] /\ wRun'[v] = wRun[v]
  BY <1>1, <1>2
<1>5. ASSUME NEW i \in 1..Len(queue), queue[i] = p
      PROVE  p = Head(queue) \/ \E j \in 1..Len(queue') : queue'[j] = p
  <2>1. CASE i = 1
    BY <1>5, <2>1
  <2>2. CASE i # 1
    <3>1. i - 1 \in 1..Len(Tail(queue)) /\ Tail(queue)[i - 1] = p
      BY <1>1, <1>2, <1>5, <2>2
    <3> QED
      BY <1>1, <3>1
  <2> QED
    BY <2>1, <2>2
<1>6. Collected(p)' <=> Collected(p)
  BY <1>1 DEF Collected
<1>7. CarriedScheduled(p) => CarriedScheduled(p)'
  BY <1>1, <1>3, <1>4, <1>5, <1>6 DEF CarriedScheduled
<1>8. CarriedRunning(p) => CarriedRunning(p)'
  BY <1>1, <1>4, <1>6, PcClasses DEF CarriedRunning, Executing
<1> QED
  BY <1>1, <1>7, <1>8 DEF Carried

LEMMA ClaimCarries ==
    ASSUME TypeInv, NEW w \in Workers, Claim(w), phase = "up", UNCHANGED dbFaults,
           NEW p \in Runs, Carried(p)
    PROVE  Carried(p)'
<1>1. wPc[w] = "claim" /\ wRun[w] \in Runs /\ UNCHANGED <<queue, callVars, rIds>>
  BY DEF Claim, TypeInv, GoroutineInv, WorkersHoldRuns
<1>2. Collected(p)' <=> Collected(p)
  BY <1>1 DEF Collected, callVars
<1>3. ASSUME \A v \in Workers \ {w} : LocalsKept(v), p # wRun[w] \/ pStatus[p] # "scheduled",
             pStatus'[p] = pStatus[p]
      PROVE  Carried(p)'
  <2>1. pStatus[p] = "scheduled" /\ CarriedScheduled(p) => CarriedScheduled(p)'
    BY <1>1, <1>2, <1>3 DEF CarriedScheduled, LocalsKept, callVars
  <2>2. CarriedRunning(p) => CarriedRunning(p)'
    BY <1>1, <1>2, <1>3, PcClasses DEF CarriedRunning, Executing, LocalsKept, callVars
  <2> QED
    BY <1>3, <2>1, <2>2 DEF Carried
<1>4. CASE Transition(wRun[w], "scheduled", "running") /\ WorkerGo(w, "load")
  <2>1. /\ wPc'[w] = "load" /\ wRun'[w] = wRun[w]
        /\ \A v \in Workers \ {w} : LocalsKept(v)
    BY <1>4, GoEffect
  <2>2. pStatus'[wRun[w]] = "running" /\ \A q \in Runs \ {wRun[w]} : pStatus'[q] = pStatus[q]
    BY <1>1, <1>4 DEF Transition, TypeInv, StoreTypeOK
  <2>3. CASE p = wRun[w]
    BY <2>1, <2>2, <2>3, PcClasses DEF Carried, CarriedRunning, Executing
  <2> QED
    BY <1>3, <2>1, <2>2, <2>3
<1>5. CASE pStatus[wRun[w]] # "scheduled" /\ UNCHANGED runRow /\ WorkerDone(w)
  BY <1>3, <1>5, DoneEffect DEF runRow
<1> QED
  BY <1>4, <1>5, NoFailure DEF Claim

(* The last statement about a run ends it.                                 *)
LEMMA EndCarries ==
    ASSUME TypeInv, NEW w \in Workers, wPc[w] \in ExecutePc, WorkerDone(w),
           UNCHANGED <<queue, callVars, rIds>>,
           NEW st \in {"succeeded", "failed"},
           \/ UpdateRun(wRun[w], st, wStage[w]) \/ UpdateStatus(wRun[w], st)
           \/ pStatus[wRun[w]] \notin NonTerminal /\ UNCHANGED runRow,
           NEW p \in Runs, Carried(p)
    PROVE  Carried(p)'
<1>1. wRun[w] \in Runs
  BY PcClasses DEF TypeInv, GoroutineInv, WorkersHoldRuns
<1>2. /\ \A q \in Runs \ {wRun[w]} : pStatus'[q] = pStatus[q]
      /\ pStatus'[wRun[w]] \notin NonTerminal
  BY <1>1 DEF UpdateRun, UpdateStatus, TypeInv, StoreTypeOK, runRow, NonTerminal
<1>3. \A v \in Workers \ {w} : LocalsKept(v)
  BY DoneEffect
<1>4. pStatus'[wRun[w]] # "running" /\ pStatus'[wRun[w]] # "scheduled"
  BY <1>2 DEF NonTerminal
<1> QED
  BY <1>2, <1>3, <1>4, ExecutorCarries

LEMMA WorkerCarries ==
    ASSUME TypeInv, NEW w \in Workers, Worker(w), phase = "up", UNCHANGED dbFaults,
           NEW p \in Runs, Carried(p)
    PROVE  Carried(p)'
<1> DEFINE rest == <<queue, callVars, rIds>>
<1>0. CtxAlive /\ ~WorkerDbFails
  BY NoFailure DEF CtxAlive
<1>1. CASE Dequeue(w)
  BY <1>1, DequeueCarries
<1>2. CASE Claim(w)
  BY <1>2, ClaimCarries
<1>3. CASE CheckStage(w) \/ AfterStage(w)
  <2>1. /\ UNCHANGED runRow /\ UNCHANGED rest /\ wPc[w] \in ExecutePc
        /\ \/ pStatus[wRun[w]] = "canceled" /\ WorkerDone(w)
           \/ \E pc \in ExecutePc : WorkerGo(w, pc)
    BY <1>0, <1>3 DEF CheckStage, AfterStage, LeaveIfCanceled, ExecutePc
  <2>2. CASE pStatus[wRun[w]] = "canceled" /\ WorkerDone(w)
    BY <2>1, <2>2, EndCarries DEF NonTerminal
  <2> QED
    BY <2>1, <2>2, ExecutorGoes DEF runRow
<1>4. CASE MarkRunning(w) \/ Record(w) \/ SaveStage(w) \/ FailStage(w)
  <2>1. /\ UNCHANGED runRow /\ UNCHANGED rest /\ wPc[w] \in ExecutePc
        /\ \E pc \in ExecutePc : WorkerGo(w, pc)
    BY <1>4 DEF MarkRunning, Record, SaveStage, FailStage, WriteStage, ExecutePc
  <2> QED
    BY <2>1, ExecutorGoes DEF runRow
<1>5. CASE Load(w) \/ RunController(w) \/ Abandon(w) \/ WaitTick(w) \/ StopTask(w) \/ Release(w)
  <2>1. /\ UNCHANGED pStatus /\ UNCHANGED rest /\ wPc[w] \in ExecutePc
        /\ \E pc \in ExecutePc : WorkerGo(w, pc)
    BY <1>5 DEF Load, RunController, Abandon, WaitTick, StopTask, Release, ReleaseResult,
                ExecutePc, storeVars, runRow
  <2> QED
    BY <2>1, ExecutorGoes
<1>6. CASE Launch(w)
  <2>1. /\ UNCHANGED pStatus /\ UNCHANGED rest /\ wPc[w] = "execute" /\ "execute" \in ExecutePc
    BY <1>6 DEF Launch, storeVars, ExecutePc
  <2>2. CASE wPc' = [wPc EXCEPT ![w] = "record"] /\ UNCHANGED wRun /\ UNCHANGED wStage
    <3>1. wPc'[w] = "record" /\ "record" \in ExecutePc /\ \A v \in Workers \ {w} : LocalsKept(v)
      BY <2>2 DEF TypeInv, GoroutineInv, ExecutorTypeOK, LocalsKept, ExecutePc
    <3> QED
      BY <2>1, <2>2, <3>1, ExecutorCarries
  <2>3. CASE WorkerGo(w, "ranErr")
    <3>1. "ranErr" \in ExecutePc
      BY DEF ExecutePc
    <3> QED
      BY <2>1, <2>3, <3>1, ExecutorGoes
  <2> QED
    BY <1>6, <2>2, <2>3 DEF Launch
<1>7. CASE Poll(w)
  <2> DEFINE next == AfterPoll(task[wRun[w]][wStage[w]])
  <2>1. next \in {"wait", "releaseOk", "releaseErr"}
    BY DEF AfterPoll
  <2> HIDE DEF next
  <2>2. UNCHANGED rest /\ wPc[w] = "poll"
    BY <1>7 DEF Poll
  <2>3. UNCHANGED pStatus /\ \E pc \in {next, "wait", "stop"} : WorkerGo(w, pc)
    BY <1>7 DEF Poll, WriteStage, storeVars, runRow, next
  <2>4. {next, "wait", "stop", "poll"} \subseteq ExecutePc
    BY <2>1 DEF ExecutePc
  <2> QED
    BY <2>2, <2>3, <2>4, ExecutorGoes
<1>8. CASE Advance(w)
  <2>1. UNCHANGED rest /\ wPc[w] = "advance" /\ {"advance", "check", "deferFail"} \subseteq ExecutePc
    BY <1>8 DEF Advance, WriteRun, WriteRunFails, ExecutePc
  <2>2. CASE /\ UpdateRun(wRun[w], "running", wStage[w] + 1)
             /\ wPc' = [wPc EXCEPT ![w] = "check"]
             /\ wStage' = [wStage EXCEPT ![w] = @ + 1]
             /\ UNCHANGED wRun
    <3>1. wPc'[w] = "check" /\ \A v \in Workers \ {w} : LocalsKept(v)
      BY <2>2 DEF TypeInv, GoroutineInv, ExecutorTypeOK, LocalsKept
    <3>2. wRun[w] \in Runs
      BY <2>1 DEF TypeInv, GoroutineInv, WorkersHoldRuns
    <3>3. pStatus'[wRun[w]] = "running" /\ \A q \in Runs \ {wRun[w]} : pStatus'[q] = pStatus[q]
      BY <2>2, <3>2 DEF UpdateRun, TypeInv, StoreTypeOK
    <3> QED
      BY <2>1, <2>2, <3>1, <3>3, ExecutorCarries
  <2>3. CASE UNCHANGED runRow /\ WorkerGo(w, "deferFail")
    BY <2>1, <2>3, ExecutorGoes DEF runRow
  <2> QED
    BY <1>0, <1>8, <2>2, <2>3 DEF Advance, WriteRun, WriteRunFails
<1>9. CASE Finish(w)
  <2>1. UNCHANGED rest /\ wPc[w] = "finish" /\ {"finish", "deferFail"} \subseteq ExecutePc
    BY <1>9 DEF Finish, WriteRun, WriteRunFails, ExecutePc
  <2>2. CASE UpdateRun(wRun[w], "succeeded", wStage[w]) /\ WorkerDone(w)
    BY <2>1, <2>2, EndCarries
  <2>3. CASE UNCHANGED runRow /\ WorkerGo(w, "deferFail")
    BY <2>1, <2>3, ExecutorGoes DEF runRow
  <2> QED
    BY <1>0, <1>9, <2>2, <2>3 DEF Finish, WriteRun, WriteRunFails
<1>10. CASE FailRun(w)
  <2>1. /\ UNCHANGED rest /\ wPc[w] \in ExecutePc /\ "deferFail" \in ExecutePc
        /\ \/ UpdateStatus(wRun[w], "failed")
           \/ pStatus[wRun[w]] \notin NonTerminal /\ UNCHANGED runRow
    BY <1>0, <1>10 DEF FailRun, FailPipeline, RunOpen, ExecutePc
  <2>2. CASE WorkerDone(w)
    BY <2>1, <2>2, EndCarries
  <2>3. CASE WorkerGo(w, "deferFail")
    <3>1. wRun[w] \in Runs
      BY <2>1, PcClasses DEF TypeInv, GoroutineInv, WorkersHoldRuns
    <3>2. /\ \A q \in Runs \ {wRun[w]} : pStatus'[q] = pStatus[q]
          /\ pStatus'[wRun[w]] \in {pStatus[wRun[w]], "failed"}
      BY <2>1, <3>1 DEF UpdateStatus, TypeInv, StoreTypeOK, runRow
    <3> QED
      BY <2>1, <2>3, <3>2, GoEffect, ExecutorCarries
  <2> QED
    BY <1>10, <2>2, <2>3 DEF FailRun
<1> QED
  BY <1>1, <1>2, <1>3, <1>4, <1>5, <1>6, <1>7, <1>8, <1>9, <1>10 DEF Worker
-----------------------------------------------------------------------------
(* A caller's step that queues nothing and changes no status of a run      *)
(* leaves to recovery what recovery carries.                               *)
LEMMA CallerCarries ==
    ASSUME NEW c \in Callers, CallersKept(c),
           UNCHANGED <<queue, workerVars, rIds>>,
           cPc[c] \notin {"submit", "collect"},
           c = Recovery /\ cPc[c] \in FailPc => cPc'[c] \in FailPc /\ cRun'[c] = cRun[c],
           NEW p \in Runs, pStatus'[p] \notin NonTerminal \/ UNCHANGED pStatus, Carried(p)
    PROVE  Carried(p)'
<1>1. Recovery \in Callers
  BY DEF Callers
<1>2. Collected(p) => Collected(p)'
  BY <1>1 DEF Collected, CallersKept
<1>3. CarriedScheduled(p) => CarriedScheduled(p)'
  <2>1. ASSUME NEW d \in Callers, cRun[d] = p, cPc[d] = "submit"
        PROVE  cRun'[d] = p /\ cPc'[d] = "submit"
    BY <2>1 DEF CallersKept
  <2> QED
    BY <1>2, <2>1 DEF CarriedScheduled, workerVars
<1>4. CarriedRunning(p) => CarriedRunning(p)'
  <2>1. cRun[Recovery] = p /\ cPc[Recovery] \in FailPc =>
            cRun'[Recovery] = p /\ cPc'[Recovery] \in FailPc
    BY <1>1 DEF CallersKept
  <2> QED
    BY <1>2, <2>1 DEF CarriedRunning, Executing, workerVars
<1> QED
  BY <1>3, <1>4 DEF Carried, NonTerminal

LEMMA SubmitCarries ==
    ASSUME TypeInv, NEW c \in Callers, SubmitPipeline(c), NEW p \in Runs, Carried(p)
    PROVE  Carried(p)'
<1>1. /\ cPc[c] = "submit" /\ queue' = Append(queue, cRun[c])
      /\ UNCHANGED <<pStatus, workerVars, rIds>> /\ CallersKept(c)
  BY CallEffect DEF SubmitPipeline, storeVars
<1>2. queue \in Seq(Runs) /\ cRun[c] \in Runs
  BY <1>1 DEF TypeInv, GoroutineInv, ExecutorTypeOK, CallersHoldRuns
<1>3. /\ \A i \in 1..Len(queue) : i \in 1..Len(queue') /\ queue'[i] = queue[i]
      /\ Len(queue') \in 1..Len(queue') /\ queue'[Len(queue')] = cRun[c]
  BY <1>1, <1>2
<1>4. Recovery \in Callers
  BY DEF Callers
<1>5. Collected(p) => Collected(p)'
  BY <1>1, <1>4 DEF Collected, CallersKept
<1>6. CarriedScheduled(p) => CarriedScheduled(p)'
  <2>1. ASSUME NEW d \in Callers, cRun[d] = p, cPc[d] = "submit"
        PROVE  d = c \/ (cRun'[d] = p /\ cPc'[d] = "submit")
    BY <1>1, <2>1 DEF CallersKept
  <2>2. CASE Collected(p)
    BY <1>5, <2>2 DEF CarriedScheduled
  <2>3. CASE \E i \in 1..Len(queue) : queue[i] = p
    BY <1>3, <2>3 DEF CarriedScheduled
  <2>4. CASE \E d \in Callers : cRun[d] = p /\ cPc[d] = "submit"
    BY <1>3, <2>1, <2>4 DEF CarriedScheduled
  <2>5. CASE \E w \in Workers : wRun[w] = p /\ wPc[w] = "claim"
    BY <1>1, <2>5 DEF CarriedScheduled, workerVars
  <2> QED
    BY <2>2, <2>3, <2>4, <2>5 DEF CarriedScheduled
<1>7. CarriedRunning(p) => CarriedRunning(p)'
  <2>1. cPc[Recovery] \in FailPc => cPc'[Recovery] = cPc[Recovery] /\ cRun'[Recovery] = cRun[Recovery]
    BY <1>1, <1>4 DEF CallersKept, FailPc
  <2> QED
    BY <1>1, <1>5, <2>1 DEF CarriedRunning, Executing, workerVars
<1> QED
  BY <1>1, <1>6, <1>7 DEF Carried

(* The part of the callers that recovery and the requests share.           *)
LEMMA SharedCarries ==
    ASSUME TypeInv, NEW c \in Callers, ListContainers(c) \/ ReleaseContainers(c),
           NEW p \in Runs, Carried(p)
    PROVE  Carried(p)'
<1>1. /\ cPc[c] \in {"list", "release"} /\ UNCHANGED <<pStatus, queue, workerVars, rIds>>
      /\ \/ \E todo : CallGo(c, "release", todo)
         \/ CallGo(c, "stages", {})
         \/ c # Recovery /\ CallReturn(c)
  BY DEF ListContainers, ReleaseContainers, CallLoop, AfterCancel, runRow, storeVars
<1>2. /\ CallersKept(c)
      /\ c = Recovery => cPc'[c] \in FailPc /\ cRun'[c] = cRun[c]
  BY <1>1, CallEffect DEF FailPc
<1> QED
  BY <1>1, <1>2, CallerCarries

LEMMA MarkCarries ==
    ASSUME TypeInv, NEW c \in Callers, NEW st, NEW after \in {"list", "failRun"},
           MarkStage(c, st, after), NEW p \in Runs, Carried(p)
    PROVE  Carried(p)'
<1>1. /\ cPc[c] = "markStage" /\ UNCHANGED <<pStatus, queue, workerVars, rIds>>
      /\ (\E todo : CallGo(c, "markStage", todo)) \/ CallGo(c, after, {})
  BY DEF MarkStage, CallLoop, runRow
<1>2. CallersKept(c) /\ cPc'[c] \in FailPc /\ cRun'[c] = cRun[c]
  BY <1>1, CallEffect DEF FailPc
<1> QED
  BY <1>1, <1>2, CallerCarries

LEMMA RecoverCarries ==
    ASSUME TypeInv, Recover, phase = "up", UNCHANGED dbFaults, NEW p \in Runs, Carried(p)
    PROVE  Carried(p)'
<1>0. Recovery \in Callers /\ ~CallDbFails(Recovery)
  BY NoFailure DEF Callers
<1>1. CASE RecoverCollect
  <2>1. /\ cPc[Recovery] = "collect" /\ UNCHANGED pStatus
        /\ rIds' = {q \in Runs : Recoverable(q)}
    BY <1>0, <1>1 DEF RecoverCollect, runRow
  <2> QED
    BY <2>1 DEF Carried, CarriedScheduled, CarriedRunning, Collected, Recoverable
<1>2. CASE RecoverNext
  <2>1. cPc[Recovery] = "next" /\ UNCHANGED <<pStatus, queue, workerVars, cTodo>>
    BY <1>2 DEF RecoverNext, runRow
  <2>2. CASE UNCHANGED rIds /\ cPc' = [cPc EXCEPT ![Recovery] = "idle"] /\ UNCHANGED cRun
    <3>1. CallersKept(Recovery)
      BY <2>1, <2>2 DEF CallersKept, TypeInv, GoroutineInv, ExecutorTypeOK
    <3> QED
      BY <1>0, <2>1, <2>2, <3>1, CallerCarries DEF FailPc
  <2>3. ASSUME NEW q \in rIds, rIds' = rIds \ {q},
               cPc' = [cPc EXCEPT ![Recovery] = StepFor(q)],
               cRun' = [cRun EXCEPT ![Recovery] = IF StepFor(q) = "next" THEN NoRun ELSE q]
        PROVE  Carried(p)'
    <3>1. /\ cPc'[Recovery] = StepFor(q) /\ (StepFor(q) # "next" => cRun'[Recovery] = q)
          /\ CallersKept(Recovery)
      BY <1>0, <2>1, <2>3 DEF CallersKept, TypeInv, GoroutineInv, ExecutorTypeOK
    <3>2. CASE p = q
      BY <1>0, <2>1, <3>1, <3>2
      DEF StepFor, Carried, CarriedScheduled, CarriedRunning, FailPc
    <3>3. CASE p # q
      <4>1. Collected(p) => Collected(p)'
        BY <2>1, <2>3, <3>3 DEF Collected
      <4>2. CarriedScheduled(p) => CarriedScheduled(p)'
        <5>1. ASSUME NEW d \in Callers, cRun[d] = p, cPc[d] = "submit"
              PROVE  cRun'[d] = p /\ cPc'[d] = "submit"
          BY <2>1, <3>1, <5>1 DEF CallersKept
        <5> QED
          BY <2>1, <4>1, <5>1 DEF CarriedScheduled, workerVars
      <4>3. CarriedRunning(p) => CarriedRunning(p)'
        BY <2>1, <4>1 DEF CarriedRunning, FailPc, Executing, workerVars
      <4> QED
        BY <2>1, <4>2, <4>3 DEF Carried
    <3> QED
      BY <3>2, <3>3
  <2> QED
    BY <1>0, <1>2, <2>2, <2>3 DEF RecoverNext
<1>3. CASE SubmitPipeline(Recovery)
  BY <1>0, <1>3, SubmitCarries
<1>4. CASE RecoverSubmitAborts
  BY <1>4 DEF RecoverSubmitAborts
<1>5. CASE ListContainers(Recovery) \/ ReleaseContainers(Recovery)
  BY <1>0, <1>5, SharedCarries
<1>6. CASE RecoverStages
  <2>1. /\ cPc[Recovery] = "stages" /\ UNCHANGED <<pStatus, queue, workerVars, rIds>>
        /\ (\E todo : CallGo(Recovery, "markStage", todo)) \/ CallGo(Recovery, "failRun", {})
    BY <1>6 DEF RecoverStages, ListRunning, CallLoop, runRow
  <2>2. CallersKept(Recovery) /\ cPc'[Recovery] \in FailPc /\ cRun'[Recovery] = cRun[Recovery]
    BY <1>0, <2>1, CallEffect DEF FailPc
  <2> QED
    BY <1>0, <2>1, <2>2, CallerCarries
<1>7. CASE RecoverMarkStage
  BY <1>0, <1>7, MarkCarries DEF RecoverMarkStage
<1>8. CASE RecoverFailRun
  <2>1. /\ cPc[Recovery] = "failRun" /\ UNCHANGED <<queue, workerVars, rIds>>
        /\ CallersKept(Recovery) /\ cRun[Recovery] \in Runs
    BY <1>0, <1>8, CallEffect
    DEF RecoverFailRun, TypeInv, GoroutineInv, CallersHoldRuns
  <2>2. /\ pStatus'[cRun[Recovery]] \notin NonTerminal
        /\ \A q \in Runs \ {cRun[Recovery]} : pStatus'[q] = pStatus[q]
    BY <1>8, <2>1, NoFailure
    DEF RecoverFailRun, FailPipeline, UpdateStatus, RunOpen, runRow, TypeInv, StoreTypeOK,
        NonTerminal
  <2>3. CASE p = cRun[Recovery]
    BY <2>2, <2>3 DEF Carried, NonTerminal
  <2>4. CASE p # cRun[Recovery]
    <3>1. Collected(p) => Collected(p)'
      BY <2>1 DEF Collected
    <3>2. CarriedScheduled(p) => CarriedScheduled(p)'
      <4>1. ASSUME NEW d \in Callers, cRun[d] = p, cPc[d] = "submit"
            PROVE  cRun'[d] = p /\ cPc'[d] = "submit"
        BY <2>1, <4>1 DEF CallersKept
      <4> QED
        BY <2>1, <3>1, <4>1 DEF CarriedScheduled, workerVars
    <3>3. CarriedRunning(p) => CarriedRunning(p)'
      BY <2>1, <2>4, <3>1 DEF CarriedRunning, Executing, workerVars
    <3> QED
      BY <2>2, <2>4, <3>2, <3>3 DEF Carried
  <2> QED
    BY <2>3, <2>4
<1> QED
  BY <1>1, <1>2, <1>3, <1>4, <1>5, <1>6, <1>7, <1>8 DEF Recover

LEMMA ClientCarries ==
    ASSUME TypeInv, NEW c \in Clients, Client(c), ~GivesUp(c), UNCHANGED dbFaults,
           NEW p \in Runs, Carried(p)
    PROVE  Carried(p)'
<1>0. c \in Callers /\ c # Recovery /\ ~DbFault
  BY ExecutorAssumption, StoreAssumption DEF Callers, DbFault, TypeInv, StoreTypeOK
<1>1. ASSUME NEW q \in Runs, StartPipeline(c, q)
      PROVE  Carried(p)'
  <2>1. /\ cPc[c] = "idle" /\ UNCHANGED <<queue, workerVars, rIds>>
        /\ CallersKept(c) /\ cPc'[c] = "submit" /\ cRun'[c] = q
        /\ Transition(q, "pending", "scheduled")
    BY <1>0, <1>1, CallEffect DEF StartPipeline
  <2>2. pStatus'[q] = "scheduled" /\ \A r \in Runs \ {q} : pStatus'[r] = pStatus[r]
    BY <2>1 DEF Transition, TypeInv, StoreTypeOK
  <2>3. CASE p = q
    BY <1>0, <2>1, <2>2, <2>3 DEF Carried, CarriedScheduled
  <2>4. CASE p # q
    <3>1. Recovery \in Callers /\ cPc'[Recovery] = cPc[Recovery] /\ cRun'[Recovery] = cRun[Recovery]
      BY <1>0, <2>1 DEF Callers, CallersKept
    <3>2. CarriedScheduled(p) => CarriedScheduled(p)'
      <4>1. ASSUME NEW d \in Callers, cRun[d] = p, cPc[d] = "submit"
            PROVE  cRun'[d] = p /\ cPc'[d] = "submit"
        BY <2>1, <4>1 DEF CallersKept
      <4> QED
        BY <2>1, <3>1, <4>1 DEF CarriedScheduled, Collected, workerVars
    <3>3. CarriedRunning(p) => CarriedRunning(p)'
      BY <2>1, <3>1 DEF CarriedRunning, Collected, Executing, workerVars
    <3> QED
      BY <2>2, <2>4, <3>2, <3>3 DEF Carried
  <2> QED
    BY <2>3, <2>4
<1>2. ASSUME NEW q \in Runs, CancelPipeline(c, q)
      PROVE  Carried(p)'
  <2>1. /\ cPc[c] = "idle" /\ UNCHANGED <<queue, workerVars, rIds>>
        /\ CallersKept(c)
        /\ UpdateStatus(q, "canceled")
    BY <1>0, <1>2, CallEffect DEF CancelPipeline
  <2>2. pStatus'[q] = "canceled" /\ \A r \in Runs \ {q} : pStatus'[r] = pStatus[r]
    BY <2>1 DEF UpdateStatus, TypeInv, StoreTypeOK
  <2>3. CASE p = q
    BY <2>2, <2>3 DEF Carried
  <2>4. CASE p # q
    <3>1. Recovery \in Callers /\ cPc'[Recovery] = cPc[Recovery] /\ cRun'[Recovery] = cRun[Recovery]
      BY <1>0, <2>1 DEF Callers, CallersKept
    <3>2. CarriedScheduled(p) => CarriedScheduled(p)'
      <4>1. ASSUME NEW d \in Callers, cRun[d] = p, cPc[d] = "submit"
            PROVE  cRun'[d] = p /\ cPc'[d] = "submit"
        BY <2>1, <4>1 DEF CallersKept
      <4> QED
        BY <2>1, <3>1, <4>1 DEF CarriedScheduled, Collected, workerVars
    <3>3. CarriedRunning(p) => CarriedRunning(p)'
      BY <2>1, <3>1 DEF CarriedRunning, Collected, Executing, workerVars
    <3> QED
      BY <2>2, <2>4, <3>2, <3>3 DEF Carried
  <2> QED
    BY <2>3, <2>4
<1>3. CASE CancelListStages(c)
  <2>1. /\ cPc[c] = "stages" /\ UNCHANGED <<pStatus, queue, workerVars, rIds>>
        /\ (\E pc, todo : CallGo(c, pc, todo)) \/ CallReturn(c)
    BY <1>3 DEF CancelListStages, ListRunning, CallLoop, runRow
  <2> QED
    BY <1>0, <2>1, CallEffect, CallerCarries
<1>4. CASE CancelMarkStage(c)
  BY <1>0, <1>4, MarkCarries DEF CancelMarkStage
<1>5. CASE HangUp(c)
  <2>1. /\ cPc[c] \in {"stages", "markStage", "list", "submit"} /\ CallReturn(c)
        /\ UNCHANGED <<pStatus, queue, workerVars, rIds>>
    BY <1>5 DEF HangUp, storeVars
  <2>2. CallersKept(c) /\ cPc'[c] # "submit"
    BY <1>0, <2>1, CallEffect
  <2>3. cPc[c] \notin {"submit", "collect"}
    BY <2>1, <2>2 DEF GivesUp
  <2> QED
    BY <1>0, <2>1, <2>2, <2>3, CallerCarries
<1>6. CASE SubmitPipeline(c)
  BY <1>0, <1>6, SubmitCarries
<1>7. CASE ListContainers(c) \/ ReleaseContainers(c)
  BY <1>0, <1>7, SharedCarries
<1> QED
  BY <1>1, <1>2, <1>3, <1>4, <1>5, <1>6, <1>7 DEF Client

-----------------------------------------------------------------------------
(* Creation and the environment touch none of it; a new process leaves all *)
(* to its recovery.                                                        *)
CarryVars == <<queue, workerVars, callVars, rIds>>

LEMMA RestCarries ==
    ASSUME UNCHANGED CarryVars, NEW p \in Runs, Carried(p),
           pStatus'[p] \in {pStatus[p], "pending"}
    PROVE  Carried(p)'
<1>1. CarriedScheduled(p)' <=> CarriedScheduled(p)
  BY DEF CarriedScheduled, Collected, CarryVars, workerVars, callVars
<1>2. CarriedRunning(p)' <=> CarriedRunning(p)
  BY DEF CarriedRunning, Collected, Executing, CarryVars, workerVars, callVars
<1> QED
  BY <1>1, <1>2 DEF Carried

LEMMA BootCarries ==
    ASSUME TypeInv, Boot, NEW p \in Runs
    PROVE  Carried(p)'
<1>1. cPc'[Recovery] = "collect"
  BY DEF Boot, TypeInv, GoroutineInv, ExecutorTypeOK, Callers
<1> QED
  BY <1>1 DEF Carried, CarriedScheduled, CarriedRunning, Collected

(* A step of a process that loses nothing.                                 *)
LEMMA StepCarries ==
    ASSUME TypeInv, [Next]_vars, phase' = "up", NothingLost, NEW p \in Runs,
           phase = "up" => Carried(p)
    PROVE  Carried(p)'
<1>1. CASE Boot
  BY <1>1, BootCarries
<1>2. CASE Crash \/ Exit \/ Shutdown
  BY <1>2 DEF Crash, Exit, Shutdown, Die, LoseMemory
<1>3. ASSUME NEW w \in Workers, Worker(w)
      PROVE  Carried(p)'
  BY <1>3, WorkerAlone, WorkerCarries DEF NothingLost, procVars
<1>4. CASE Recover
  <2>1. UNCHANGED procVars
    BY <1>4
    DEF Recover, RecoverCollect, RecoverNext, SubmitPipeline, RecoverSubmitAborts,
        ListContainers, ReleaseContainers, RecoverStages, RecoverMarkStage, MarkStage,
        RecoverFailRun, workerVars
  <2> QED
    BY <1>4, <2>1, RecoverCarries DEF NothingLost, procVars
<1>5. ASSUME NEW c \in Clients, Client(c)
      PROVE  Carried(p)'
  <2>1. UNCHANGED procVars
    BY <1>5
    DEF Client, StartPipeline, CancelPipeline, CancelListStages, CancelMarkStage, MarkStage,
        HangUp, SubmitPipeline, ListContainers, ReleaseContainers
  <2> QED
    BY <1>5, <2>1, ClientCarries DEF NothingLost, procVars
<1>6. ASSUME NEW q \in Runs, Create(q)
      PROVE  Carried(p)'
  <2>1. UNCHANGED CarryVars /\ UNCHANGED phase /\ pStatus'[p] \in {pStatus[p], "pending"}
    BY <1>6
    DEF Create, CreateRun, InsertRun, CreateStage, CreateFails, CarryVars, runRow, TypeInv,
        StoreTypeOK
  <2> QED
    BY <2>1, RestCarries
<1>7. CASE ContainerEnds \/ UNCHANGED vars
  <2>1. UNCHANGED CarryVars /\ UNCHANGED <<phase, pStatus>>
    BY <1>7 DEF ContainerEnds, vars, storeVars, executorVars, procVars, CarryVars
  <2> QED
    BY <2>1, RestCarries
<1> QED
  BY <1>1, <1>2, <1>3, <1>4, <1>5, <1>6, <1>7 DEF Next

(* A step that changes nothing loses nothing.                              *)
LEMMA StutterLosesNothing ==
    ASSUME UNCHANGED vars
    PROVE  NothingLost
  BY DEF NothingLost, GivesUp, vars, storeVars, executorVars, callVars

(* Between its boot and its end, a process drops no run, except where a    *)
(* statement fails or a client gives up.                                   *)
THEOREM RunsAreHandedOn == Spec => RunsHandedOn
<1>1. TypeInv /\ [Next]_vars =>
          [ \A p \in Runs :
                phase' = "up" /\ NothingLost /\ (phase = "up" => Carried(p)) => Carried(p)' ]_vars
  BY StepCarries
<1> QED
  BY <1>1, TypeInvariance, PTL DEF Spec, RunsHandedOn

(* All runs are on their way or in hand.                                   *)
NoneForgotten ==
    \A p \in Runs :
        phase = "up" =>
            /\ pStatus[p] = "scheduled" => OnItsWay(p)
            /\ pStatus[p] = "running" => InHand(p)

(* Whatever former processes lost, to failing statements, to clients that  *)
(* gave up or to crashes (of recovery, too): if from a moment at which the *)
(* service is down nothing is lost any more, every scheduled and every     *)
(* running run is carried whenever the service is up.                      *)
THEOREM LostRunsAreRecovered ==
    Spec => [](phase = "down" /\ [][NothingLost]_vars => []NoneForgotten)
<1> DEFINE AllCarried == phase = "up" => \A p \in Runs : Carried(p)
<1>1. phase = "down" => AllCarried
  OBVIOUS
<1>2. TypeInv /\ AllCarried /\ [Next]_vars /\ [NothingLost]_vars => AllCarried'
  <2> SUFFICES ASSUME TypeInv, AllCarried, [Next]_vars, [NothingLost]_vars,
                      phase' = "up", NEW p \in Runs
               PROVE  Carried(p)'
    OBVIOUS
  <2>1. NothingLost
    BY StutterLosesNothing
  <2> QED
    BY <2>1, StepCarries
<1>3. AllCarried => NoneForgotten
  BY CarriedIsOwed DEF NoneForgotten
<1> QED
  <2> HIDE DEF AllCarried
  <2> QED
    BY <1>1, <1>2, <1>3, TypeInvariance, PTL DEF Spec

-----------------------------------------------------------------------------
(* Recovery moves no other caller.                                         *)
LEMMA RecoveryAlone ==
    ASSUME TypeInv, Recover
    PROVE  CallersKept(Recovery)
<1>1. Recovery \in Callers
  BY DEF Callers
<1> QED
  BY <1>1
  DEF Recover, RecoverCollect, RecoverNext, SubmitPipeline, RecoverSubmitAborts,
      ListContainers, ReleaseContainers, RecoverStages, ListRunning, RecoverMarkStage,
      MarkStage, RecoverFailRun, CallLoop, AfterCancel, CallGo, CallReturn, CallersKept,
      TypeInv, GoroutineInv, ExecutorTypeOK

(* A request moves no other caller.                                        *)
LEMMA ClientAlone ==
    ASSUME TypeInv, NEW c \in Clients, Client(c)
    PROVE  CallersKept(c)
<1>1. c \in Callers
  BY DEF Callers
<1> QED
  BY <1>1
  DEF Client, StartPipeline, CancelPipeline, CallBegin, CancelListStages, ListRunning,
      CancelMarkStage, MarkStage, HangUp, SubmitPipeline, ListContainers, ReleaseContainers,
      CallLoop, AfterCancel, CallGo, CallReturn, CallersKept, callVars, TypeInv, GoroutineInv,
      ExecutorTypeOK

(* Without hang-ups no submission is given up while the process is up.     *)
LEMMA NoneGivesUp ==
    ASSUME TypeInv, [Next]_vars, phase' = "up", ~Disconnects, NEW c \in Clients
    PROVE  ~GivesUp(c)
<1>0. c \in Callers /\ c # Recovery /\ Recovery \in Callers
  BY ExecutorAssumption DEF Callers
<1>1. CASE cPc'[c] = cPc[c]
  BY <1>1 DEF GivesUp
<1>2. CASE Boot \/ Crash \/ Exit \/ Shutdown
  BY <1>0, <1>2
  DEF Boot, Crash, Exit, Shutdown, Die, LoseMemory, GivesUp, callVars, TypeInv, GoroutineInv,
      ExecutorTypeOK
<1>3. CASE Recover
  BY <1>0, <1>1, <1>3, RecoveryAlone DEF CallersKept
<1>4. ASSUME NEW d \in Clients, Client(d)
      PROVE  ~GivesUp(c)
  <2>1. d \in Callers
    BY DEF Callers
  <2>2. CASE SubmitPipeline(d)
    <3>1. queue \in Seq(Runs) /\ cRun[d] \in Runs
      BY <2>1, <2>2
      DEF SubmitPipeline, TypeInv, GoroutineInv, ExecutorTypeOK, CallersHoldRuns
    <3>2. Len(Append(queue, cRun[d])) # Len(queue)
      BY <3>1
    <3>3. queue' # queue
      BY <2>2, <3>2 DEF SubmitPipeline
    <3> QED
      BY <3>3 DEF GivesUp
  <2>3. ASSUME ~SubmitPipeline(d)
        PROVE  cPc[d] # "submit"
    BY <1>4, <2>3
    DEF Client, StartPipeline, CancelPipeline, CancelListStages, CancelMarkStage, MarkStage,
        HangUp, ListContainers, ReleaseContainers
  <2>4. CASE d = c /\ ~SubmitPipeline(d)
    BY <2>3, <2>4 DEF GivesUp
  <2>5. CASE d # c
    <3>1. CallersKept(d)
      BY <1>4, ClientAlone
    <3> QED
      BY <1>0, <1>1, <2>5, <3>1 DEF CallersKept
  <2> QED
    BY <2>2, <2>4, <2>5
<1>5. ASSUME NEW w \in Workers, Worker(w)
      PROVE  ~GivesUp(c)
  BY <1>1, <1>5, WorkerAlone DEF callVars
<1>6. ASSUME NEW q \in Runs, Create(q)
      PROVE  ~GivesUp(c)
  BY <1>1, <1>6 DEF Create, CreateRun, CreateStage, CreateFails, callVars
<1>7. CASE ContainerEnds \/ UNCHANGED vars
  BY <1>1, <1>7 DEF ContainerEnds, vars, executorVars, callVars
<1> QED
  BY <1>2, <1>3, <1>4, <1>5, <1>6, <1>7 DEF Next

(* The inductive invariant of Spec, as long as no statement failed.        *)
CalmCarried == phase = "up" /\ dbFaults = 0 => \A p \in Runs : Carried(p)

LEMMA CalmStep ==
    ASSUME TypeInv, [Next]_vars, ~Disconnects, CalmCarried
    PROVE  CalmCarried'
<1> SUFFICES ASSUME phase' = "up", dbFaults' = 0, NEW p \in Runs
             PROVE  Carried(p)'
  BY DEF CalmCarried
<1>1. dbFaults \in Nat /\ (dbFaults' = dbFaults \/ dbFaults' = dbFaults + 1)
  <2>1. UNCHANGED dbFaults \/ DbFault
    <3>1. CASE Boot \/ Crash \/ Exit \/ Shutdown \/ ContainerEnds \/ UNCHANGED vars
      BY <3>1 DEF Boot, Crash, Exit, Shutdown, Die, ContainerEnds, vars, storeVars
    <3>2. ASSUME NEW w \in Workers, Worker(w)
          PROVE  UNCHANGED dbFaults \/ DbFault
      BY <3>2
      DEF Worker, Dequeue, Claim, Load, CheckStage, LeaveIfCanceled, MarkRunning,
          RunController, Launch, Record, Abandon, WaitTick, Poll, StopTask, Release,
          AfterStage, SaveStage, Advance, Finish, WriteStage, WriteRun, WriteRunFails,
          FailStage, FailRun, FailPipeline, CtxAlive, WorkerDbFails, storeVars
    <3>3. CASE Recover
      <4>1. CASE SubmitPipeline(Recovery) \/ RecoverSubmitAborts \/ ReleaseContainers(Recovery)
        BY <4>1 DEF SubmitPipeline, RecoverSubmitAborts, ReleaseContainers, storeVars
      <4>2. CASE RecoverCollect \/ RecoverNext \/ RecoverStages
        BY <4>2 DEF RecoverCollect, RecoverNext, RecoverStages, CallDbOk, CallDbFails
      <4>3. CASE ListContainers(Recovery) \/ RecoverMarkStage
        BY <4>3 DEF ListContainers, RecoverMarkStage, MarkStage, CallDbOk, CallDbFails
      <4>4. CASE RecoverFailRun
        BY <4>4 DEF RecoverFailRun, FailPipeline, CtxAlive, WorkerDbFails, storeVars
      <4> QED
        BY <3>3, <4>1, <4>2, <4>3, <4>4 DEF Recover
    <3>4. ASSUME NEW c \in Clients, Client(c)
          PROVE  UNCHANGED dbFaults \/ DbFault
      BY <3>4
      DEF Client, StartPipeline, CancelPipeline, CancelListStages, CancelMarkStage, MarkStage,
          HangUp, SubmitPipeline, ListContainers, ReleaseContainers, CallDbOk, CallDbFails,
          storeVars
    <3>5. ASSUME NEW q \in Runs, Create(q)
          PROVE  UNCHANGED dbFaults \/ DbFault
      BY <3>5 DEF Create, CreateRun, CreateStage, CreateFails
    <3> QED
      BY <3>1, <3>2, <3>3, <3>4, <3>5 DEF Next
  <2> QED
    BY <2>1, StoreAssumption DEF TypeInv, StoreTypeOK, DbFault
<1>2. dbFaults = 0 /\ dbFaults' = dbFaults
  BY <1>1
<1>3. NothingLost
  BY <1>2, NoneGivesUp DEF NothingLost
<1> QED
  BY <1>2, <1>3, StepCarries DEF CalmCarried

(* If clients wait for their answers and no statement failed, every        *)
(* scheduled run is on its way to a worker.                                *)
THEOREM ScheduledRunsAreCarried ==
    ASSUME ~Disconnects
    PROVE  Spec => []ScheduledRunsCarried
<1>1. Init => CalmCarried
  BY DEF Init, ExecutorInit, CalmCarried
<1>2. TypeInv /\ CalmCarried /\ [Next]_vars => CalmCarried'
  BY CalmStep
<1>3. CalmCarried => ScheduledRunsCarried
  BY CarriedIsOwed DEF CalmCarried, ScheduledRunsCarried
<1> QED
  BY <1>1, <1>2, <1>3, TypeInvariance, PTL DEF Spec

(* Likewise every running run has its worker, or recovery will fail it.    *)
THEOREM RunningRunsAreCarried ==
    ASSUME ~Disconnects
    PROVE  Spec => []RunningRunsCarried
<1>1. Init => CalmCarried
  BY DEF Init, ExecutorInit, CalmCarried
<1>2. TypeInv /\ CalmCarried /\ [Next]_vars => CalmCarried'
  BY CalmStep
<1>3. CalmCarried => RunningRunsCarried
  BY CarriedIsOwed DEF CalmCarried, RunningRunsCarried
<1> QED
  BY <1>1, <1>2, <1>3, TypeInvariance, PTL DEF Spec

-----------------------------------------------------------------------------
(* A process that is down has no goroutine.                                *)
Still ==
    /\ queue = <<>> /\ rIds = {}
    /\ \A w \in Workers : wPc[w] = "idle"
    /\ \A c \in Callers : cPc[c] = "idle"

DownInv == phase = "down" => Still

LEMMA DownStep ==
    ASSUME DownInv, [Next]_vars
    PROVE  DownInv'
<1>0. Recovery \in Callers /\ \A c \in Clients : c \in Callers
  BY DEF Callers
<1>1. CASE Crash \/ Exit
  BY <1>1 DEF Crash, Exit, Die, LoseMemory, DownInv, Still
<1>2. CASE Boot \/ Shutdown
  BY <1>2 DEF Boot, Shutdown, DownInv
<1>3. ASSUME NEW w \in Workers, Worker(w)
      PROVE  DownInv'
  <2>1. phase # "down" /\ UNCHANGED procVars
    BY <1>3
    DEF DownInv, Still, Worker, Dequeue, Claim, Load, CheckStage, LeaveIfCanceled, MarkRunning,
        RunController, Launch, Record, Abandon, WaitTick, Poll, StopTask, Release, AfterStage,
        SaveStage, Advance, Finish, WriteRun, WriteRunFails, FailStage, FailRun
  <2> QED
    BY <2>1 DEF DownInv, procVars
<1>4. CASE Recover
  <2>1. phase # "down" /\ UNCHANGED procVars
    BY <1>0, <1>4
    DEF DownInv, Still, Recover, RecoverCollect, RecoverNext, SubmitPipeline,
        RecoverSubmitAborts, ListContainers, ReleaseContainers, RecoverStages,
        RecoverMarkStage, MarkStage, RecoverFailRun, workerVars
  <2> QED
    BY <2>1 DEF DownInv, procVars
<1>5. ASSUME NEW c \in Clients, Client(c)
      PROVE  DownInv'
  <2>1. phase # "down" /\ UNCHANGED procVars
    BY <1>0, <1>5
    DEF DownInv, Still, Client, StartPipeline, CancelPipeline, Serving, CancelListStages,
        CancelMarkStage, MarkStage, HangUp, SubmitPipeline, ListContainers, ReleaseContainers
  <2> QED
    BY <2>1 DEF DownInv, procVars
<1>6. ASSUME NEW q \in Runs, Create(q)
      PROVE  DownInv'
  BY <1>6
  DEF Create, CreateRun, CreateStage, CreateFails, DownInv, Still, workerVars, callVars
<1>7. CASE ContainerEnds \/ UNCHANGED vars
  BY <1>7
  DEF ContainerEnds, vars, executorVars, procVars, workerVars, callVars, DownInv, Still
<1> QED
  BY <1>1, <1>2, <1>3, <1>4, <1>5, <1>6, <1>7 DEF Next

(* Queue and goroutines do not outlive their process.                      *)
THEOREM DownIsStill == Spec => []DownInv
<1>1. Init => DownInv
  BY DEF Init, ExecutorInit, DownInv, Still
<1> QED
  BY <1>1, DownStep, PTL DEF Spec

-----------------------------------------------------------------------------
(* A container that is created, or watched, has a worker about to see it   *)
(* or stop it, unless a request to gcs-v2 is lost or the process ends.     *)
WatchPc == {"record", "wait", "poll", "abandon", "stop"}

HandedOn(p, s) ==
    /\ phase' # "down" /\ gcsFaults' = gcsFaults
    /\ task'[p][s] = "active" /\ (task[p][s] = "active" => Watched(p, s))
    => Watched(p, s)'

(* A worker that leaves no container of its own behind.                    *)
LEMMA WorkerWatches ==
    ASSUME NEW w \in Workers, \A v \in Workers \ {w} : LocalsKept(v),
           \A p \in Runs, s \in Stages :
               gcsFaults' = gcsFaults /\ task'[p][s] = "active" =>
                   \/ task[p][s] = "active" /\ ~(wRun[w] = p /\ wStage[w] = s /\ wPc[w] \in WatchPc)
                   \/ wRun'[w] = p /\ wStage'[w] = s /\ wPc'[w] \in WatchPc,
           NEW p \in Runs, NEW s \in Stages
    PROVE  HandedOn(p, s)
<1> SUFFICES ASSUME gcsFaults' = gcsFaults, task'[p][s] = "active",
                    task[p][s] = "active" => Watched(p, s)
             PROVE  Watched(p, s)'
  BY DEF HandedOn
<1>1. CASE wRun'[w] = p /\ wStage'[w] = s /\ wPc'[w] \in WatchPc
  BY <1>1 DEF Watched, WatchPc
<1>2. CASE task[p][s] = "active" /\ ~(wRun[w] = p /\ wStage[w] = s /\ wPc[w] \in WatchPc)
  <2>1. PICK v \in Workers : wRun[v] = p /\ wStage[v] = s /\ wPc[v] \in WatchPc
    BY <1>2 DEF Watched, WatchPc
  <2>2. LocalsKept(v)
    BY <1>2, <2>1
  <2> QED
    BY <2>1, <2>2 DEF Watched, WatchPc, LocalsKept
<1> QED
  BY <1>1, <1>2

(* A delete request that is not lost is the end of the container.          *)
LEMMA TaskDeleted ==
    ASSUME TypeInv, NEW q \in Runs, NEW k \in Stages, DeleteTask(q, k), gcsFaults' = gcsFaults,
           NEW p \in Runs, NEW s \in Stages, task'[p][s] = "active"
    PROVE  task[p][s] = "active" /\ ~(p = q /\ s = k)
<1>1. RemoveTask(q, k)
  BY GcsAssumption DEF DeleteTask, GcsFault, TypeInv, GcsTypeOK
<1> QED
  BY <1>1 DEF RemoveTask, TypeInv, GcsTypeOK

LEMMA WorkerHandsOn ==
    ASSUME TypeInv, NEW w \in Workers, Worker(w), NEW p \in Runs, NEW s \in Stages
    PROVE  HandedOn(p, s)
<1>1. \A v \in Workers \ {w} : LocalsKept(v)
  BY WorkerAlone
<1>2. CASE UNCHANGED gcsVars /\ wPc[w] \notin WatchPc
  BY <1>1, <1>2, WorkerWatches DEF gcsVars
<1>3. CASE GcsFault
  BY <1>3, GcsAssumption DEF GcsFault, HandedOn, TypeInv, GcsTypeOK
<1>4. CASE Launch(w)
  <2>1. wRun[w] \in Runs /\ wStage[w] \in Stages /\ wPc[w] = "execute"
    BY <1>4 DEF Launch, TypeInv, GoroutineInv, ExecutorTypeOK, WorkersHoldRuns
  <2>2. CASE /\ CreateTask(wRun[w], wStage[w]) /\ UNCHANGED <<wRun, wStage, gcsFaults>>
             /\ wPc' = [wPc EXCEPT ![w] = "record"]
    <3>1. wPc'[w] \in WatchPc /\ wRun'[w] = wRun[w] /\ wStage'[w] = wStage[w]
      BY <2>2 DEF WatchPc, TypeInv, GoroutineInv, ExecutorTypeOK
    <3>2. \A q \in Runs, k \in Stages :
              task'[q][k] = "active" => task[q][k] = "active" \/ (wRun[w] = q /\ wStage[w] = k)
      BY <2>1, <2>2 DEF CreateTask, TypeInv, GcsTypeOK
    <3> QED
      BY <1>1, <2>1, <3>1, <3>2, WorkerWatches DEF WatchPc
  <2>3. CASE UNCHANGED gcsVars
    BY <1>2, <2>1, <2>3 DEF WatchPc
  <2> QED
    BY <1>3, <1>4, <2>2, <2>3 DEF Launch
<1>5. CASE Record(w) \/ WaitTick(w)
  <2>1. UNCHANGED gcsVars
    BY <1>5 DEF Record, WaitTick, WriteStage, gcsVars
  <2>2. wPc'[w] \in WatchPc /\ wRun'[w] = wRun[w] /\ wStage'[w] = wStage[w]
    BY <1>5
    DEF Record, WaitTick, WriteStage, WorkerGo, WatchPc, TypeInv, GoroutineInv, ExecutorTypeOK
  <2> QED
    BY <1>1, <2>1, <2>2, WorkerWatches DEF gcsVars
<1>6. CASE Poll(w)
  <2> DEFINE next == AfterPoll(task[wRun[w]][wStage[w]])
  <2>1. task[wRun[w]][wStage[w]] = "active" => next = "wait"
    BY DEF AfterPoll
  <2> HIDE DEF next
  <2>2. CASE UNCHANGED gcsVars /\ \E pc \in {next, "wait", "stop"} : WorkerGo(w, pc)
    <3>1. /\ wRun'[w] = wRun[w] /\ wStage'[w] = wStage[w]
          /\ task[wRun[w]][wStage[w]] = "active" => wPc'[w] \in WatchPc
      BY <2>1, <2>2 DEF WorkerGo, WatchPc, TypeInv, GoroutineInv, ExecutorTypeOK
    <3> QED
      BY <1>1, <2>2, <3>1, WorkerWatches DEF gcsVars
  <2> QED
    BY <1>3, <1>6, <2>2 DEF Poll, WriteStage, gcsVars, next
<1>7. CASE Abandon(w) \/ StopTask(w) \/ Release(w)
  <2>1. DeleteTask(wRun[w], wStage[w]) /\ wRun[w] \in Runs /\ wStage[w] \in Stages
    BY <1>7
    DEF Abandon, StopTask, Release, TypeInv, GoroutineInv, ExecutorTypeOK, WorkersHoldRuns
  <2>2. \A q \in Runs, k \in Stages :
            gcsFaults' = gcsFaults /\ task'[q][k] = "active" =>
                task[q][k] = "active" /\ ~(wRun[w] = q /\ wStage[w] = k)
    BY <2>1, TaskDeleted
  <2> QED
    BY <1>1, <2>2, WorkerWatches
<1>8. CASE \/ Dequeue(w) \/ Claim(w) \/ Load(w) \/ CheckStage(w) \/ MarkRunning(w)
           \/ RunController(w) \/ AfterStage(w) \/ SaveStage(w) \/ Advance(w) \/ Finish(w)
           \/ FailStage(w) \/ FailRun(w)
  BY <1>2, <1>8
  DEF Dequeue, Claim, Load, CheckStage, LeaveIfCanceled, MarkRunning, RunController,
      AfterStage, SaveStage, Advance, Finish, WriteStage, WriteRun, WriteRunFails, FailStage,
      FailRun, gcsVars, WatchPc
<1> QED
  BY <1>4, <1>5, <1>6, <1>7, <1>8 DEF Worker

LEMMA HandOnStep ==
    ASSUME TypeInv, [Next]_vars, NEW p \in Runs, NEW s \in Stages
    PROVE  HandedOn(p, s)
<1>1. CASE Crash \/ Exit
  BY <1>1 DEF Crash, Exit, Die, LoseMemory, HandedOn
<1>2. ASSUME NEW w \in Workers, Worker(w)
      PROVE  HandedOn(p, s)
  BY <1>2, WorkerHandsOn
<1>3. CASE ~(Crash \/ Exit) /\ \A w \in Workers : ~Worker(w)
  <2>1. UNCHANGED workerVars /\ (task'[p][s] = "active" => task[p][s] = "active")
    BY <1>3, OthersEndTasks, TasksOnlyEnd
  <2> QED
    BY <2>1 DEF HandedOn, Watched, workerVars
<1> QED
  BY <1>1, <1>2, <1>3

(* In every process, no container is left by its worker.                   *)
THEOREM ContainersAreHandedOn == Spec => ContainersHandedOn
<1>1. TypeInv /\ [Next]_vars =>
          [ \A p \in Runs, s \in Stages :
                /\ phase' # "down" /\ gcsFaults' = gcsFaults
                /\ task'[p][s] = "active" /\ (task[p][s] = "active" => Watched(p, s))
                => Watched(p, s)' ]_vars
  BY HandOnStep DEF HandedOn
<1> QED
  BY <1>1, TypeInvariance, PTL DEF Spec, ContainersHandedOn

(* Hence, while the first process lives and no request to gcs-v2 was lost, *)
(* every active container has its worker: before that process there is no  *)
(* container at all.                                                       *)
WatchInv ==
    /\ boots = 0 => phase = "down" /\ \A p \in Runs, s \in Stages : task[p][s] = "none"
    /\ ContainersWatched

(* Only the start of a process ends its being down, and counts.            *)
LEMMA BootCounts ==
    ASSUME TypeInv, [Next]_vars
    PROVE  \/ Boot /\ boots' = boots + 1 /\ boots \in Nat /\ UNCHANGED task
           \/ boots' = boots /\ (phase = "down" => phase' = "down")
<1>1. CASE Boot
  BY <1>1 DEF Boot, gcsVars, TypeInv, GoroutineInv, ExecutorTypeOK
<1>2. CASE Crash \/ Exit \/ Shutdown \/ ContainerEnds \/ UNCHANGED vars
  BY <1>2
  DEF Crash, Exit, Die, LoseMemory, Shutdown, ContainerEnds, vars, executorVars, procVars
<1>3. ASSUME NEW w \in Workers, Worker(w)
      PROVE  UNCHANGED procVars
  BY <1>3, WorkerAlone
<1>4. CASE Recover
  BY <1>4
  DEF Recover, RecoverCollect, RecoverNext, SubmitPipeline, RecoverSubmitAborts, ListContainers,
      ReleaseContainers, RecoverStages, RecoverMarkStage, MarkStage, RecoverFailRun, procVars
<1>5. ASSUME NEW c \in Clients, Client(c)
      PROVE  UNCHANGED procVars
  BY <1>5
  DEF Client, StartPipeline, CancelPipeline, CancelListStages, CancelMarkStage, MarkStage,
      HangUp, SubmitPipeline, ListContainers, ReleaseContainers
<1>6. ASSUME NEW q \in Runs, Create(q)
      PROVE  UNCHANGED <<phase, boots>>
  BY <1>6 DEF Create, CreateRun, CreateStage, CreateFails
<1> QED
  BY <1>1, <1>2, <1>3, <1>4, <1>5, <1>6 DEF Next, procVars

LEMMA RequestsCount ==
    ASSUME TypeInv, [Next]_vars, gcsFaults' = 0
    PROVE  gcsFaults = 0
<1>1. GcsTypeOK /\ (UNCHANGED gcsFaults \/ GcsFault) => gcsFaults = 0
  BY GcsAssumption DEF GcsTypeOK, GcsFault
<1>2. ASSUME NEW w \in Workers, Worker(w)
      PROVE  UNCHANGED gcsFaults \/ GcsFault
  BY <1>2
  DEF Worker, Dequeue, Claim, Load, CheckStage, LeaveIfCanceled, MarkRunning, RunController,
      Launch, Record, Abandon, WaitTick, Poll, StopTask, Release, DeleteTask, AfterStage,
      SaveStage, Advance, Finish, WriteStage, WriteRun, WriteRunFails, FailStage, FailRun, gcsVars
<1>3. CASE Crash \/ Exit
  BY <1>3 DEF Crash, Exit, Die, gcsVars
<1>4. CASE ~(Crash \/ Exit) /\ \A w \in Workers : ~Worker(w)
  BY <1>1, <1>4, OthersEndTasks DEF DeleteTask, TaskEnds, gcsVars, TypeInv
<1> QED
  BY <1>1, <1>2, <1>3, <1>4 DEF TypeInv

LEMMA WatchStep ==
    ASSUME TypeInv, DownInv, WatchInv, [Next]_vars
    PROVE  WatchInv'
<1>1. CASE Boot /\ boots' = boots + 1 /\ boots \in Nat /\ UNCHANGED task
  BY <1>1 DEF WatchInv, ContainersWatched
<1>2. CASE boots' = boots /\ (phase = "down" => phase' = "down")
  <2>1. boots = 0 => \A p \in Runs, s \in Stages : task'[p][s] = "none"
    <3> SUFFICES ASSUME boots = 0, NEW p \in Runs, NEW s \in Stages
                 PROVE  task'[p][s] = "none"
      OBVIOUS
    <3>1. \A w \in Workers : ~Worker(w)
      BY
      DEF WatchInv, DownInv, Still, Worker, Dequeue, Claim, Load, CheckStage, MarkRunning,
          RunController, Launch, Record, Abandon, WaitTick, Poll, StopTask, Release, AfterStage,
          SaveStage, Advance, Finish, FailStage, FailRun
    <3>2. ~(Crash \/ Exit)
      BY DEF WatchInv, Crash, Exit
    <3> QED
      BY <3>1, <3>2, OthersEndTasks, TasksOnlyEnd DEF WatchInv
  <2>2. ContainersWatched'
    BY <1>2, <2>1, RequestsCount, HandOnStep DEF WatchInv, ContainersWatched, HandedOn
  <2> QED
    BY <1>2, <2>1, <2>2 DEF WatchInv
<1> QED
  BY <1>1, <1>2, BootCounts

(* No container of the first process is left without a worker.             *)
THEOREM ContainersAreWatched == Spec => []ContainersWatched
<1>1. Init => WatchInv
  BY DEF Init, GcsInit, ExecutorInit, WatchInv, ContainersWatched
<1>2. TypeInv /\ DownInv /\ WatchInv /\ [Next]_vars => WatchInv'
  BY WatchStep
<1>3. WatchInv => ContainersWatched
  BY DEF WatchInv
<1> QED
  BY <1>1, <1>2, <1>3, TypeInvariance, DownIsStill, PTL DEF Spec

-----------------------------------------------------------------------------
(* A recorded container belongs to a stage whose row exists; recovery is   *)
(* at work on no run that it will take up again; and a request deletes the *)
(* containers, and marks the stages, of a cancelled run only.              *)
RecordedInv == \A p \in Runs, s \in Stages : sCont[p][s] => sStatus[p][s] # "absent"

OnceInv == InCall => cRun[Recovery] \notin rIds

CancelPc == {"stages", "markStage", "list", "release"}
CancelInv == \A c \in Clients : cPc[c] \in CancelPc => pStatus[cRun[c]] = "canceled"

(* What a step may do to the rows of the stages.                           *)
RowWritten ==
    \/ UNCHANGED stageRow
    \/ \E p \in Runs, s \in Stages :
           \/ InsertStage(p, s)
           \/ \E st \in Status \ {"absent"}, cont \in BOOLEAN : UpdateStage(p, s, st, cont)

LEMMA WorkerRowWritten ==
    ASSUME TypeInv, NEW w \in Workers, Worker(w)
    PROVE  RowWritten
<1>1. CASE UNCHANGED stageRow
  BY <1>1 DEF RowWritten
<1>2. ASSUME wPc[w] # "idle", NEW st \in {"running", "succeeded", "failed"},
             NEW okPc, NEW errPc, WriteStage(w, st, okPc, errPc)
      PROVE  RowWritten
  <2>1. wRun[w] \in Runs /\ wStage[w] \in Stages /\ wCont[w] \in BOOLEAN
    BY <1>2 DEF TypeInv, GoroutineInv, ExecutorTypeOK, WorkersHoldRuns
  <2> QED
    BY <1>1, <1>2, <2>1 DEF WriteStage, RowWritten, Status, Terminal, NonTerminal
<1>3. CASE MarkRunning(w) \/ Record(w) \/ SaveStage(w) \/ FailStage(w)
  BY <1>2, <1>3 DEF MarkRunning, Record, SaveStage, FailStage
<1>4. CASE Poll(w)
  BY <1>1, <1>2, <1>4 DEF Poll, storeVars, stageRow
<1>5. CASE \/ Dequeue(w) \/ Claim(w) \/ Load(w) \/ CheckStage(w) \/ RunController(w) \/ Launch(w)
           \/ Abandon(w) \/ WaitTick(w) \/ StopTask(w) \/ Release(w) \/ AfterStage(w)
           \/ Advance(w) \/ Finish(w) \/ FailRun(w)
  BY <1>1, <1>5
  DEF Dequeue, Claim, Load, CheckStage, LeaveIfCanceled, RunController, Launch, Abandon,
      WaitTick, StopTask, Release, AfterStage, Advance, Finish, WriteRun, WriteRunFails,
      FailRun, FailPipeline, storeVars, stageRow
<1> QED
  BY <1>3, <1>4, <1>5 DEF Worker

LEMMA MarkRowWritten ==
    ASSUME TypeInv, NEW c \in Callers, NEW st \in {"canceled", "failed"}, NEW after,
           MarkStage(c, st, after)
    PROVE  RowWritten
<1>1. cRun[c] \in Runs
  BY DEF MarkStage, TypeInv, GoroutineInv, CallersHoldRuns
<1>2. \A copy \in cTodo[c] : copy[1] \in Stages /\ copy[2] \in BOOLEAN
  BY DEF TypeInv, GoroutineInv, ExecutorTypeOK, StageCopies
<1> QED
  BY <1>1, <1>2 DEF MarkStage, RowWritten, Status, Terminal

LEMMA NextRowWritten ==
    ASSUME TypeInv, [Next]_vars
    PROVE  RowWritten
<1>0. Recovery \in Callers /\ \A c \in Clients : c \in Callers
  BY DEF Callers
<1>1. CASE UNCHANGED stageRow
  BY <1>1 DEF RowWritten
<1>2. CASE Boot \/ Crash \/ Exit \/ Shutdown \/ ContainerEnds \/ UNCHANGED vars
  BY <1>1, <1>2
  DEF Boot, Crash, Exit, Die, Shutdown, ContainerEnds, vars, storeVars, stageRow
<1>3. CASE Recover
  <2>1. CASE RecoverMarkStage
    BY <1>0, <2>1, MarkRowWritten DEF RecoverMarkStage
  <2>2. CASE ~RecoverMarkStage
    BY <1>1, <1>3, <2>2
    DEF Recover, RecoverCollect, RecoverNext, SubmitPipeline, RecoverSubmitAborts,
        ListContainers, ReleaseContainers, RecoverStages, RecoverFailRun, FailPipeline,
        storeVars, stageRow
  <2> QED
    BY <2>1, <2>2
<1>4. ASSUME NEW c \in Clients, Client(c)
      PROVE  RowWritten
  <2>1. CASE CancelMarkStage(c)
    BY <1>0, <2>1, MarkRowWritten DEF CancelMarkStage
  <2>2. CASE ~CancelMarkStage(c)
    BY <1>1, <1>4, <2>2
    DEF Client, StartPipeline, CancelPipeline, CancelListStages, HangUp, SubmitPipeline,
        ListContainers, ReleaseContainers, storeVars, stageRow
  <2> QED
    BY <2>1, <2>2
<1>5. ASSUME NEW q \in Runs, Create(q)
      PROVE  RowWritten
  BY <1>1, <1>5 DEF Create, CreateRun, CreateStage, CreateFails, RowWritten
<1> QED
  BY <1>2, <1>3, <1>4, <1>5, WorkerRowWritten DEF Next

LEMMA RecordedStep ==
    ASSUME TypeInv, RecordedInv, [Next]_vars
    PROVE  RecordedInv'
<1>1. CASE UNCHANGED stageRow
  BY <1>1 DEF RecordedInv, stageRow
<1>2. ASSUME NEW p \in Runs, NEW s \in Stages, InsertStage(p, s)
      PROVE  RecordedInv'
  BY <1>2 DEF InsertStage, RecordedInv, TypeInv, StoreTypeOK
<1>3. ASSUME NEW p \in Runs, NEW s \in Stages, NEW st \in Status \ {"absent"},
             NEW cont \in BOOLEAN, UpdateStage(p, s, st, cont)
      PROVE  RecordedInv'
  BY <1>3 DEF UpdateStage, RecordedInv, TypeInv, StoreTypeOK
<1> QED
  BY <1>1, <1>2, <1>3, NextRowWritten DEF RowWritten

(* Nobody else moves recovery.                                             *)
LEMMA ClientLeavesRecovery ==
    ASSUME TypeInv, NEW c \in Clients, Client(c)
    PROVE  /\ cPc'[Recovery] = cPc[Recovery] /\ cRun'[Recovery] = cRun[Recovery]
           /\ cTodo'[Recovery] = cTodo[Recovery] /\ UNCHANGED <<phase, workerVars, rIds>>
<1>1. Recovery \in Callers \ {c}
  BY ExecutorAssumption DEF Callers
<1>2. UNCHANGED <<phase, workerVars, rIds>>
  BY
  DEF Client, StartPipeline, CancelPipeline, CancelListStages, CancelMarkStage, MarkStage,
      HangUp, SubmitPipeline, ListContainers, ReleaseContainers, procVars
<1> QED
  BY <1>1, <1>2, ClientAlone DEF CallersKept

(* What recovery does with the run it holds, and with those it has yet to  *)
(* take up.                                                                *)
LEMMA RecoveryTakes ==
    ASSUME TypeInv, Recover, InCall'
    PROVE  \/ InCall /\ cRun'[Recovery] = cRun[Recovery] /\ UNCHANGED rIds
           \/ cRun'[Recovery] \in rIds /\ rIds' = rIds \ {cRun'[Recovery]}
<1>0. Recovery \in Callers
  BY DEF Callers
<1>1. CASE RecoverCollect \/ SubmitPipeline(Recovery) \/ RecoverSubmitAborts \/ RecoverFailRun
  <2>1. cPc'[Recovery] \in {"next", "idle"}
    BY <1>0, <1>1, CallEffect
    DEF RecoverCollect, SubmitPipeline, RecoverSubmitAborts, RecoverFailRun
  <2> QED
    BY <2>1 DEF InCall, FailPc
<1>2. CASE RecoverNext
  <2>1. cPc[Recovery] = "next"
    BY <1>2 DEF RecoverNext
  <2>2. CASE cPc' = [cPc EXCEPT ![Recovery] = "idle"] \/ UNCHANGED cPc
    BY <1>0, <2>1, <2>2 DEF InCall, FailPc, TypeInv, GoroutineInv, ExecutorTypeOK
  <2>3. ASSUME NEW p \in rIds, rIds' = rIds \ {p},
               cPc' = [cPc EXCEPT ![Recovery] = StepFor(p)],
               cRun' = [cRun EXCEPT ![Recovery] = IF StepFor(p) = "next" THEN NoRun ELSE p]
        PROVE  cRun'[Recovery] = p
    BY <1>0, <2>3 DEF InCall, FailPc, TypeInv, GoroutineInv, ExecutorTypeOK
  <2> QED
    BY <1>2, <2>2, <2>3 DEF RecoverNext
<1>3. CASE \/ ListContainers(Recovery) \/ ReleaseContainers(Recovery) \/ RecoverStages
           \/ RecoverMarkStage
  BY <1>0, <1>3
  DEF ListContainers, ReleaseContainers, RecoverStages, ListRunning, RecoverMarkStage,
      MarkStage, CallLoop, AfterCancel, CallGo, InCall, FailPc
<1> QED
  BY <1>1, <1>2, <1>3 DEF Recover

LEMMA OnceStep ==
    ASSUME TypeInv, DownInv, OnceInv, [Next]_vars
    PROVE  OnceInv'
<1>0. Recovery \in Callers
  BY DEF Callers
<1>1. CASE Boot \/ Crash \/ Exit
  <2>1. ~InCall'
    BY <1>0, <1>1
    DEF Boot, Crash, Exit, Die, LoseMemory, InCall, FailPc, TypeInv, GoroutineInv,
        ExecutorTypeOK
  <2> QED
    BY <2>1 DEF OnceInv
<1>2. CASE UNCHANGED <<callVars, rIds>>
  BY <1>2 DEF OnceInv, InCall, callVars
<1>3. CASE Recover
  BY <1>3, RecoveryTakes DEF OnceInv
<1>4. ASSUME NEW c \in Clients, Client(c)
      PROVE  OnceInv'
  BY <1>4, ClientLeavesRecovery DEF OnceInv, InCall
<1>5. CASE Shutdown \/ ContainerEnds \/ UNCHANGED vars
  BY <1>2, <1>5 DEF Shutdown, ContainerEnds, vars, executorVars
<1>6. ASSUME NEW q \in Runs, Create(q)
      PROVE  OnceInv'
  BY <1>2, <1>6 DEF Create, CreateRun, CreateStage, CreateFails
<1> QED
  BY <1>1, <1>2, <1>3, <1>4, <1>5, <1>6, WorkerAlone DEF Next

(* A request that goes on with a cancellation is about a cancelled run.    *)
LEMMA CancelGoes ==
    ASSUME TypeInv, NEW c \in Clients, Client(c), cPc'[c] \in CancelPc
    PROVE  \/ cPc[c] \in CancelPc /\ cRun'[c] = cRun[c]
           \/ pStatus'[cRun'[c]] = "canceled"
<1>0. c \in Callers /\ c # Recovery
  BY ExecutorAssumption DEF Callers
<1>1. ASSUME NEW p \in Runs, StartPipeline(c, p)
      PROVE  FALSE
  BY <1>0, <1>1
  DEF StartPipeline, CallBegin, callVars, CancelPc, TypeInv, GoroutineInv, ExecutorTypeOK
<1>2. ASSUME NEW p \in Runs, CancelPipeline(c, p)
      PROVE  pStatus'[cRun'[c]] = "canceled"
  <2>1. cPc[c] = "idle" /\ pStatus'[p] = "canceled"
    BY <1>2 DEF CancelPipeline, UpdateStatus, TypeInv, StoreTypeOK
  <2>2. cRun'[c] = p
    BY <1>0, <1>2, <2>1, CallEffect DEF CancelPipeline, callVars, CancelPc
  <2> QED
    BY <2>1, <2>2
<1>3. CASE HangUp(c) \/ SubmitPipeline(c)
  BY <1>0, <1>3, CallEffect DEF HangUp, SubmitPipeline, CancelPc
<1>4. CASE CancelListStages(c) \/ CancelMarkStage(c) \/ ListContainers(c) \/ ReleaseContainers(c)
  <2>1. /\ cPc[c] \in CancelPc
        /\ (\E pc, todo : CallGo(c, pc, todo)) \/ CallReturn(c)
    BY <1>0, <1>4
    DEF CancelListStages, ListRunning, CancelMarkStage, MarkStage, ListContainers,
        ReleaseContainers, CallLoop, AfterCancel, CancelPc
  <2> QED
    BY <1>0, <2>1, CallEffect DEF CancelPc
<1> QED
  BY <1>1, <1>2, <1>3, <1>4 DEF Client

LEMMA CancelStep ==
    ASSUME TypeInv, SafeInv, CancelInv, [Next]_vars
    PROVE  CancelInv'
<1> SUFFICES ASSUME NEW c \in Clients, cPc'[c] \in CancelPc
             PROVE  pStatus'[cRun'[c]] = "canceled"
  BY DEF CancelInv
<1>0. c \in Callers /\ c # Recovery /\ Recovery \in Callers
  BY ExecutorAssumption DEF Callers
<1>1. CASE cPc[c] \in CancelPc /\ cRun'[c] = cRun[c]
  <2>1. cRun[c] \in Runs /\ pStatus[cRun[c]] = "canceled"
    BY <1>0, <1>1 DEF CancelInv, CancelPc, TypeInv, GoroutineInv, CallersHoldRuns
  <2> QED
    BY <1>1, <2>1, EndsKept DEF FinalKept, Terminal
<1>2. CASE Crash \/ Exit
  BY <1>0, <1>2 DEF Crash, Exit, Die, LoseMemory, CancelPc
<1>3. CASE cPc'[c] = cPc[c] /\ cRun'[c] = cRun[c]
  BY <1>1, <1>3
<1>4. CASE Boot \/ Shutdown \/ ContainerEnds \/ UNCHANGED vars
  BY <1>0, <1>3, <1>4
  DEF Boot, Shutdown, ContainerEnds, vars, executorVars, callVars, TypeInv, GoroutineInv,
      ExecutorTypeOK
<1>5. CASE Recover
  BY <1>0, <1>3, <1>5, RecoveryAlone DEF CallersKept
<1>6. ASSUME NEW d \in Clients, Client(d)
      PROVE  pStatus'[cRun'[c]] = "canceled"
  <2>1. CASE d = c
    BY <1>1, <1>6, <2>1, CancelGoes
  <2>2. CASE d # c
    BY <1>0, <1>3, <1>6, <2>2, ClientAlone DEF CallersKept
  <2> QED
    BY <2>1, <2>2
<1>7. ASSUME NEW w \in Workers, Worker(w)
      PROVE  pStatus'[cRun'[c]] = "canceled"
  BY <1>3, <1>7, WorkerAlone DEF callVars
<1>8. ASSUME NEW q \in Runs, Create(q)
      PROVE  pStatus'[cRun'[c]] = "canceled"
  BY <1>3, <1>8 DEF Create, CreateRun, CreateStage, CreateFails, callVars
<1> QED
  BY <1>2, <1>4, <1>5, <1>6, <1>7, <1>8 DEF Next

(* The three hold together.                                                *)
CollectInv == RecordedInv /\ OnceInv /\ CancelInv

LEMMA CollectInvariance == Spec => []CollectInv
<1>1. Init => CollectInv
  BY DEF Init, StoreInit, ExecutorInit, CollectInv, RecordedInv, OnceInv, CancelInv, InCall,
         FailPc, CancelPc, Callers
<1>2. TypeInv /\ SafeInv /\ DownInv /\ CollectInv /\ [Next]_vars => CollectInv'
  BY RecordedStep, OnceStep, CancelStep DEF CollectInv
<1> QED
  BY <1>1, <1>2, TypeInvariance, SafetyInvariance, DownIsStill, PTL DEF Spec

(* A step that leaves recovery alone, and with it the rows of the run and  *)
(* the workers' having nothing to do with it.                              *)
LEMMA ElsewhereCollects ==
    ASSUME NEW p \in Runs, NEW s \in Stages, LeftToRecovery(p, s),
           cPc'[Recovery] = cPc[Recovery], cRun'[Recovery] = cRun[Recovery],
           cTodo'[Recovery] = cTodo[Recovery], UNCHANGED rIds,
           pStatus[p] = "running" /\ sCont[p][s] /\ (\A w \in Workers : ~Executing(w, p)) =>
               /\ pStatus'[p] = "running" /\ sCont'[p][s]
               /\ \A w \in Workers : ~Executing(w, p)'
    PROVE  LeftToRecovery(p, s)'
<1>1. CASE cRun[Recovery] = p /\ cPc[Recovery] = "release" /\ <<s, TRUE>> \in cTodo[Recovery]
  BY <1>1 DEF LeftToRecovery
<1>2. CASE ~(cRun[Recovery] = p /\ cPc[Recovery] = "release" /\ <<s, TRUE>> \in cTodo[Recovery])
  <2>1. /\ pStatus[p] = "running" /\ sCont[p][s] /\ \A w \in Workers : ~Executing(w, p)
        /\ Collected(p) \/ (cRun[Recovery] = p /\ cPc[Recovery] = "list")
    BY <1>2 DEF LeftToRecovery
  <2>2. Collected(p) => Collected(p)'
    BY DEF Collected
  <2> QED
    BY <2>1, <2>2 DEF LeftToRecovery
<1> QED
  BY <1>1, <1>2

(* A stage's row is written by whoever has its run in hand.                *)
LEMMA OtherRowsKept ==
    ASSUME TypeInv, NEW q \in Runs, NEW k \in Stages, NEW st, NEW cont,
           UpdateStage(q, k, st, cont) \/ UNCHANGED stageRow, NEW p \in Runs, p # q
    PROVE  sCont'[p] = sCont[p]
  BY DEF UpdateStage, stageRow, TypeInv, StoreTypeOK

(* A worker does nothing to a running run that it does not execute.        *)
LEMMA WorkerSparesRow ==
    ASSUME TypeInv, NEW w \in Workers, Worker(w), NEW p \in Runs, pStatus[p] = "running",
           ~Executing(w, p)
    PROVE  pStatus'[p] = "running" /\ sCont'[p] = sCont[p] /\ ~Executing(w, p)'
<1>0. wPc[w] # "idle" => wRun[w] \in Runs /\ wStage[w] \in Stages
  BY DEF TypeInv, GoroutineInv, ExecutorTypeOK, WorkersHoldRuns
<1>1. CASE Dequeue(w)
  BY <1>1, PcClasses
  DEF Dequeue, storeVars, Executing, TypeInv, GoroutineInv, ExecutorTypeOK
<1>2. CASE Claim(w)
  <2>1. wPc[w] = "claim" /\ UNCHANGED stageRow
    BY <1>2 DEF Claim
  <2>2. CASE Transition(wRun[w], "scheduled", "running")
    <3>1. wRun[w] # p /\ pStatus'[p] = pStatus[p]
      BY <1>0, <2>1, <2>2 DEF Transition, TypeInv, StoreTypeOK
    <3>2. WorkerGo(w, "load") \/ WorkerDone(w)
      BY <1>2 DEF Claim
    <3> QED
      BY <2>1, <3>1, <3>2, GoEffect, DoneEffect, PcClasses DEF Executing, stageRow
  <2>3. CASE UNCHANGED runRow /\ WorkerDone(w)
    BY <2>1, <2>3, DoneEffect, PcClasses DEF Executing, runRow, stageRow
  <2> QED
    BY <1>2, <2>2, <2>3 DEF Claim
<1>3. CASE wPc[w] \in ExecutePc
  <2>1. wRun[w] \in Runs \ {p} /\ wStage[w] \in Stages
    BY <1>0, <1>3, PcClasses DEF Executing
  <2>2. wRun'[w] = wRun[w] \/ wPc'[w] = "idle"
    BY <1>3, PcClasses
    DEF Worker, Dequeue, Claim, Load, CheckStage, LeaveIfCanceled, MarkRunning, RunController,
        Launch, Record, Abandon, WaitTick, Poll, StopTask, Release, AfterStage, SaveStage,
        Advance, Finish, WriteStage, WriteRunFails, FailStage, FailRun, WorkerGo, WorkerDone,
        TypeInv, GoroutineInv, ExecutorTypeOK
  <2>3. pStatus'[p] = pStatus[p]
    <3>1. \/ UNCHANGED pStatus
          \/ \E st, k : UpdateRun(wRun[w], st, k) \/ UpdateStatus(wRun[w], st)
      BY <1>3, PcClasses
      DEF Worker, Dequeue, Claim, Load, CheckStage, LeaveIfCanceled, MarkRunning,
          RunController, Launch, Record, Abandon, WaitTick, Poll, StopTask, Release, AfterStage,
          SaveStage, Advance, Finish, WriteStage, WriteRun, WriteRunFails, FailStage, FailRun,
          FailPipeline, storeVars, runRow
    <3> QED
      BY <2>1, <3>1 DEF UpdateRun, UpdateStatus, TypeInv, StoreTypeOK
  <2>4. sCont'[p] = sCont[p]
    <3>1. \/ UNCHANGED stageRow
          \/ \E st : UpdateStage(wRun[w], wStage[w], st, wCont[w])
      BY <1>3, PcClasses
      DEF Worker, Dequeue, Claim, Load, CheckStage, LeaveIfCanceled, MarkRunning,
          RunController, Launch, Record, Abandon, WaitTick, Poll, StopTask, Release, AfterStage,
          SaveStage, Advance, Finish, WriteStage, WriteRun, WriteRunFails, FailStage, FailRun,
          FailPipeline, storeVars, stageRow
    <3> QED
      BY <2>1, <3>1, OtherRowsKept
  <2> QED
    BY <2>1, <2>2, <2>3, <2>4, PcClasses DEF Executing
<1>4. wPc[w] \in {"idle", "claim"} \cup ExecutePc
  BY DEF TypeInv, GoroutineInv, ExecutorTypeOK, WorkerPc
<1>5. wPc[w] = "idle" => Dequeue(w)
  BY
  DEF Worker, Claim, Load, CheckStage, MarkRunning, RunController, Launch, Record, Abandon,
      WaitTick, Poll, StopTask, Release, AfterStage, SaveStage, Advance, Finish, FailStage,
      FailRun
<1>6. wPc[w] = "claim" => Claim(w)
  BY
  DEF Worker, Dequeue, Load, CheckStage, MarkRunning, RunController, Launch, Record, Abandon,
      WaitTick, Poll, StopTask, Release, AfterStage, SaveStage, Advance, Finish, FailStage,
      FailRun
<1> QED
  BY <1>1, <1>2, <1>3, <1>4, <1>5, <1>6

LEMMA WorkerCollects ==
    ASSUME TypeInv, NEW w \in Workers, Worker(w), NEW p \in Runs, NEW s \in Stages,
           LeftToRecovery(p, s)
    PROVE  LeftToRecovery(p, s)'
<1>1. UNCHANGED <<callVars, rIds>> /\ \A v \in Workers \ {w} : LocalsKept(v)
  BY WorkerAlone
<1>2. ASSUME pStatus[p] = "running", sCont[p][s], \A v \in Workers : ~Executing(v, p)
      PROVE  /\ pStatus'[p] = "running" /\ sCont'[p][s]
             /\ \A v \in Workers : ~Executing(v, p)'
  <2>1. \A v \in Workers \ {w} : ~Executing(v, p)'
    BY <1>1, <1>2 DEF LocalsKept, Executing
  <2> QED
    BY <1>2, <2>1, WorkerSparesRow
<1> QED
  BY <1>1, <1>2, ElsewhereCollects DEF callVars

(* A request does not touch a running run, but to cancel it.               *)
LEMMA ClientSparesRow ==
    ASSUME TypeInv, CollectInv, NEW c \in Clients, Client(c), NEW p \in Runs,
           pStatus[p] = "running", pStatus'[p] # "canceled"
    PROVE  pStatus'[p] = "running" /\ sCont'[p] = sCont[p]
<1>0. c \in Callers
  BY DEF Callers
<1>1. ASSUME NEW q \in Runs, StartPipeline(c, q)
      PROVE  pStatus'[p] = "running" /\ UNCHANGED stageRow
  BY <1>1 DEF StartPipeline, Transition, TypeInv, StoreTypeOK
<1>2. ASSUME NEW q \in Runs, CancelPipeline(c, q)
      PROVE  pStatus'[p] = "running" /\ UNCHANGED stageRow
  BY <1>2 DEF CancelPipeline, UpdateStatus, TypeInv, StoreTypeOK
<1>3. CASE CancelMarkStage(c)
  <2>1. cPc[c] = "markStage" /\ UNCHANGED runRow
    BY <1>3 DEF CancelMarkStage, MarkStage
  <2>2. cRun[c] \in Runs \ {p}
    BY <1>0, <2>1
    DEF CollectInv, CancelInv, CancelPc, TypeInv, GoroutineInv, CallersHoldRuns
  <2>3. \E copy \in cTodo[c] :
            UpdateStage(cRun[c], copy[1], "canceled", copy[2]) \/ UNCHANGED stageRow
    BY <1>3 DEF CancelMarkStage, MarkStage
  <2>4. \A copy \in cTodo[c] : copy[1] \in Stages
    BY <1>0 DEF TypeInv, GoroutineInv, ExecutorTypeOK, StageCopies
  <2> QED
    BY <2>1, <2>2, <2>3, <2>4, OtherRowsKept DEF runRow
<1>4. CASE \/ CancelListStages(c) \/ HangUp(c) \/ SubmitPipeline(c) \/ ListContainers(c)
           \/ ReleaseContainers(c)
  BY <1>4
  DEF CancelListStages, HangUp, SubmitPipeline, ListContainers, ReleaseContainers, runRow,
      stageRow, storeVars
<1> QED
  BY <1>1, <1>2, <1>3, <1>4 DEF Client, stageRow

LEMMA ClientCollects ==
    ASSUME TypeInv, CollectInv, NEW c \in Clients, Client(c), NEW p \in Runs, NEW s \in Stages,
           LeftToRecovery(p, s), pStatus'[p] = "canceled" => pStatus[p] = "canceled"
    PROVE  LeftToRecovery(p, s)'
<1>1. pStatus[p] = "running" => pStatus'[p] = "running" /\ sCont'[p] = sCont[p]
  BY ClientSparesRow
<1>2. (\A w \in Workers : ~Executing(w, p)) => \A w \in Workers : ~Executing(w, p)'
  BY ClientLeavesRecovery DEF Executing, workerVars
<1> QED
  BY <1>1, <1>2, ClientLeavesRecovery, ElsewhereCollects

(* Recovery writes no row of a running run whose containers it has yet to  *)
(* delete.                                                                 *)
LEMMA RecoverySparesRow ==
    ASSUME TypeInv, CollectInv, Recover, NEW p \in Runs, NEW s \in Stages,
           LeftToRecovery(p, s)
    PROVE  pStatus'[p] = pStatus[p] /\ sCont'[p] = sCont[p]
<1>0. Recovery \in Callers
  BY DEF Callers
<1>1. CASE RecoverMarkStage \/ RecoverFailRun
  <2>1. cPc[Recovery] \in {"markStage", "failRun"}
    BY <1>1 DEF RecoverMarkStage, MarkStage, RecoverFailRun
  <2>2. cRun[Recovery] \in Runs \ {p}
    BY <1>0, <2>1
    DEF LeftToRecovery, Collected, CollectInv, OnceInv, InCall, FailPc, TypeInv, GoroutineInv,
        CallersHoldRuns
  <2>3. CASE RecoverMarkStage
    <3>1. /\ UNCHANGED runRow
          /\ \E copy \in cTodo[Recovery] :
                 UpdateStage(cRun[Recovery], copy[1], "failed", copy[2]) \/ UNCHANGED stageRow
      BY <2>3 DEF RecoverMarkStage, MarkStage
    <3>2. \A copy \in cTodo[Recovery] : copy[1] \in Stages
      BY <1>0 DEF TypeInv, GoroutineInv, ExecutorTypeOK, StageCopies
    <3> QED
      BY <2>2, <3>1, <3>2, OtherRowsKept DEF runRow
  <2>4. CASE RecoverFailRun
    <3>1. UNCHANGED stageRow /\ (UpdateStatus(cRun[Recovery], "failed") \/ UNCHANGED runRow)
      BY <2>4 DEF RecoverFailRun, FailPipeline
    <3> QED
      BY <2>2, <3>1 DEF UpdateStatus, runRow, stageRow, TypeInv, StoreTypeOK
  <2> QED
    BY <1>1, <2>3, <2>4
<1>2. CASE ~RecoverMarkStage /\ ~RecoverFailRun
  BY <1>2
  DEF Recover, RecoverCollect, RecoverNext, SubmitPipeline, RecoverSubmitAborts,
      ListContainers, ReleaseContainers, RecoverStages, storeVars, runRow, stageRow
<1> QED
  BY <1>1, <1>2

(* Recovery lists the containers of the run it fails, and deletes each     *)
(* that is recorded.                                                       *)
LEMMA RecoveryCollects ==
    ASSUME TypeInv, CollectInv, Recover, phase = "up", NothingFails,
           NEW p \in Runs, NEW s \in Stages, LeftToRecovery(p, s), task'[p][s] = "active"
    PROVE  LeftToRecovery(p, s)'
<1>0. Recovery \in Callers /\ UNCHANGED workerVars /\ ~CallDbFails(Recovery)
  <2>1. UNCHANGED workerVars
    BY
    DEF Recover, RecoverCollect, RecoverNext, SubmitPipeline, RecoverSubmitAborts,
        ListContainers, ReleaseContainers, RecoverStages, RecoverMarkStage, MarkStage,
        RecoverFailRun
  <2> QED
    BY <2>1, NoFailure DEF Callers, NothingFails
<1> DEFINE Free == pStatus[p] = "running" /\ sCont[p][s] /\ \A w \in Workers : ~Executing(w, p)
<1>1. (\A w \in Workers : ~Executing(w, p)) => \A w \in Workers : ~Executing(w, p)'
  BY <1>0 DEF Executing, workerVars
<1>2. Free => Free'
  BY <1>1, RecoverySparesRow
<1>3. Free' /\ Collected(p)' => LeftToRecovery(p, s)'
  BY DEF LeftToRecovery
<1>4. cPc[Recovery] \notin {"list", "release"} => Free /\ Collected(p)
  BY DEF LeftToRecovery
<1>5. cPc[Recovery] # "collect" /\ Collected(p) /\ UNCHANGED rIds => Collected(p)'
  BY DEF Collected
<1> HIDE DEF Free
<1>6. CASE RecoverCollect
  <2>1. cPc[Recovery] = "collect"
    BY <1>6 DEF RecoverCollect
  <2>2. rIds' = {q \in Runs : Recoverable(q)}
    BY <1>0, <1>6 DEF RecoverCollect
  <2>3. Free /\ Free'
    BY <1>2, <1>4, <2>1
  <2>4. Collected(p)'
    BY <2>2, <2>3 DEF Free, Recoverable, Collected
  <2> QED
    BY <1>3, <2>3, <2>4
<1>7. CASE RecoverNext
  <2>1. cPc[Recovery] = "next"
    BY <1>7 DEF RecoverNext
  <2>2. Free /\ Free' /\ p \in rIds
    BY <1>2, <1>4, <2>1 DEF Collected
  <2>3. PICK q \in rIds :
            /\ rIds' = rIds \ {q}
            /\ cPc' = [cPc EXCEPT ![Recovery] = StepFor(q)]
            /\ cRun' = [cRun EXCEPT ![Recovery] = IF StepFor(q) = "next" THEN NoRun ELSE q]
    BY <1>0, <1>7, <2>2 DEF RecoverNext
  <2>4. CASE q = p
    <3>1. StepFor(p) = "list"
      BY <2>2 DEF StepFor, Free
    <3>2. cPc'[Recovery] = "list" /\ cRun'[Recovery] = p
      BY <1>0, <2>3, <2>4, <3>1 DEF TypeInv, GoroutineInv, ExecutorTypeOK
    <3> QED
      BY <2>2, <3>2 DEF Free, LeftToRecovery
  <2>5. CASE q # p
    BY <1>3, <2>2, <2>3, <2>5 DEF Collected
  <2> QED
    BY <2>4, <2>5
<1>8. CASE SubmitPipeline(Recovery) \/ RecoverSubmitAborts \/ RecoverStages
  <2>1. cPc[Recovery] \in {"submit", "stages"} /\ UNCHANGED rIds
    BY <1>8 DEF SubmitPipeline, RecoverSubmitAborts, RecoverStages
  <2> QED
    BY <1>2, <1>3, <1>4, <1>5, <2>1
<1>9. CASE ListContainers(Recovery)
  <2>1. /\ cPc[Recovery] = "list" /\ UNCHANGED rIds
        /\ CallLoop(Recovery, "release", RecordedStages(cRun[Recovery]), AfterCancel(Recovery))
    BY <1>0, <1>9 DEF ListContainers
  <2>2. Free /\ Free' /\ (Collected(p) \/ cRun[Recovery] = p)
    BY <1>2, <2>1 DEF LeftToRecovery, Free
  <2>3. CASE Collected(p)
    BY <1>3, <1>5, <2>1, <2>2, <2>3
  <2>4. CASE cRun[Recovery] = p
    <3>1. <<s, TRUE>> \in RecordedStages(p)
      <4>1. sStatus[p][s] # "absent" /\ sCont[p][s] = TRUE
        BY <2>2 DEF CollectInv, RecordedInv, Free, TypeInv, StoreTypeOK
      <4>2. <<s, sCont[p][s]>> \in StageList(p)
        BY <4>1 DEF StageList
      <4> QED
        BY <4>1, <4>2 DEF RecordedStages
    <3>2. CallGo(Recovery, "release", RecordedStages(p))
      BY <2>1, <2>4, <3>1 DEF CallLoop
    <3>3. /\ cPc'[Recovery] = "release" /\ cRun'[Recovery] = p
          /\ cTodo'[Recovery] = RecordedStages(p)
      BY <1>0, <2>4, <3>2, CallEffect
    <3> QED
      BY <3>1, <3>3 DEF LeftToRecovery
  <2> QED
    BY <2>2, <2>3, <2>4
<1>10. CASE ReleaseContainers(Recovery)
  <2>1. /\ cPc[Recovery] = "release" /\ UNCHANGED rIds
        /\ cRun[Recovery] \in Runs
    BY <1>0, <1>10
    DEF ReleaseContainers, TypeInv, GoroutineInv, CallersHoldRuns
  <2>2. CASE Free /\ Collected(p)
    BY <1>2, <1>3, <1>5, <2>1, <2>2
  <2>3. CASE cRun[Recovery] = p /\ <<s, TRUE>> \in cTodo[Recovery]
    <3>1. PICK copy \in cTodo[Recovery] :
              /\ DeleteTask(p, copy[1])
              /\ CallLoop(Recovery, "release", cTodo[Recovery] \ {copy}, AfterCancel(Recovery))
      BY <1>10, <2>3 DEF ReleaseContainers
    <3>2. copy[1] \in Stages
      BY <1>0 DEF TypeInv, GoroutineInv, ExecutorTypeOK, StageCopies
    <3>3. copy # <<s, TRUE>>
      <4>1. s # copy[1]
        BY <3>1, <3>2, TaskDeleted DEF NothingFails
      <4>2. <<s, TRUE>>[1] = s
        OBVIOUS
      <4> QED
        BY <4>1, <4>2, Zenon
    <3>4. CallGo(Recovery, "release", cTodo[Recovery] \ {copy})
      BY <2>3, <3>1, <3>3 DEF CallLoop
    <3>5. /\ cPc'[Recovery] = "release" /\ cRun'[Recovery] = p
          /\ cTodo'[Recovery] = cTodo[Recovery] \ {copy}
      BY <1>0, <2>3, <3>4, CallEffect
    <3> QED
      BY <2>3, <3>3, <3>5 DEF LeftToRecovery
  <2> QED
    BY <2>1, <2>2, <2>3 DEF LeftToRecovery, Free
<1>11. CASE RecoverMarkStage \/ RecoverFailRun
  <2>1. cPc[Recovery] \in {"markStage", "failRun"} /\ UNCHANGED rIds
    BY <1>11 DEF RecoverMarkStage, MarkStage, RecoverFailRun
  <2>2. Free /\ Collected(p) /\ Collected(p)'
    BY <1>4, <1>5, <2>1
  <2> QED
    BY <1>2, <1>3, <2>2
<1> QED
  BY <1>6, <1>7, <1>8, <1>9, <1>10, <1>11 DEF Recover

(* Every step of a process; and the one that starts it.                    *)
LEMMA CollectStep ==
    ASSUME TypeInv, DownInv, CollectInv, [Next]_vars, phase' = "up", NothingFails,
           NEW p \in Runs, NEW s \in Stages, task'[p][s] = "active",
           IF phase = "up"
           THEN LeftToRecovery(p, s) /\ (pStatus'[p] = "canceled" => pStatus[p] = "canceled")
           ELSE pStatus[p] = "running" /\ sCont[p][s]
    PROVE  LeftToRecovery(p, s)'
<1>1. CASE Boot
  <2>1. /\ phase = "down" /\ cPc'[Recovery] = "collect"
        /\ UNCHANGED <<pStatus, sCont, wPc, wRun>>
    BY <1>1
    DEF Boot, storeVars, workerVars, Callers, TypeInv, GoroutineInv, ExecutorTypeOK
  <2>2. \A w \in Workers : ~Executing(w, p)'
    BY <2>1, PcClasses DEF DownInv, Still, Executing
  <2> QED
    BY <2>1, <2>2 DEF LeftToRecovery, Collected
<1>2. CASE ~Boot
  <2>1. phase = "up"
    <3>1. CASE Crash \/ Exit \/ Shutdown
      BY <3>1 DEF Crash, Exit, Shutdown, Die, LoseMemory
    <3>2. ASSUME NEW w \in Workers, Worker(w)
          PROVE  phase' = phase
      BY <3>2, WorkerAlone DEF procVars
    <3>3. CASE Recover
      BY <3>3
      DEF Recover, RecoverCollect, RecoverNext, SubmitPipeline, RecoverSubmitAborts,
          ListContainers, ReleaseContainers, RecoverStages, RecoverMarkStage, MarkStage,
          RecoverFailRun, procVars
    <3>4. ASSUME NEW c \in Clients, Client(c)
          PROVE  phase' = phase
      BY <3>4, ClientLeavesRecovery
    <3>5. ASSUME NEW q \in Runs, Create(q)
          PROVE  phase' = phase
      BY <3>5 DEF Create, CreateRun, CreateStage, CreateFails
    <3>6. CASE ContainerEnds \/ UNCHANGED vars
      BY <3>6 DEF ContainerEnds, vars, executorVars, procVars
    <3> QED
      BY <1>2, <3>1, <3>2, <3>3, <3>4, <3>5, <3>6 DEF Next
  <2>2. LeftToRecovery(p, s) /\ (pStatus'[p] = "canceled" => pStatus[p] = "canceled")
    BY <2>1
  <2>3. CASE Crash \/ Exit \/ Shutdown
    BY <2>3 DEF Crash, Exit, Shutdown, Die, LoseMemory
  <2>4. ASSUME NEW q \in Runs, Create(q)
        PROVE  LeftToRecovery(p, s)'
    <3>1. UNCHANGED <<workerVars, callVars, rIds, sCont>>
      BY <2>4 DEF Create, CreateRun, CreateStage, InsertStage, CreateFails, stageRow
    <3>2. pStatus[p] = "running" => pStatus'[p] = "running"
      BY <2>4
      DEF Create, CreateRun, InsertRun, CreateStage, CreateFails, runRow, TypeInv, StoreTypeOK
    <3> QED
      BY <2>2, <3>1, <3>2, ElsewhereCollects DEF Executing, workerVars, callVars
  <2>5. CASE ContainerEnds \/ UNCHANGED vars
    <3>1. UNCHANGED <<pStatus, sCont, workerVars, callVars, rIds>>
      BY <2>5 DEF ContainerEnds, vars, storeVars, executorVars
    <3> QED
      BY <2>2, <3>1, ElsewhereCollects DEF Executing, workerVars, callVars
  <2> QED
    BY <1>2, <2>1, <2>2, <2>3, <2>4, <2>5, WorkerCollects, ClientCollects, RecoveryCollects
    DEF Next
<1> QED
  BY <1>1, <1>2

(* A new process takes up every recorded container of an interrupted run,  *)
(* and loses none before it is deleted.                                    *)
THEOREM RecordedContainersAreCollected == Spec => ContainersCollected
<1>1. TypeInv /\ DownInv /\ CollectInv /\ [Next]_vars =>
          [ \A p \in Runs, s \in Stages :
                /\ phase' = "up" /\ NothingFails /\ task'[p][s] = "active"
                /\ IF phase = "up"
                   THEN LeftToRecovery(p, s) /\ (pStatus'[p] = "canceled" => pStatus[p] = "canceled")
                   ELSE pStatus[p] = "running" /\ sCont[p][s]
                => LeftToRecovery(p, s)' ]_vars
  BY CollectStep
<1> QED
  BY <1>1, TypeInvariance, DownIsStill, CollectInvariance, PTL DEF Spec, ContainersCollected

-----------------------------------------------------------------------------
(* No step takes a container back to the time before its creation, or      *)
(* starts it again.                                                        *)
LEMMA TaskSticks ==
    ASSUME TypeInv, [Next]_vars, NEW p \in Runs, NEW s \in Stages, task[p][s] # "none"
    PROVE  task'[p][s] # "none" /\ (task'[p][s] = "active" => task[p][s] = "active")
<1>1. ASSUME NEW q \in Runs, NEW t \in Stages, CreateTask(q, t)
      PROVE  task'[p][s] = task[p][s]
  BY <1>1 DEF CreateTask, TypeInv, GcsTypeOK
<1>2. ASSUME \/ UNCHANGED gcsVars
             \/ \E q \in Runs, t \in Stages : DeleteTask(q, t) \/ TaskEnds(q, t)
      PROVE  task'[p][s] # "none" /\ (task'[p][s] = "active" => task[p][s] = "active")
  BY <1>2 DEF DeleteTask, RemoveTask, TaskEnds, gcsVars, TypeInv, GcsTypeOK
<1>3. ASSUME NEW w \in Workers, Worker(w)
      PROVE  task'[p][s] # "none" /\ (task'[p][s] = "active" => task[p][s] = "active")
  <2>1. wPc[w] # "idle" => wRun[w] \in Runs /\ wStage[w] \in Stages
    BY DEF TypeInv, GoroutineInv, ExecutorTypeOK, WorkersHoldRuns
  <2>2. CASE Launch(w)
    BY <1>1, <2>1, <2>2 DEF Launch, gcsVars
  <2>3. CASE Abandon(w) \/ StopTask(w) \/ Release(w)
    BY <1>2, <2>1, <2>3 DEF Abandon, StopTask, Release
  <2>4. CASE ~Launch(w) /\ ~Abandon(w) /\ ~StopTask(w) /\ ~Release(w)
    <3>1. UNCHANGED task
      BY <1>3, <2>4
      DEF Worker, Dequeue, Claim, Load, CheckStage, LeaveIfCanceled, MarkRunning,
          RunController, Record, WaitTick, Poll, AfterStage, SaveStage, Advance, Finish,
          WriteStage, WriteRun, WriteRunFails, FailStage, FailRun, gcsVars
    <3> QED
      BY <3>1
  <2> QED
    BY <2>2, <2>3, <2>4
<1>4. CASE Crash \/ Exit
  BY <1>2, <1>4 DEF Crash, Exit, Die
<1>5. CASE ~(Crash \/ Exit) /\ \A w \in Workers : ~Worker(w)
  BY <1>2, <1>5, OthersEndTasks
<1> QED
  BY <1>3, <1>4, <1>5

(* The container of an interrupted run, until it has stopped or is         *)
(* deleted.                                                                *)
Interrupted(p, s) ==
    /\ pStatus[p] = "running" /\ sCont[p][s]
    /\ \A w \in Workers : ~Executing(w, p)
    /\ phase = "up" => LeftToRecovery(p, s)

Kept(p, s) ==
    /\ phase # "draining" /\ task[p][s] # "none"
    /\ task[p][s] = "active" => Interrupted(p, s)

LEMMA KeptStep ==
    ASSUME TypeInv, TypeInv', DownInv, CollectInv, [Next]_vars, NEW p \in Runs, NEW s \in Stages,
           Kept(p, s), NothingFails, phase' # "draining", pStatus'[p] # "canceled"
    PROVE  Kept(p, s)'
<1>1. task'[p][s] # "none" /\ (task'[p][s] = "active" => task[p][s] = "active")
  BY TaskSticks DEF Kept
<1> SUFFICES ASSUME task'[p][s] = "active", task[p][s] = "active", Interrupted(p, s)
             PROVE  Interrupted(p, s)'
  BY <1>1 DEF Kept
<1>2. phase \in {"up", "down"} /\ phase' \in {"up", "down"}
  BY DEF Kept, TypeInv, GoroutineInv, ExecutorTypeOK
<1>3. phase' = "up" => LeftToRecovery(p, s)'
  BY <1>2, CollectStep DEF Interrupted
<1>4. Recovery \in Callers /\ pStatus[p] = "running" /\ \A w \in Workers : ~Executing(w, p)
  BY DEF Callers, Interrupted
<1> DEFINE Spared == /\ pStatus'[p] = "running" /\ sCont'[p] = sCont[p]
                     /\ \A w \in Workers : ~Executing(w, p)'
<1>5. ASSUME Boot \/ Shutdown \/ ContainerEnds \/ UNCHANGED vars
      PROVE  Spared
  <2>1. UNCHANGED <<pStatus, sCont, workerVars>>
    BY <1>5 DEF Boot, Shutdown, ContainerEnds, vars, storeVars, executorVars
  <2> QED
    BY <1>4, <2>1 DEF Executing, workerVars
<1>6. ASSUME Crash \/ Exit
      PROVE  Spared
  <2>1. UNCHANGED <<pStatus, sCont>> /\ \A w \in Workers : wPc'[w] = "idle"
    BY <1>6 DEF Crash, Exit, Die, LoseMemory, storeVars
  <2> QED
    BY <1>4, <2>1, PcClasses DEF Executing
<1>7. ASSUME NEW w \in Workers, Worker(w)
      PROVE  Spared
  <2>1. \A v \in Workers \ {w} : ~Executing(v, p)'
    BY <1>4, <1>7, WorkerAlone DEF LocalsKept, Executing
  <2> QED
    BY <1>4, <1>7, <2>1, WorkerSparesRow
<1>8. ASSUME Recover
      PROVE  Spared
  <2>1. phase = "up" /\ UNCHANGED workerVars
    BY <1>2, <1>4, <1>8
    DEF DownInv, Still, Recover, RecoverCollect, RecoverNext, SubmitPipeline,
        RecoverSubmitAborts, ListContainers, ReleaseContainers, RecoverStages,
        RecoverMarkStage, MarkStage, RecoverFailRun
  <2> QED
    BY <1>4, <1>8, <2>1, RecoverySparesRow DEF Interrupted, Executing, workerVars
<1>9. ASSUME NEW c \in Clients, Client(c)
      PROVE  Spared
  BY <1>4, <1>9, ClientSparesRow, ClientLeavesRecovery DEF Executing, workerVars
<1>10. ASSUME NEW q \in Runs, Create(q)
       PROVE  Spared
  <2>1. UNCHANGED <<workerVars, sCont>>
    BY <1>10 DEF Create, CreateRun, CreateStage, InsertStage, CreateFails, stageRow
  <2>2. pStatus'[p] = "running"
    BY <1>4, <1>10
    DEF Create, CreateRun, InsertRun, CreateStage, CreateFails, runRow, TypeInv, StoreTypeOK
  <2> QED
    BY <1>4, <2>1, <2>2 DEF Executing, workerVars
<1>11. Spared
  BY <1>5, <1>6, <1>7, <1>8, <1>9, <1>10 DEF Next
<1> QED
  BY <1>2, <1>3, <1>11 DEF Interrupted

(* Whatever crashes, and whenever: if a run is found running when the      *)
(* service is down, its recorded container is left to recovery in every    *)
(* process that follows, until it has stopped or is deleted; unless a      *)
(* statement or a request fails, the run is cancelled, or a process is     *)
(* stopped by a signal.  (Then the model lets every statement of recovery  *)
(* fail and yet be applied, as one under way may be.)                      *)
THEOREM CrashesLoseNoContainer ==
    ASSUME NEW p \in Runs, NEW s \in Stages
    PROVE  Spec =>
           [](/\ phase = "down" /\ pStatus[p] = "running" /\ sCont[p][s] /\ task[p][s] # "none"
              /\ [][NothingFails /\ phase' # "draining" /\ pStatus'[p] # "canceled"]_vars
              => [](phase = "up" /\ task[p][s] = "active" => LeftToRecovery(p, s)))
<1> DEFINE Found == phase = "down" /\ pStatus[p] = "running" /\ sCont[p][s] /\ task[p][s] # "none"
           Calm == NothingFails /\ phase' # "draining" /\ pStatus'[p] # "canceled"
           Left == phase = "up" /\ task[p][s] = "active" => LeftToRecovery(p, s)
<1>1. DownInv /\ Found => Kept(p, s)
  BY PcClasses DEF DownInv, Still, Executing, Kept, Interrupted
<1>2. TypeInv /\ TypeInv' /\ DownInv /\ CollectInv /\ Kept(p, s) /\ [Next]_vars /\ [Calm]_vars
          => Kept(p, s)'
  <2> SUFFICES ASSUME TypeInv, TypeInv', DownInv, CollectInv, Kept(p, s), [Next]_vars,
                      [Calm]_vars
               PROVE  Kept(p, s)'
    OBVIOUS
  <2>1. CASE Calm
    BY <2>1, KeptStep
  <2>2. CASE UNCHANGED vars
    <3>1. NothingFails /\ phase' # "draining" /\ (pStatus'[p] = "canceled" => pStatus[p] = "canceled")
      BY <2>2 DEF vars, storeVars, gcsVars, executorVars, procVars, runRow, NothingFails, Kept
    <3> QED
      BY <2>2, <3>1
      DEF Kept, Interrupted, LeftToRecovery, Collected, Executing, vars, storeVars, gcsVars,
          executorVars, procVars, runRow, stageRow, workerVars, callVars
  <2> QED
    BY <2>1, <2>2
<1>3. Kept(p, s) => Left
  BY DEF Kept, Interrupted
<1> QED
  BY <1>1, <1>2, <1>3, TypeInvariance, DownIsStill, CollectInvariance, PTL DEF Spec
-----------------------------------------------------------------------------
(* What a step may do to the status of the runs: insert one as pending, or *)
(* move one on.                                                            *)
BegunStatus == Status \ {"absent", "pending"}

StatusWritten ==
    \/ UNCHANGED pStatus
    \/ \E q \in Runs : InsertRun(q)
    \/ \E q \in Runs, st \in BegunStatus : pStatus' = [pStatus EXCEPT ![q] = st]

LEMMA WorkerStatusWritten ==
    ASSUME TypeInv, NEW w \in Workers, Worker(w)
    PROVE  StatusWritten
<1>1. wPc[w] # "idle" => wRun[w] \in Runs
  BY DEF TypeInv, GoroutineInv, WorkersHoldRuns
<1>2. {"running", "succeeded", "failed"} \subseteq BegunStatus
  BY DEF BegunStatus, Status, Terminal, NonTerminal
<1>3. CASE Claim(w)
  BY <1>1, <1>2, <1>3 DEF Claim, Transition, StatusWritten, runRow
<1>4. CASE Advance(w)
  BY <1>1, <1>2, <1>4 DEF Advance, WriteRun, WriteRunFails, UpdateRun, StatusWritten, runRow
<1>5. CASE Finish(w)
  BY <1>1, <1>2, <1>5 DEF Finish, WriteRun, WriteRunFails, UpdateRun, StatusWritten, runRow
<1>6. CASE FailRun(w)
  BY <1>1, <1>2, <1>6 DEF FailRun, FailPipeline, UpdateStatus, StatusWritten, runRow
<1>7. CASE ~Claim(w) /\ ~Advance(w) /\ ~Finish(w) /\ ~FailRun(w)
  <2>1. UNCHANGED pStatus
    BY <1>7
    DEF Worker, Dequeue, Load, CheckStage, LeaveIfCanceled, MarkRunning, RunController,
        Launch, Record, Abandon, WaitTick, Poll, StopTask, Release, AfterStage, SaveStage,
        WriteStage, FailStage, storeVars, runRow
  <2> QED
    BY <2>1 DEF StatusWritten
<1> QED
  BY <1>3, <1>4, <1>5, <1>6, <1>7

LEMMA NextStatusWritten ==
    ASSUME TypeInv, [Next]_vars
    PROVE  StatusWritten
<1>1. {"scheduled", "canceled", "failed"} \subseteq BegunStatus
  BY DEF BegunStatus, Status, Terminal, NonTerminal
<1>2. CASE Boot \/ Crash \/ Exit \/ Shutdown \/ ContainerEnds \/ UNCHANGED vars
  BY <1>2
  DEF Boot, Crash, Exit, Die, Shutdown, ContainerEnds, vars, storeVars, StatusWritten
<1>3. CASE Recover
  <2>1. CASE RecoverFailRun
    <3>1. cRun[Recovery] \in Runs
      BY <2>1 DEF RecoverFailRun, TypeInv, GoroutineInv, CallersHoldRuns, Callers
    <3> QED
      BY <1>1, <2>1, <3>1 DEF RecoverFailRun, FailPipeline, UpdateStatus, StatusWritten, runRow
  <2>2. CASE ~RecoverFailRun
    <3>1. UNCHANGED pStatus
      BY <1>3, <2>2
      DEF Recover, RecoverCollect, RecoverNext, SubmitPipeline, RecoverSubmitAborts,
          ListContainers, ReleaseContainers, RecoverStages, RecoverMarkStage, MarkStage,
          storeVars, runRow
    <3> QED
      BY <3>1 DEF StatusWritten
  <2> QED
    BY <2>1, <2>2
<1>4. ASSUME NEW c \in Clients, Client(c)
      PROVE  StatusWritten
  <2>1. ASSUME NEW q \in Runs, StartPipeline(c, q) \/ CancelPipeline(c, q)
        PROVE  StatusWritten
    BY <1>1, <2>1 DEF StartPipeline, CancelPipeline, Transition, UpdateStatus, StatusWritten
  <2>2. CASE \/ CancelListStages(c) \/ CancelMarkStage(c) \/ HangUp(c) \/ SubmitPipeline(c)
             \/ ListContainers(c) \/ ReleaseContainers(c)
    BY <2>2
    DEF CancelListStages, CancelMarkStage, MarkStage, HangUp, SubmitPipeline, ListContainers,
        ReleaseContainers, storeVars, runRow, StatusWritten
  <2> QED
    BY <1>4, <2>1, <2>2 DEF Client
<1>5. ASSUME NEW q \in Runs, Create(q)
      PROVE  StatusWritten
  BY <1>5 DEF Create, CreateRun, CreateStage, CreateFails, StatusWritten, runRow
<1> QED
  BY <1>2, <1>3, <1>4, <1>5, WorkerStatusWritten DEF Next

(* A run that was started is never pending again.                          *)
LEMMA BegunStays ==
    ASSUME TypeInv, [Next]_vars, NEW p \in Runs, pStatus[p] \in BegunStatus
    PROVE  pStatus'[p] \in BegunStatus
<1>1. ASSUME NEW q \in Runs, InsertRun(q)
      PROVE  pStatus'[p] \in BegunStatus
  <2>1. q # p
    BY <1>1 DEF InsertRun, BegunStatus
  <2> QED
    BY <1>1, <2>1 DEF InsertRun, TypeInv, StoreTypeOK
<1>2. ASSUME NEW q \in Runs, NEW st \in BegunStatus, pStatus' = [pStatus EXCEPT ![q] = st]
      PROVE  pStatus'[p] \in BegunStatus
  BY <1>2 DEF TypeInv, StoreTypeOK
<1> QED
  BY <1>1, <1>2, NextStatusWritten DEF StatusWritten

-----------------------------------------------------------------------------
(* How recovery gets hold of a run: it reads its list.                     *)
LEMMA HoldingComes ==
    ASSUME TypeInv, DownInv, [Next]_vars, NEW p \in Runs, HeldByRecovery(p)'
    PROVE  HeldByRecovery(p) \/ (cPc[Recovery] = "collect" /\ Recoverable(p) /\ UNCHANGED pStatus)
<1>0. Recovery \in Callers
  BY DEF Callers
<1>1. CASE Boot
  <2>1. rIds' = {} /\ cPc'[Recovery] = "collect"
    BY <1>0, <1>1 DEF Boot, DownInv, Still, TypeInv, GoroutineInv, ExecutorTypeOK
  <2> QED
    BY <2>1 DEF HeldByRecovery, InCall, FailPc
<1>2. CASE Crash \/ Exit
  <2>1. rIds' = {} /\ cPc'[Recovery] = "idle"
    BY <1>0, <1>2 DEF Crash, Exit, Die, LoseMemory
  <2> QED
    BY <2>1 DEF HeldByRecovery, InCall, FailPc
<1>3. ASSUME UNCHANGED <<callVars, rIds>>
      PROVE  HeldByRecovery(p)
  BY <1>3 DEF HeldByRecovery, InCall, callVars
<1>4. ASSUME NEW w \in Workers, Worker(w)
      PROVE  HeldByRecovery(p)
  BY <1>3, <1>4, WorkerAlone
<1>5. CASE Recover
  <2>1. CASE InCall' /\ cRun'[Recovery] = p
    BY <1>5, <2>1, RecoveryTakes DEF HeldByRecovery
  <2>2. CASE p \in rIds'
    <3>1. CASE RecoverCollect
      BY <2>2, <3>1 DEF RecoverCollect, HeldByRecovery, runRow
    <3>2. CASE ~RecoverCollect
      <4>1. rIds' \subseteq rIds
        BY <1>5, <3>2
        DEF Recover, RecoverNext, SubmitPipeline, RecoverSubmitAborts, ListContainers,
            ReleaseContainers, RecoverStages, RecoverMarkStage, MarkStage, RecoverFailRun
      <4> QED
        BY <2>2, <4>1 DEF HeldByRecovery
    <3> QED
      BY <3>1, <3>2
  <2> QED
    BY <2>1, <2>2 DEF HeldByRecovery
<1>6. ASSUME NEW c \in Clients, Client(c)
      PROVE  HeldByRecovery(p)
  BY <1>6, ClientLeavesRecovery DEF HeldByRecovery, InCall
<1>7. ASSUME NEW q \in Runs, Create(q)
      PROVE  HeldByRecovery(p)
  BY <1>3, <1>7 DEF Create, CreateRun, CreateStage, CreateFails
<1>8. CASE Shutdown \/ ContainerEnds \/ UNCHANGED vars
  BY <1>3, <1>8 DEF Shutdown, ContainerEnds, vars, executorVars
<1> QED
  BY <1>1, <1>2, <1>4, <1>5, <1>6, <1>7, <1>8 DEF Next

(* A worker takes what is queued, and no more.                             *)
LEMMA WorkerHolds ==
    ASSUME TypeInv, NEW w \in Workers, Worker(w), NEW p \in Runs, HeldElsewhere(p)'
    PROVE  HeldElsewhere(p)
<1>1. UNCHANGED callVars
  BY WorkerAlone
<1>2. ASSUME NEW c \in Clients, cRun'[c] = p, cPc'[c] = "submit"
      PROVE  HeldElsewhere(p)
  BY <1>1, <1>2 DEF HeldElsewhere, callVars
<1>3. CASE Dequeue(w)
  <2>1. /\ queue \in Seq(Runs) /\ queue # <<>> /\ queue' = Tail(queue)
        /\ wPc' = [wPc EXCEPT ![w] = "claim"] /\ wRun' = [wRun EXCEPT ![w] = Head(queue)]
    BY <1>3 DEF Dequeue, TypeInv, GoroutineInv, ExecutorTypeOK
  <2>2. 1 \in 1..Len(queue) /\ queue[1] = Head(queue)
    BY <2>1
  <2>3. ASSUME NEW i \in 1..Len(queue'), queue'[i] = p
        PROVE  HeldElsewhere(p)
    <3>1. i + 1 \in 1..Len(queue) /\ queue[i + 1] = p
      BY <2>1, <2>3
    <3> QED
      BY <3>1 DEF HeldElsewhere
  <2>4. wRun'[w] = Head(queue) /\ \A v \in Workers \ {w} : wPc'[v] = wPc[v] /\ wRun'[v] = wRun[v]
    BY <2>1 DEF TypeInv, GoroutineInv, ExecutorTypeOK
  <2>5. ASSUME NEW v \in Workers, wRun'[v] = p, wPc'[v] # "idle"
        PROVE  HeldElsewhere(p)
    <3>1. CASE v = w
      BY <2>2, <2>4, <2>5, <3>1 DEF HeldElsewhere
    <3>2. CASE v # w
      BY <2>4, <2>5, <3>2 DEF HeldElsewhere
    <3> QED
      BY <3>1, <3>2
  <2> QED
    BY <1>2, <2>3, <2>5 DEF HeldElsewhere
<1>4. CASE ~Dequeue(w)
  <2>1. UNCHANGED queue /\ wPc[w] # "idle"
    BY <1>4
    DEF Worker, Claim, Load, CheckStage, LeaveIfCanceled, MarkRunning, RunController,
        Launch, Record, Abandon, WaitTick, Poll, StopTask, Release, AfterStage, SaveStage,
        Advance, Finish, WriteRun, WriteRunFails, FailStage, FailRun
  <2>2. /\ \A v \in Workers \ {w} : wPc'[v] = wPc[v] /\ wRun'[v] = wRun[v]
        /\ wPc'[w] = "idle" \/ wRun'[w] = wRun[w]
    BY <1>4
    DEF Worker, Claim, Load, CheckStage, LeaveIfCanceled, MarkRunning, RunController,
        Launch, Record, Abandon, WaitTick, Poll, StopTask, Release, AfterStage, SaveStage,
        Advance, Finish, WriteStage, WriteRun, WriteRunFails, FailStage, FailRun, WorkerGo,
        WorkerDone, TypeInv, GoroutineInv, ExecutorTypeOK
  <2>3. ASSUME NEW v \in Workers, wRun'[v] = p, wPc'[v] # "idle"
        PROVE  wRun[v] = p /\ wPc[v] # "idle"
    BY <2>1, <2>2, <2>3
  <2> QED
    BY <1>2, <2>1, <2>3 DEF HeldElsewhere
<1> QED
  BY <1>3, <1>4

(* A request queues what it has in hand, and takes in hand what it starts. *)
LEMMA ClientHolds ==
    ASSUME TypeInv, NEW c \in Clients, Client(c), NEW p \in Runs, HeldElsewhere(p)'
    PROVE  HeldElsewhere(p) \/ StartPipeline(c, p)
<1>0. /\ c \in Callers /\ UNCHANGED workerVars
      /\ \A d \in Clients \ {c} : cPc'[d] = cPc[d] /\ cRun'[d] = cRun[d]
  BY ClientAlone, ClientLeavesRecovery DEF Callers, CallersKept
<1>1. CASE SubmitPipeline(c)
  <2>1. cPc[c] = "submit" /\ queue' = Append(queue, cRun[c]) /\ cPc'[c] # "submit"
    BY <1>0, <1>1, CallEffect DEF SubmitPipeline
  <2>2. queue \in Seq(Runs) /\ cRun[c] \in Runs
    BY <1>0, <2>1 DEF TypeInv, GoroutineInv, ExecutorTypeOK, CallersHoldRuns
  <2>3. \A i \in 1..Len(queue') : queue'[i] = cRun[c] \/ (i \in 1..Len(queue) /\ queue'[i] = queue[i])
    BY <2>1, <2>2
  <2> QED
    BY <1>0, <2>1, <2>3 DEF HeldElsewhere, workerVars
<1>2. CASE ~SubmitPipeline(c)
  <2>1. UNCHANGED queue
    BY <1>2
    DEF Client, StartPipeline, CancelPipeline, CancelListStages, CancelMarkStage, MarkStage,
        HangUp, ListContainers, ReleaseContainers
  <2>2. cRun'[c] = p /\ cPc'[c] = "submit" => StartPipeline(c, p) \/ (cRun[c] = p /\ cPc[c] = "submit")
    <3>1. ASSUME NEW q \in Runs, StartPipeline(c, q), cRun'[c] = p, cPc'[c] = "submit"
          PROVE  StartPipeline(c, p)
      <4>1. cPc[c] = "idle"
        BY <3>1 DEF StartPipeline
      <4>2. CallBegin(c, q, "submit")
        BY <3>1, <4>1 DEF StartPipeline, callVars
      <4>3. q = p
        BY <1>0, <3>1, <4>2, CallEffect
      <4> QED
        BY <3>1, <4>3
    <3>2. ASSUME NEW q \in Runs, CancelPipeline(c, q)
          PROVE  cPc'[c] # "submit"
      <4>1. cPc[c] = "idle" /\ (CallBegin(c, q, "stages") \/ UNCHANGED callVars)
        BY <3>2 DEF CancelPipeline
      <4> QED
        BY <1>0, <4>1, CallEffect DEF callVars
    <3>3. CASE HangUp(c)
      BY <1>0, <3>3, CallEffect DEF HangUp
    <3>4. CASE CancelListStages(c) \/ CancelMarkStage(c) \/ ListContainers(c) \/ ReleaseContainers(c)
      <4>1. \/ \E pc \in {"list", "release", "stages", "markStage"} : \E todo : CallGo(c, pc, todo)
            \/ CallReturn(c)
        BY <3>4
        DEF CancelListStages, ListRunning, CancelMarkStage, MarkStage, ListContainers,
            ReleaseContainers, CallLoop, AfterCancel
      <4> QED
        BY <1>0, <4>1, CallEffect
    <3> QED
      BY <1>2, <3>1, <3>2, <3>3, <3>4 DEF Client
  <2> QED
    BY <1>0, <2>1, <2>2 DEF HeldElsewhere, workerVars
<1> QED
  BY <1>1, <1>2

(* How somebody else gets hold of a run: a request starts it, or recovery  *)
(* queues it.                                                              *)
LEMMA ElsewhereComes ==
    ASSUME TypeInv, [Next]_vars, NEW p \in Runs, HeldElsewhere(p)'
    PROVE  \/ HeldElsewhere(p)
           \/ SubmitPipeline(Recovery) /\ cRun[Recovery] = p
           \/ \E c \in Clients : StartPipeline(c, p) /\ Client(c)
<1>0. Recovery \in Callers /\ Recovery \notin Clients /\ \A c \in Clients : c \in Callers
  BY ExecutorAssumption DEF Callers
<1>1. CASE Crash \/ Exit
  <2>1. /\ queue' = <<>> /\ (\A w \in Workers : wPc'[w] = "idle")
        /\ \A c \in Clients : cPc'[c] = "idle"
    BY <1>0, <1>1 DEF Crash, Exit, Die, LoseMemory
  <2> QED
    BY <2>1 DEF HeldElsewhere
<1>2. ASSUME UNCHANGED <<queue, workerVars>>,
             \A c \in Clients : cPc'[c] = cPc[c] /\ cRun'[c] = cRun[c]
      PROVE  HeldElsewhere(p)
  BY <1>2 DEF HeldElsewhere, workerVars
<1>3. CASE Boot
  BY <1>0, <1>2, <1>3 DEF Boot, TypeInv, GoroutineInv, ExecutorTypeOK
<1>4. CASE Shutdown \/ ContainerEnds \/ UNCHANGED vars
  BY <1>2, <1>4 DEF Shutdown, ContainerEnds, vars, executorVars, callVars
<1>5. ASSUME NEW q \in Runs, Create(q)
      PROVE  HeldElsewhere(p)
  BY <1>2, <1>5 DEF Create, CreateRun, CreateStage, CreateFails, callVars
<1>6. CASE Recover
  <2>1. \A c \in Clients : cPc'[c] = cPc[c] /\ cRun'[c] = cRun[c]
    BY <1>0, <1>6, RecoveryAlone DEF CallersKept
  <2>2. CASE SubmitPipeline(Recovery)
    <3>1. queue' = Append(queue, cRun[Recovery]) /\ UNCHANGED workerVars
      BY <2>2 DEF SubmitPipeline
    <3>2. queue \in Seq(Runs) /\ cRun[Recovery] \in Runs
      BY <1>0, <2>2 DEF SubmitPipeline, TypeInv, GoroutineInv, ExecutorTypeOK, CallersHoldRuns
    <3>3. \A i \in 1..Len(queue') :
              queue'[i] = cRun[Recovery] \/ (i \in 1..Len(queue) /\ queue'[i] = queue[i])
      BY <3>1, <3>2
    <3> QED
      BY <2>1, <2>2, <3>1, <3>3 DEF HeldElsewhere, workerVars
  <2>3. CASE ~SubmitPipeline(Recovery)
    <3>1. UNCHANGED <<queue, workerVars>>
      BY <1>6, <2>3
      DEF Recover, RecoverCollect, RecoverNext, RecoverSubmitAborts, ListContainers,
          ReleaseContainers, RecoverStages, RecoverMarkStage, MarkStage, RecoverFailRun
    <3> QED
      BY <1>2, <2>1, <3>1
  <2> QED
    BY <2>2, <2>3
<1> QED
  BY <1>1, <1>3, <1>4, <1>5, <1>6, WorkerHolds, ClientHolds DEF Next

(* What recovery holds was started before.                                 *)
BegunInv == \A p \in Runs : HeldByRecovery(p) => pStatus[p] \in BegunStatus

LEMMA BegunInvariance == Spec => []BegunInv
<1>1. Init => BegunInv
  BY DEF Init, ExecutorInit, BegunInv, HeldByRecovery, InCall, FailPc, Callers
<1>2. TypeInv /\ DownInv /\ BegunInv /\ [Next]_vars => BegunInv'
  <2> SUFFICES ASSUME TypeInv, DownInv, BegunInv, [Next]_vars, NEW p \in Runs, HeldByRecovery(p)'
               PROVE  pStatus'[p] \in BegunStatus
    BY DEF BegunInv
  <2>1. Recoverable(p) => pStatus[p] \in BegunStatus
    BY DEF Recoverable, BegunStatus, Status, NonTerminal
  <2> QED
    BY <2>1, HoldingComes, BegunStays DEF BegunInv
<1> QED
  BY <1>1, <1>2, TypeInvariance, DownIsStill, PTL DEF Spec

LEMMA HeldStep ==
    ASSUME TypeInv, DownInv, OnceInv, BegunInv, [Next]_vars, NEW p \in Runs, HeldTwice(p)'
    PROVE  HeldTwice(p) \/ (cPc[Recovery] = "collect" /\ HeldElsewhere(p))
<1>1. HeldByRecovery(p) \/ cPc[Recovery] = "collect"
  BY HoldingComes DEF HeldTwice
<1>2. CASE SubmitPipeline(Recovery) /\ cRun[Recovery] = p
  <2>1. cPc'[Recovery] \notin FailPc \cup {"submit"} /\ UNCHANGED rIds /\ InCall
    BY <1>2, CallEffect DEF SubmitPipeline, Callers, FailPc, InCall
  <2> QED
    BY <1>2, <2>1 DEF OnceInv, HeldTwice, HeldByRecovery, InCall
<1>3. ASSUME NEW c \in Clients, StartPipeline(c, p), Client(c)
      PROVE  FALSE
  <2>1. pStatus[p] = "pending"
    BY <1>3 DEF StartPipeline, Transition
  <2>2. HeldByRecovery(p)
    BY <1>3, ClientLeavesRecovery DEF HeldTwice, HeldByRecovery, InCall
  <2> QED
    BY <2>1, <2>2 DEF BegunInv, BegunStatus
<1>4. CASE HeldElsewhere(p)
  BY <1>1, <1>4 DEF HeldTwice
<1> QED
  BY <1>2, <1>3, <1>4, ElsewhereComes DEF HeldTwice

(* In every process, with requests at any time: recovery and the others    *)
(* get hold of the same run only if a request had started it before        *)
(* recovery read its list.                                                 *)
THEOREM RecoveryHoldsRunsAlone == Spec => OnlyEarlyRunsHeldTwice
<1>1. TypeInv /\ DownInv /\ CollectInv /\ BegunInv /\ [Next]_vars =>
          [ \A p \in Runs :
                HeldTwice(p)' =>
                    HeldTwice(p) \/ (cPc[Recovery] = "collect" /\ HeldElsewhere(p)) ]_vars
  BY HeldStep DEF CollectInv
<1> QED
  BY <1>1, TypeInvariance, DownIsStill, CollectInvariance, BegunInvariance, PTL
  DEF Spec, OnlyEarlyRunsHeldTwice

(* Nobody but recovery has the run when it reads its list, and later.      *)
Apart(p) ==
    /\ ~HeldTwice(p)
    /\ cPc[Recovery] = "collect" => ~HeldElsewhere(p)

(* No request starts the run while recovery has not read its list.         *)
StartsLater(p) == cPc[Recovery] = "collect" => \A c \in Clients : ~StartPipeline(c, p)

LEMMA ApartStep ==
    ASSUME TypeInv, DownInv, OnceInv, BegunInv, NEW p \in Runs, Apart(p), [Next]_vars, StartsLater(p)
    PROVE  Apart(p)'
<1>0. Recovery \in Callers
  BY DEF Callers
<1>1. ~HeldTwice(p)'
  BY HeldStep DEF Apart
<1>2. ASSUME cPc'[Recovery] = "collect", HeldElsewhere(p)'
      PROVE  FALSE
  <2>1. CASE Boot
    <3>1. /\ UNCHANGED <<queue, workerVars>> /\ Still
          /\ cPc' = [cPc EXCEPT ![Recovery] = "collect"] /\ UNCHANGED cRun
      BY <2>1 DEF Boot, DownInv
    <3>2. \A c \in Clients : cPc'[c] # "submit"
      BY <3>1, ExecutorAssumption DEF Still, Callers, TypeInv, GoroutineInv, ExecutorTypeOK
    <3> QED
      BY <1>2, <3>1, <3>2 DEF HeldElsewhere, Still, workerVars
  <2>2. CASE ~Boot
    <3>1. cPc[Recovery] = "collect"
      <4>1. CASE Crash \/ Exit
        BY <1>0, <1>2, <4>1 DEF Crash, Exit, Die, LoseMemory
      <4>2. CASE Recover
        <5>1. CASE RecoverCollect \/ SubmitPipeline(Recovery) \/ RecoverSubmitAborts \/ RecoverFailRun
          BY <1>0, <1>2, <5>1, CallEffect
          DEF RecoverCollect, SubmitPipeline, RecoverSubmitAborts, RecoverFailRun
        <5>2. CASE RecoverNext
          BY <1>0, <1>2, <5>2
          DEF RecoverNext, StepFor, TypeInv, GoroutineInv, ExecutorTypeOK
        <5>3. CASE \/ ListContainers(Recovery) \/ ReleaseContainers(Recovery) \/ RecoverStages
                   \/ RecoverMarkStage
          <6>1. \E pc \in {"release", "stages", "markStage", "failRun"} : \E todo : CallGo(Recovery, pc, todo)
            BY <5>3
            DEF ListContainers, ReleaseContainers, RecoverStages, ListRunning, RecoverMarkStage,
                MarkStage, CallLoop, AfterCancel
          <6> QED
            BY <1>0, <1>2, <6>1, CallEffect
        <5> QED
          BY <4>2, <5>1, <5>2, <5>3 DEF Recover
      <4>3. ASSUME NEW c \in Clients, Client(c)
            PROVE  cPc[Recovery] = "collect"
        BY <1>2, <4>3, ClientLeavesRecovery
      <4>4. CASE UNCHANGED callVars
        BY <1>2, <4>4 DEF callVars
      <4>5. ASSUME NEW q \in Runs, Create(q)
            PROVE  cPc[Recovery] = "collect"
        BY <4>4, <4>5 DEF Create, CreateRun, CreateStage, CreateFails
      <4>6. CASE Shutdown \/ ContainerEnds \/ UNCHANGED vars
        BY <4>4, <4>6 DEF Shutdown, ContainerEnds, vars, executorVars
      <4> QED
        BY <2>2, <4>1, <4>2, <4>3, <4>4, <4>5, <4>6, WorkerAlone DEF Next
    <3>2. ~SubmitPipeline(Recovery)
      BY <3>1 DEF SubmitPipeline
    <3> QED
      BY <1>2, <3>1, <3>2, ElsewhereComes DEF Apart, StartsLater
  <2> QED
    BY <2>1, <2>2
<1> QED
  BY <1>1, <1>2 DEF Apart

(* With requests for other runs at any time, and for this one once         *)
(* recovery has its list: recovery does not fail a run while a worker      *)
(* executes it, in this process and in every later one.                    *)
THEOREM LiveRunsAreSpared ==
    ASSUME NEW p \in Runs
    PROVE  Spec =>
           [](phase = "down" /\ [][cPc[Recovery] = "collect" => \A c \in Clients : ~StartPipeline(c, p)]_vars
              => [](\A w \in Workers :
                        cPc[Recovery] \in FailPc /\ cRun[Recovery] = p => ~Executing(w, p)))
<1> DEFINE Spares == \A w \in Workers :
                         cPc[Recovery] \in FailPc /\ cRun[Recovery] = p => ~Executing(w, p)
<1>1. DownInv /\ phase = "down" => Apart(p)
  BY DEF DownInv, Still, Apart, HeldTwice, HeldByRecovery, HeldElsewhere, InCall, FailPc, Callers
<1>2. TypeInv /\ DownInv /\ CollectInv /\ BegunInv /\ Apart(p) /\ [Next]_vars
          /\ [cPc[Recovery] = "collect" => \A c \in Clients : ~StartPipeline(c, p)]_vars
          => Apart(p)'
  <2> SUFFICES ASSUME TypeInv, DownInv, CollectInv, BegunInv, Apart(p), [Next]_vars,
                      [StartsLater(p)]_vars
               PROVE  Apart(p)'
    BY DEF StartsLater
  <2>1. CASE StartsLater(p)
    BY <2>1, ApartStep DEF CollectInv
  <2>2. CASE UNCHANGED vars
    BY <2>2
    DEF Apart, HeldTwice, HeldByRecovery, HeldElsewhere, InCall, vars, executorVars, workerVars,
        callVars
  <2> QED
    BY <2>1, <2>2
<1>3. Apart(p) => Spares
  BY PcClasses DEF Apart, HeldTwice, HeldByRecovery, HeldElsewhere, InCall, Executing
<1> QED
  BY <1>1, <1>2, <1>3, TypeInvariance, DownIsStill, CollectInvariance, BegunInvariance, PTL
  DEF Spec
=============================================================================
