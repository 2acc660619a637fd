-------------------- MODULE ControlServiceSafety_proofs --------------------
(***************************************************************************)
(* The safety of the runs: one inductive invariant that ties the rows of a *)
(* run and its containers to the worker that executes it, and the theorems *)
(* that follow from it.                                                    *)
(***************************************************************************)
EXTENDS ControlService_proofs

(* The steps of a worker by what it has done to the stage in hand.         *)
FreshPc == {"check", "mark"}
BusyPc == {"execute", "record", "wait", "poll", "abandon", "stop", "releaseOk",
           "releaseErr", "ranOk", "ranErr", "saveStage", "failStage", "failRun"}
DonePc == {"advance", "finish"}
LoopPc == FreshPc \cup BusyPc \cup DonePc

(* Where the container of the stage in hand does not run, or runs no more. *)
QuietPc == FreshPc \cup DonePc \cup {"execute", "releaseOk", "ranOk", "saveStage"}

(* What the rows and the tasks of a run say together, whoever works on it. *)
Unstarted == {"absent", "pending", "scheduled"}
Untouched(p, s) == sStatus[p][s] \in {"absent", "pending"}

NotBegun(p) ==
    pStatus[p] \in Unstarted =>
        /\ curStage[p] = 0
        /\ \A s \in Stages : Untouched(p, s)
        /\ \A s \in Stages : task[p][s] = "none"

Ordered(p) ==
    \A s, t \in Stages : t < s => Untouched(p, s) \/ sStatus[p][t] = "succeeded"

Counted(p) ==
    \A s \in Stages :
        /\ sStatus[p][s] = "succeeded" => s <= curStage[p]
        /\ s < curStage[p] => sStatus[p][s] = "succeeded"

OneActive(p) ==
    \A s, t \in Stages : task[p][s] = "active" /\ task[p][t] = "active" => s = t

Complete(p) ==
    pStatus[p] = "succeeded" => \A s \in Stages : sStatus[p][s] = "succeeded"

RunInv(p) == NotBegun(p) /\ Ordered(p) /\ Counted(p) /\ OneActive(p) /\ Complete(p)

(* What a worker may rely on about the run it executes: the run was        *)
(* started; the stages before the one in hand have succeeded and those     *)
(* after it are untouched; the row and the container of the one in hand.   *)
HandRun(pc, p) ==
    pc \in ExecutePc =>
        \/ pStatus[p] \in {"running", "failed", "canceled"}
        \/ pc = "deferFail" /\ pStatus[p] = "succeeded"

HandFirst(pc, p, k) ==
    /\ pc \notin LoopPc \cup {"deferFail"} => k = 1
    /\ pc = "load" =>
           /\ curStage[p] = 1
           /\ \A s \in Stages : Untouched(p, s)
           /\ \A s \in Stages : task[p][s] = "none"

HandOthers(pc, p, k) ==
    pc \in LoopPc =>
        /\ curStage[p] = k
        /\ \A s \in Stages : s < k => sStatus[p][s] = "succeeded"
        /\ \A s \in Stages : s < k => task[p][s] # "active"
        /\ \A s \in Stages : s > k => sStatus[p][s] = "pending"
        /\ \A s \in Stages : s > k => task[p][s] = "none"

HandRow(pc, p, k) ==
    /\ pc \in FreshPc => sStatus[p][k] = "pending"
    /\ pc \in BusyPc => sStatus[p][k] \in {"running", "failed", "canceled"}
    /\ pc \in DonePc => sStatus[p][k] = "succeeded"
    /\ pc = "finish" => k = NumStages

HandTask(pc, p, k) == pc \in QuietPc => task[p][k] # "active"

Hand(pc, p, k) ==
    /\ HandRun(pc, p) /\ HandFirst(pc, p, k) /\ HandOthers(pc, p, k)
    /\ HandRow(pc, p, k) /\ HandTask(pc, p, k)

HandInv(w) == Hand(wPc[w], wRun[w], wStage[w])

(* What a caller may rely on: the stages it is about to mark were started, *)
(* and so was the run that recovery is about to fail.                      *)
CallInv(c) ==
    LET p == cRun[c]
    IN /\ cPc[c] = "markStage" => \A copy \in cTodo[c] : ~Untouched(p, copy[1])
       /\ c = Recovery /\ cPc[c] \in {"list", "release", "stages", "markStage", "failRun"} =>
              pStatus[p] \notin Unstarted

SafeInv ==
    /\ \A p \in Runs : RunInv(p)
    /\ \A w \in Workers : HandInv(w)
    /\ \A c \in Callers : CallInv(c)
    /\ OneExecutor

LEMMA InitSafeInv == Init => SafeInv
<1> SUFFICES ASSUME Init
             PROVE  SafeInv
  OBVIOUS
<1>1. \A p \in Runs : RunInv(p)
  <2>1. \A p \in Runs : NotBegun(p) /\ Ordered(p) /\ OneActive(p) /\ Complete(p)
    BY DEF Init, StoreInit, GcsInit, NotBegun, Ordered, OneActive, Complete, Untouched
  <2>2. \A p \in Runs : Counted(p)
    BY StoreAssumption DEF Init, StoreInit, Counted, Stages
  <2> QED
    BY <2>1, <2>2 DEF RunInv
<1>2. \A w \in Workers : HandInv(w)
  BY DEF Init, ExecutorInit, HandInv, Hand, HandRun, HandFirst, HandOthers, HandRow, HandTask,
         ExecutePc, LoopPc, FreshPc, BusyPc, DonePc, QuietPc
<1>3. (\A c \in Callers : CallInv(c)) /\ OneExecutor
  BY DEF Init, ExecutorInit, CallInv, OneExecutor, Executing, ExecutePc
<1> QED
  BY <1>1, <1>2, <1>3 DEF SafeInv

-----------------------------------------------------------------------------
(* The classes of a worker's steps exclude each other.                     *)
LEMMA PcClasses ==
    /\ LoopPc \subseteq ExecutePc \ {"load", "deferFail"}
    /\ LoopPc = FreshPc \cup BusyPc \cup DonePc
    /\ FreshPc \cap BusyPc = {} /\ FreshPc \cap DonePc = {} /\ BusyPc \cap DonePc = {}
    /\ FreshPc \cup DonePc \subseteq QuietPc
    /\ QuietPc \subseteq LoopPc
    /\ {"load", "deferFail"} \subseteq ExecutePc
    /\ "idle" \notin ExecutePc /\ "claim" \notin ExecutePc
    /\ "finish" \in DonePc
<1> USE DEF ExecutePc, LoopPc, FreshPc, BusyPc, DonePc, QuietPc
<1>1. LoopPc \subseteq ExecutePc \ {"load", "deferFail"}
  OBVIOUS
<1>2. FreshPc \cap BusyPc = {} /\ FreshPc \cap DonePc = {} /\ BusyPc \cap DonePc = {}
  OBVIOUS
<1>3. FreshPc \cup DonePc \subseteq QuietPc /\ QuietPc \subseteq LoopPc
  OBVIOUS
<1>4. {"load", "deferFail"} \subseteq ExecutePc /\ "idle" \notin ExecutePc /\ "claim" \notin ExecutePc
  OBVIOUS
<1>5. LoopPc = FreshPc \cup BusyPc \cup DonePc /\ "finish" \in DonePc
  OBVIOUS
<1> HIDE DEF ExecutePc, LoopPc, FreshPc, BusyPc, DonePc, QuietPc
<1> QED
  BY <1>1, <1>2, <1>3, <1>4, <1>5

(* A worker that executes nothing relies on nothing.                       *)
LEMMA HandIdle ==
    ASSUME NEW pc \in {"idle", "claim"}, NEW p
    PROVE  Hand(pc, p, 1) /\ Hand(pc, p, 1)'
  BY PcClasses DEF Hand, HandRun, HandFirst, HandOthers, HandRow, HandTask

(* What is left alone by a step keeps its part of the invariant.           *)
RowKept(p) ==
    /\ pStatus'[p] = pStatus[p] /\ curStage'[p] = curStage[p]
    /\ sStatus'[p] = sStatus[p] /\ task'[p] = task[p]

LocalsKept(w) == wPc'[w] = wPc[w] /\ wRun'[w] = wRun[w] /\ wStage'[w] = wStage[w]

(* Stages and runs that were started stay started.                         *)
Onward(p) ==
    /\ \A s \in Stages : sStatus'[p][s] \in {"absent", "pending"} => Untouched(p, s)
    /\ pStatus'[p] \in Unstarted => pStatus[p] \in Unstarted

LEMMA RunKept ==
    ASSUME NEW p \in Runs, RunInv(p), RowKept(p)
    PROVE  RunInv(p)'
  BY DEF RunInv, NotBegun, Ordered, Counted, OneActive, Complete, Untouched, RowKept

LEMMA HandKept ==
    ASSUME NEW pc, NEW p, NEW k, Hand(pc, p, k), pc \in ExecutePc => RowKept(p)
    PROVE  Hand(pc, p, k)'
<1>1. CASE pc \in ExecutePc
  BY <1>1
  DEF Hand, HandRun, HandFirst, HandOthers, HandRow, HandTask, Untouched, RowKept
<1>2. CASE pc \notin ExecutePc
  BY <1>2, PcClasses DEF Hand, HandRun, HandFirst, HandOthers, HandRow, HandTask
<1> QED
  BY <1>1, <1>2

(* The invariant of a worker is that of its local variables.               *)
LEMMA HandMoved ==
    ASSUME NEW w \in Workers, NEW pc, NEW p, NEW k,
           wPc'[w] = pc, wRun'[w] = p, wStage'[w] = k, Hand(pc, p, k)'
    PROVE  HandInv(w)'
  BY DEF HandInv, Hand, HandRun, HandFirst, HandOthers, HandRow, HandTask, Untouched

LEMMA CallKept ==
    ASSUME TypeInv, NEW c \in Callers, CallInv(c), UNCHANGED <<cPc[c], cRun[c], cTodo[c]>>,
           \A p \in Runs : Onward(p)
    PROVE  CallInv(c)'
<1>1. cTodo[c] \subseteq StageCopies /\ (cPc[c] \notin {"idle", "collect", "next"} => cRun[c] \in Runs)
  BY DEF TypeInv, GoroutineInv, ExecutorTypeOK, CallersHoldRuns
<1>2. \A copy \in cTodo[c] : copy[1] \in Stages
  BY <1>1 DEF StageCopies
<1> QED
  BY <1>1, <1>2 DEF CallInv, Onward, Untouched

LEMMA KeptOnward ==
    ASSUME NEW p \in Runs, RowKept(p)
    PROVE  Onward(p)
  BY DEF RowKept, Onward, Untouched

(* A worker's step: only the run it holds, and the worker itself, need to  *)
(* be looked at, because no other worker executes that run.                *)
LEMMA WorkerStepSafe ==
    ASSUME TypeInv, SafeInv, NEW w \in Workers, NEW p \in Runs, wRun[w] = p,
           \A q \in Runs \ {p} : RowKept(q),
           \A v \in Workers \ {w} : LocalsKept(v),
           UNCHANGED callVars,
           wPc[w] \in ExecutePc \/ pStatus[p] = "scheduled",
           RunInv(p)', Onward(p),
           HandInv(w)', wPc'[w] \in ExecutePc => wRun'[w] = p
    PROVE  SafeInv'
<1>1. \A v \in Workers \ {w} : wPc[v] \in ExecutePc => wRun[v] # p
  BY DEF SafeInv, OneExecutor, Executing, HandInv, Hand, HandRun
<1>2. \A v \in Workers \ {w} : wPc[v] \in ExecutePc => wRun[v] \in Runs
  BY PcClasses DEF TypeInv, GoroutineInv, WorkersHoldRuns
<1>3. \A q \in Runs : RunInv(q)'
  BY RunKept DEF SafeInv
<1>4. ASSUME NEW v \in Workers
      PROVE  HandInv(v)'
  <2>1. CASE v # w
    <3>1. LocalsKept(v) /\ Hand(wPc[v], wRun[v], wStage[v])
      BY <2>1 DEF SafeInv, HandInv
    <3>2. wPc[v] \in ExecutePc => RowKept(wRun[v])
      BY <1>1, <1>2, <2>1
    <3>3. PICK pc, q, k : pc = wPc[v] /\ q = wRun[v] /\ k = wStage[v]
      OBVIOUS
    <3>4. Hand(pc, q, k) /\ (pc \in ExecutePc => RowKept(q))
      BY <3>1, <3>2, <3>3
      DEF Hand, HandRun, HandFirst, HandOthers, HandRow, HandTask, Untouched, RowKept
    <3> QED
      BY <3>1, <3>3, <3>4, HandKept, HandMoved DEF LocalsKept
  <2> QED
    BY <2>1
<1>5. \A c \in Callers : CallInv(c)'
  <2>1. \A q \in Runs : Onward(q)
    BY KeptOnward
  <2> QED
    BY <2>1, CallKept DEF SafeInv, callVars
<1>6. OneExecutor'
  BY <1>1 DEF SafeInv, OneExecutor, Executing, LocalsKept
<1> QED
  BY <1>3, <1>4, <1>5, <1>6 DEF SafeInv

(* The same for a worker that executes nothing after its step, on no run.  *)
LEMMA IdleStepSafe ==
    ASSUME TypeInv, SafeInv, NEW w \in Workers,
           \A q \in Runs : RowKept(q),
           \A v \in Workers \ {w} : LocalsKept(v),
           UNCHANGED callVars,
           HandInv(w)', wPc'[w] \notin ExecutePc
    PROVE  SafeInv'
<1>1. \A q \in Runs : RunInv(q)'
  BY RunKept DEF SafeInv
<1>2. ASSUME NEW v \in Workers \ {w}
      PROVE  HandInv(v)'
  <2>1. PICK pc, q, k : pc = wPc[v] /\ q = wRun[v] /\ k = wStage[v]
    OBVIOUS
  <2>2. Hand(pc, q, k)
    BY <2>1 DEF SafeInv, HandInv
  <2>3. pc \in ExecutePc => RowKept(q)
    BY <2>1, PcClasses DEF TypeInv, GoroutineInv, WorkersHoldRuns
  <2> QED
    BY <2>1, <2>2, <2>3, HandKept, HandMoved DEF LocalsKept
<1>3. \A c \in Callers : CallInv(c)'
  BY KeptOnward, CallKept DEF SafeInv, callVars
<1>4. OneExecutor'
  BY DEF SafeInv, OneExecutor, Executing, LocalsKept
<1> QED
  BY <1>1, <1>2, <1>3, <1>4 DEF SafeInv

-----------------------------------------------------------------------------
(* What the building blocks of the worker's actions do.                    *)
LEMMA GoEffect ==
    ASSUME TypeInv, NEW w \in Workers, NEW pc, WorkerGo(w, pc)
    PROVE  /\ wPc'[w] = pc /\ wRun'[w] = wRun[w] /\ wStage'[w] = wStage[w]
           /\ \A v \in Workers \ {w} : LocalsKept(v)
  BY DEF TypeInv, GoroutineInv, ExecutorTypeOK, WorkerGo, LocalsKept

LEMMA DoneEffect ==
    ASSUME TypeInv, NEW w \in Workers, WorkerDone(w)
    PROVE  /\ wPc'[w] = "idle" /\ wStage'[w] = 1
           /\ \A v \in Workers \ {w} : LocalsKept(v)
  BY DEF TypeInv, GoroutineInv, ExecutorTypeOK, WorkerDone, LocalsKept

LEMMA StageEffect ==
    ASSUME TypeInv, NEW p \in Runs, NEW k \in Stages, NEW st, NEW cont,
           UpdateStage(p, k, st, cont)
    PROVE  /\ StageOpen(p, k, st)
           /\ sStatus'[p] = [sStatus[p] EXCEPT ![k] = st]
           /\ \A q \in Runs \ {p} : sStatus'[q] = sStatus[q]
  BY DEF TypeInv, StoreTypeOK, UpdateStage

TasksLeave(p) ==
    /\ \A s \in Stages : task[p][s] = "none" => task'[p][s] = "none"
    /\ \A s \in Stages : task'[p][s] = "active" => task[p][s] = "active"

LEMMA RemoveEffect ==
    ASSUME TypeInv, NEW p \in Runs, NEW k \in Stages, RemoveTask(p, k) \/ UNCHANGED task
    PROVE  /\ \A q \in Runs \ {p} : task'[q] = task[q]
           /\ TasksLeave(p)
<1>1. CASE RemoveTask(p, k)
  BY <1>1 DEF TypeInv, GcsTypeOK, RemoveTask, TasksLeave
<1>2. CASE UNCHANGED task
  BY <1>2 DEF TasksLeave
<1> QED
  BY <1>1, <1>2

(* Deleting a container disturbs nothing that is known about its run.      *)
LEMMA RemoveRunInv ==
    ASSUME NEW p \in Runs, RunInv(p),
           pStatus'[p] = pStatus[p], curStage'[p] = curStage[p], sStatus'[p] = sStatus[p],
           TasksLeave(p)
    PROVE  RunInv(p)'
<1>1. NotBegun(p)'
  BY DEF RunInv, NotBegun, Untouched, TasksLeave
<1>2. Ordered(p)' /\ Counted(p)' /\ Complete(p)'
  BY DEF RunInv, Ordered, Counted, Complete, Untouched
<1>3. OneActive(p)'
  BY DEF RunInv, OneActive, TasksLeave
<1> QED
  BY <1>1, <1>2, <1>3 DEF RunInv

(* The row of a started stage is written: by its worker, or by a caller    *)
(* that marks it.                                                          *)
LEMMA StageWritten ==
    ASSUME TypeInv, NEW p \in Runs, NEW k \in Stages, RunInv(p),
           NEW st \in {"running", "succeeded", "failed", "canceled"},
           pStatus[p] \notin Unstarted,
           \A t \in Stages : t < k => sStatus[p][t] = "succeeded",
           sStatus[p][k] # "succeeded",
           st = "succeeded" => k = curStage[p],
           sStatus'[p] = [sStatus[p] EXCEPT ![k] = st],
           pStatus'[p] = pStatus[p], curStage'[p] = curStage[p], task'[p] = task[p]
    PROVE  RunInv(p)' /\ Onward(p)
<1>1. /\ sStatus'[p][k] = st
      /\ \A s \in Stages \ {k} : sStatus'[p][s] = sStatus[p][s]
  BY DEF TypeInv, StoreTypeOK
<1>2. k \in Int /\ curStage[p] \in Int /\ \A s \in Stages : s \in Int
  BY StoreAssumption DEF Stages, TypeInv, StoreTypeOK
<1>3. NotBegun(p)' /\ OneActive(p)'
  BY DEF RunInv, NotBegun, OneActive
<1>4. Ordered(p)'
  BY <1>1, <1>2 DEF RunInv, Ordered, Untouched
<1>5. Counted(p)'
  BY <1>1, <1>2 DEF RunInv, Counted
<1>6. Complete(p)'
  BY DEF RunInv, Complete
<1>7. Onward(p)
  BY <1>1 DEF Onward, Untouched
<1> QED
  BY <1>3, <1>4, <1>5, <1>6, <1>7 DEF RunInv

-----------------------------------------------------------------------------
(* A worker leaves its run or goes on to the last error exit.              *)
LEMMA HandExit ==
    ASSUME NEW pc, NEW p, NEW k, Hand(pc, p, k), pc \in ExecutePc,
           pStatus'[p] \in {pStatus[p], "failed"} \/ pStatus'[p] = "succeeded"
    PROVE  Hand("deferFail", p, k)'
  BY PcClasses DEF Hand, HandRun, HandFirst, HandOthers, HandRow, HandTask

(* A worker goes on with the stage in hand, whose row it has not written.  *)
LEMMA HandSilent ==
    ASSUME NEW pc \in LoopPc, NEW next, NEW p, NEW k \in Stages, Hand(pc, p, k),
           \/ pc = "check" /\ next = "mark"
           \/ pc \in BusyPc /\ next \in BusyPc,
           next \in QuietPc => task[p][k] # "active",
           pStatus'[p] = pStatus[p], curStage'[p] = curStage[p], sStatus'[p] = sStatus[p],
           TasksLeave(p)
    PROVE  Hand(next, p, k)'
<1>1. /\ pc \in ExecutePc /\ next \in ExecutePc /\ next \in LoopPc
      /\ next \notin {"load", "deferFail", "finish"} /\ pc # "deferFail"
      /\ \/ pc \in FreshPc /\ next \in FreshPc /\ next \notin BusyPc \cup DonePc
         \/ pc \in BusyPc /\ next \in BusyPc /\ next \notin FreshPc \cup DonePc
  <2>1. CASE pc = "check" /\ next = "mark"
    BY <2>1, PcClasses DEF FreshPc
  <2>2. CASE pc \in BusyPc /\ next \in BusyPc
    BY <2>2, PcClasses
  <2> QED
    BY <2>1, <2>2
<1>2. HandRun(next, p)'
  BY <1>1 DEF Hand, HandRun
<1>3. HandFirst(next, p, k)'
  BY <1>1 DEF HandFirst
<1>4. HandOthers(next, p, k)'
  BY <1>1 DEF Hand, HandOthers, TasksLeave
<1>5. HandRow(next, p, k)'
  BY <1>1 DEF Hand, HandRow
<1>6. HandTask(next, p, k)'
  BY <1>1 DEF Hand, HandTask, TasksLeave
<1> QED
  BY <1>2, <1>3, <1>4, <1>5, <1>6 DEF Hand

(* A worker writes the row of the stage in hand.                           *)
LEMMA HandWritten ==
    ASSUME TypeInv, NEW pc \in {"mark"} \cup BusyPc, NEW next \in BusyPc \cup DonePc,
           NEW p \in Runs, NEW k \in Stages, Hand(pc, p, k),
           NEW st, st \in IF next \in DonePc THEN {"succeeded"} ELSE {"running", "failed"},
           next \in QuietPc => task[p][k] # "active",
           next = "finish" => k = NumStages,
           sStatus'[p] = [sStatus[p] EXCEPT ![k] = st],
           pStatus'[p] = pStatus[p], curStage'[p] = curStage[p], task'[p] = task[p]
    PROVE  Hand(next, p, k)'
<1>1. /\ pc \in ExecutePc /\ pc \in LoopPc /\ next \in ExecutePc /\ next \in LoopPc
      /\ next \notin {"load", "deferFail"} /\ pc # "deferFail"
  BY PcClasses DEF FreshPc
<1>2. /\ sStatus'[p][k] = st
      /\ \A s \in Stages : s # k => sStatus'[p][s] = sStatus[p][s]
  BY DEF TypeInv, StoreTypeOK
<1>3. k \in Int /\ \A s \in Stages : s \in Int
  BY StoreAssumption DEF Stages
<1>4. HandRun(next, p)'
  BY <1>1 DEF Hand, HandRun
<1>5. HandFirst(next, p, k)'
  BY <1>1 DEF HandFirst
<1>6. HandOthers(next, p, k)'
  BY <1>1, <1>2, <1>3 DEF Hand, HandOthers
<1>7. HandRow(next, p, k)'
  BY <1>1, <1>2, PcClasses DEF HandRow
<1>8. HandTask(next, p, k)'
  BY DEF HandTask
<1> QED
  BY <1>4, <1>5, <1>6, <1>7, <1>8 DEF Hand

(* A worker's step that writes no row.                                     *)
LEMMA SilentStep ==
    ASSUME TypeInv, SafeInv, NEW w \in Workers, wPc[w] \in ExecutePc,
           UNCHANGED <<runRow, stageRow, callVars>>,
           UNCHANGED task \/ RemoveTask(wRun[w], wStage[w]),
           \/ WorkerDone(w)
           \/ WorkerGo(w, "deferFail")
           \/ wPc[w] = "check" /\ WorkerGo(w, "mark")
           \/ \E next \in BusyPc :
                  /\ wPc[w] \in BusyPc /\ WorkerGo(w, next)
                  /\ next \in QuietPc => task[wRun[w]][wStage[w]] # "active"
    PROVE  SafeInv'
<1>1. PICK p \in Runs, k \in Stages, pc \in ExecutePc : p = wRun[w] /\ k = wStage[w] /\ pc = wPc[w]
  BY PcClasses DEF TypeInv, GoroutineInv, ExecutorTypeOK, WorkersHoldRuns
<1>2. RunInv(p) /\ HandInv(w) /\ Hand(pc, p, k)
  BY <1>1 DEF SafeInv, HandInv
<1>3. TasksLeave(p) /\ \A q \in Runs \ {p} : RowKept(q)
  BY <1>1, RemoveEffect DEF RowKept, runRow, stageRow
<1>4. pStatus'[p] = pStatus[p] /\ curStage'[p] = curStage[p] /\ sStatus'[p] = sStatus[p]
  BY DEF runRow, stageRow
<1>5. RunInv(p)' /\ Onward(p)
  BY <1>2, <1>3, <1>4, RemoveRunInv DEF Onward, Untouched
<1>6. CASE WorkerDone(w)
  <2>1. /\ wPc'[w] = "idle" /\ wStage'[w] = 1
        /\ \A v \in Workers \ {w} : LocalsKept(v)
    BY <1>6, DoneEffect
  <2>2. HandInv(w)'
    BY <2>1, HandIdle, HandMoved
  <2> QED
    BY <1>1, <1>3, <1>5, <2>1, <2>2, WorkerStepSafe, PcClasses
<1>7. ASSUME NEW next, WorkerGo(w, next), Hand(next, p, k)'
      PROVE  SafeInv'
  <2>1. /\ wPc'[w] = next /\ wRun'[w] = p /\ wStage'[w] = k
        /\ \A v \in Workers \ {w} : LocalsKept(v)
    BY <1>1, <1>7, GoEffect
  <2>2. HandInv(w)'
    BY <1>7, <2>1, HandMoved
  <2> QED
    BY <1>1, <1>3, <1>5, <2>1, <2>2, WorkerStepSafe
<1>8. CASE WorkerGo(w, "deferFail")
  BY <1>2, <1>4, <1>7, <1>8, HandExit
<1>9. CASE wPc[w] = "check" /\ WorkerGo(w, "mark")
  <2>1. pc \in LoopPc /\ ("mark" \in QuietPc => task[p][k] # "active")
    BY <1>1, <1>2, <1>9, PcClasses DEF FreshPc, Hand, HandTask
  <2>2. Hand("mark", p, k)'
    BY <1>1, <1>2, <1>3, <1>4, <1>9, <2>1, HandSilent
  <2> QED
    BY <1>7, <1>9, <2>2
<1>10. CASE \E next \in BusyPc :
               /\ wPc[w] \in BusyPc /\ WorkerGo(w, next)
               /\ next \in QuietPc => task[wRun[w]][wStage[w]] # "active"
  <2>1. PICK next \in BusyPc : /\ WorkerGo(w, next) /\ pc \in BusyPc
                               /\ next \in QuietPc => task[p][k] # "active"
    BY <1>1, <1>10
  <2>2. Hand(next, p, k)'
    BY <1>2, <1>3, <1>4, <2>1, HandSilent, PcClasses
  <2> QED
    BY <1>7, <2>1, <2>2
<1> QED
  BY <1>6, <1>8, <1>9, <1>10

(* A worker's step that writes the row of its stage, or tries to.          *)
LEMMA WriteStep ==
    ASSUME TypeInv, SafeInv, NEW w \in Workers, wPc[w] \in {"mark"} \cup BusyPc,
           UNCHANGED callVars,
           NEW okPc \in BusyPc \cup DonePc, NEW errPc \in BusyPc \cup {"deferFail"},
           errPc \in BusyPc => wPc[w] \in BusyPc /\ okPc \in BusyPc /\ errPc \notin QuietPc,
           okPc \in QuietPc \cap BusyPc => task[wRun[w]][wStage[w]] # "active",
           okPc \in DonePc => wPc[w] = "saveStage",
           okPc = "finish" => wStage[w] = NumStages,
           NEW st, st \in IF okPc \in DonePc THEN {"succeeded"} ELSE {"running", "failed"},
           WriteStage(w, st, okPc, errPc)
    PROVE  SafeInv'
<1>1. PICK p \in Runs, k \in Stages, pc \in {"mark"} \cup BusyPc :
          p = wRun[w] /\ k = wStage[w] /\ pc = wPc[w]
  BY PcClasses DEF TypeInv, GoroutineInv, ExecutorTypeOK, WorkersHoldRuns, FreshPc
<1>2. RunInv(p) /\ HandInv(w) /\ Hand(pc, p, k) /\ pc \in LoopPc /\ pc \in ExecutePc
  BY <1>1, PcClasses DEF SafeInv, HandInv, FreshPc
<1>3. UNCHANGED <<runRow, task>>
  BY DEF WriteStage
<1>4. okPc \in QuietPc => task[p][k] # "active"
  BY <1>1, <1>2, PcClasses DEF Hand, HandTask, QuietPc
<1>5. CASE UNCHANGED stageRow /\ WorkerGo(w, errPc)
  BY <1>1, <1>2, <1>3, <1>5, SilentStep
<1>6. CASE UpdateStage(p, k, st, wCont[w]) /\ (WorkerGo(w, okPc) \/ WorkerGo(w, errPc))
  <2>1. /\ sStatus'[p] = [sStatus[p] EXCEPT ![k] = st]
        /\ \A q \in Runs \ {p} : sStatus'[q] = sStatus[q]
    BY <1>6, StageEffect
  <2>2. /\ pStatus'[p] = pStatus[p] /\ curStage'[p] = curStage[p] /\ task'[p] = task[p]
        /\ \A q \in Runs \ {p} : RowKept(q)
    BY <1>3, <2>1 DEF RowKept, runRow
  <2>3. /\ pStatus[p] \notin Unstarted /\ st \in {"running", "succeeded", "failed", "canceled"}
        /\ \A t \in Stages : t < k => sStatus[p][t] = "succeeded"
        /\ sStatus[p][k] # "succeeded" /\ k = curStage[p]
    BY <1>2, PcClasses DEF Hand, HandRun, HandOthers, HandRow, Unstarted, FreshPc
  <2>4. RunInv(p)' /\ Onward(p)
    BY <1>2, <2>1, <2>2, <2>3, StageWritten
  <2>5. PICK next \in {okPc, errPc} : WorkerGo(w, next)
    BY <1>6
  <2>6. Hand(next, p, k)'
    <3>1. CASE next = "deferFail"
      BY <1>2, <2>2, <3>1, HandExit
    <3>2. CASE next # "deferFail"
      <4>1. /\ next \in BusyPc \cup DonePc
            /\ st \in IF next \in DonePc THEN {"succeeded"} ELSE {"running", "failed"}
            /\ next \in QuietPc => task[p][k] # "active"
            /\ next = "finish" => k = NumStages
        BY <1>1, <1>4, <2>5, <3>2, PcClasses
      <4> QED
        BY <1>2, <2>1, <2>2, <4>1, HandWritten
    <3> QED
      BY <3>1, <3>2
  <2>7. /\ wPc'[w] = next /\ wRun'[w] = p /\ wStage'[w] = k
        /\ \A v \in Workers \ {w} : LocalsKept(v)
    BY <1>1, <2>5, GoEffect
  <2>8. HandInv(w)'
    BY <2>6, <2>7, HandMoved
  <2> QED
    BY <1>1, <1>2, <2>2, <2>4, <2>7, <2>8, WorkerStepSafe
<1> QED
  BY <1>1, <1>5, <1>6 DEF WriteStage

(* A worker's step on the run's own row, or the launch of its container:   *)
(* it goes on to next with stage k, or leaves the run.                     *)
LEMMA RowStep ==
    ASSUME TypeInv, SafeInv, NEW w \in Workers, NEW p \in Runs, p = wRun[w],
           wPc[w] \in ExecutePc \/ pStatus[p] = "scheduled",
           UNCHANGED callVars,
           \A q \in Runs \ {p} : RowKept(q),
           RunInv(p)', Onward(p),
           \A v \in Workers \ {w} : LocalsKept(v),
           NEW next, NEW k, wPc'[w] = next, wStage'[w] = k,
           \/ wRun'[w] = p /\ Hand(next, p, k)'
           \/ next = "idle" /\ k = 1
    PROVE  SafeInv'
<1>1. CASE wRun'[w] = p /\ Hand(next, p, k)'
  <2>1. HandInv(w)'
    BY <1>1, HandMoved
  <2> QED
    BY <1>1, <2>1, WorkerStepSafe
<1>2. CASE next = "idle" /\ k = 1
  <2>1. HandInv(w)'
    BY <1>2, HandMoved, HandIdle
  <2> QED
    BY <1>2, <2>1, WorkerStepSafe, PcClasses
<1> QED
  BY <1>1, <1>2

(* A write to the run's row leaves the other runs alone, and the stages.   *)
LEMMA RowEffect ==
    ASSUME NEW p \in Runs, UNCHANGED <<stageRow, task>>,
           \A q \in Runs \ {p} : pStatus'[q] = pStatus[q] /\ curStage'[q] = curStage[q],
           pStatus'[p] \in Unstarted => pStatus[p] \in Unstarted
    PROVE  Onward(p) /\ \A q \in Runs \ {p} : RowKept(q)
  BY DEF RowKept, Onward, Untouched, stageRow

LEMMA ClaimSafe ==
    ASSUME TypeInv, SafeInv, NEW w \in Workers, Claim(w)
    PROVE  SafeInv'
<1>1. PICK p \in Runs : p = wRun[w]
  BY DEF TypeInv, GoroutineInv, WorkersHoldRuns, Claim
<1>2. RunInv(p) /\ wStage[w] = 1
  BY PcClasses DEF SafeInv, HandInv, Hand, HandFirst, Claim, ExecutePc
<1>3. UNCHANGED <<stageRow, task, callVars>>
  BY DEF Claim, gcsVars
<1>4. CASE Transition(p, "scheduled", "running") /\ (WorkerGo(w, "load") \/ WorkerDone(w))
  <2>1. /\ pStatus[p] = "scheduled" /\ pStatus'[p] = "running" /\ curStage'[p] = 1
        /\ \A q \in Runs \ {p} : pStatus'[q] = pStatus[q] /\ curStage'[q] = curStage[q]
    BY <1>4 DEF Transition, TypeInv, StoreTypeOK
  <2>2. \A s \in Stages : Untouched(p, s) /\ task[p][s] = "none"
    BY <1>2, <2>1 DEF RunInv, NotBegun, Unstarted
  <2>3. NotBegun(p)' /\ Complete(p)'
    BY <2>1 DEF NotBegun, Complete, Unstarted
  <2>4. Ordered(p)' /\ OneActive(p)'
    BY <1>3, <2>2 DEF Ordered, OneActive, Untouched, stageRow
  <2>5. \A s \in Stages : ~(s < 1)
    BY StoreAssumption DEF Stages
  <2>6. Counted(p)'
    BY <1>3, <2>1, <2>2, <2>5 DEF Counted, Untouched, stageRow
  <2>7. RunInv(p)'
    BY <2>3, <2>4, <2>6 DEF RunInv
  <2>10. Onward(p) /\ \A q \in Runs \ {p} : RowKept(q)
    BY <1>3, <2>1, RowEffect DEF Unstarted
  <2>8. CASE WorkerGo(w, "load")
    <3>1. Hand("load", p, 1)'
      BY <1>3, <2>1, <2>2, PcClasses
      DEF Hand, HandRun, HandFirst, HandOthers, HandRow, HandTask, Untouched, stageRow
    <3>2. /\ wPc'[w] = "load" /\ wStage'[w] = 1 /\ wRun'[w] = p
          /\ \A v \in Workers \ {w} : LocalsKept(v)
      BY <1>1, <1>2, <2>8, GoEffect
    <3> QED
      BY <1>1, <1>3, <2>1, <2>7, <2>10, <3>1, <3>2, RowStep
  <2>9. CASE WorkerDone(w)
    BY <1>1, <1>3, <2>1, <2>7, <2>9, <2>10, DoneEffect, RowStep
  <2> QED
    BY <1>4, <2>8, <2>9
<1>5. CASE UNCHANGED runRow /\ WorkerDone(w)
  <2>1. /\ \A q \in Runs : RowKept(q)
        /\ \A v \in Workers \ {w} : LocalsKept(v)
        /\ wPc'[w] = "idle" /\ wStage'[w] = 1
    BY <1>3, <1>5, DoneEffect DEF RowKept, runRow, stageRow
  <2>2. HandInv(w)'
    BY <2>1, HandIdle, HandMoved
  <2> QED
    BY <1>3, <2>1, <2>2, IdleStepSafe, PcClasses
<1> QED
  BY <1>1, <1>4, <1>5 DEF Claim

LEMMA LoadSafe ==
    ASSUME TypeInv, SafeInv, NEW w \in Workers, Load(w)
    PROVE  SafeInv'
<1>1. wPc[w] = "load" /\ UNCHANGED <<runRow, stageRow, task, callVars>>
  BY DEF Load, gcsVars
<1>2. CASE WorkerGo(w, "deferFail")
  BY <1>1, <1>2, SilentStep, PcClasses
<1>3. CASE StagesReady(wRun[w]) /\ WorkerGo(w, "check")
  <2>1. PICK p \in Runs : p = wRun[w]
    BY <1>1 DEF TypeInv, GoroutineInv, WorkersHoldRuns
  <2>2. RunInv(p) /\ Hand("load", p, 1) /\ wStage[w] = 1
    BY <1>1, <2>1, PcClasses DEF SafeInv, HandInv, Hand, HandFirst
  <2>3. (\A q \in Runs : RowKept(q)) /\ RunInv(p)'
    BY <1>1, <2>2, RunKept DEF RowKept, runRow, stageRow
  <2>4. Hand("check", p, 1)'
    <3>1. /\ curStage'[p] = 1 /\ pStatus'[p] \in {"running", "failed", "canceled"}
          /\ \A s \in Stages : sStatus'[p][s] = "pending" /\ task'[p][s] = "none"
      BY <1>3, <2>1, <2>2, <2>3, PcClasses DEF StagesReady, RowKept, Hand, HandRun, HandFirst
    <3>2. 1 \in Stages /\ \A s \in Stages : ~(s < 1)
      BY StoreAssumption DEF Stages
    <3>3. "check" \in FreshPc
      BY DEF FreshPc
    <3> QED
      BY <3>1, <3>2, <3>3, PcClasses DEF Hand, HandRun, HandFirst, HandOthers, HandRow, HandTask
  <2>5. /\ wPc'[w] = "check" /\ wStage'[w] = 1 /\ wRun'[w] = p
        /\ \A v \in Workers \ {w} : LocalsKept(v)
    BY <1>3, <2>1, <2>2, GoEffect
  <2> QED
    BY <1>1, <2>1, <2>3, <2>4, <2>5, RowStep, KeptOnward, PcClasses
<1> QED
  BY <1>2, <1>3 DEF Load

LEMMA LaunchSafe ==
    ASSUME TypeInv, SafeInv, NEW w \in Workers, Launch(w)
    PROVE  SafeInv'
<1>1. PICK p \in Runs, k \in Stages : p = wRun[w] /\ k = wStage[w]
  BY DEF TypeInv, GoroutineInv, ExecutorTypeOK, WorkersHoldRuns, Launch
<1>2. /\ wPc[w] = "execute" /\ "execute" \in BusyPc /\ "execute" \in QuietPc
      /\ UNCHANGED <<runRow, stageRow, callVars>>
  BY DEF Launch, BusyPc, QuietPc, storeVars, runRow, stageRow
<1>3. RunInv(p) /\ Hand("execute", p, k)
  BY <1>1, <1>2 DEF SafeInv, HandInv
<1>4. CASE WorkerGo(w, "ranErr") /\ UNCHANGED task
  <2>1. "ranErr" \in BusyPc \ QuietPc
    BY DEF BusyPc, QuietPc, FreshPc, DonePc
  <2> QED
    BY <1>2, <1>4, <2>1, SilentStep, PcClasses
<1>5. ASSUME CreateTask(p, k), NEW next \in {"record", "ranErr"},
             wPc' = [wPc EXCEPT ![w] = next], UNCHANGED <<wRun, wStage>>
      PROVE  SafeInv'
  <2>1. /\ next \in BusyPc \ QuietPc /\ next \notin {"deferFail", "load", "finish"}
        /\ next \in LoopPc /\ next \in ExecutePc
    BY <1>5, PcClasses DEF BusyPc, QuietPc, FreshPc, DonePc
  <2>2. /\ wPc'[w] = next /\ wRun'[w] = p /\ wStage'[w] = k
        /\ \A v \in Workers \ {w} : LocalsKept(v)
    BY <1>1, <1>5 DEF TypeInv, GoroutineInv, ExecutorTypeOK, LocalsKept
  <2>3. /\ task'[p][k] = "active" /\ \A s \in Stages \ {k} : task'[p][s] = task[p][s]
        /\ \A q \in Runs \ {p} : task'[q] = task[q]
    BY <1>5 DEF CreateTask, TypeInv, GcsTypeOK
  <2>4. \A s \in Stages \ {k} : task[p][s] # "active"
    <3>1. k \in Int /\ \A s \in Stages : s \in Int
      BY StoreAssumption DEF Stages
    <3> QED
      BY <1>2, <1>3, <3>1, PcClasses DEF Hand, HandOthers
  <2>5. /\ pStatus[p] \in {"running", "failed", "canceled"} /\ curStage[p] = k
        /\ sStatus[p][k] \in {"running", "failed", "canceled"}
    BY <1>2, <1>3, PcClasses DEF Hand, HandRun, HandOthers, HandRow
  <2>6. RunInv(p)'
    <3>1. NotBegun(p)' /\ Complete(p)'
      BY <1>2, <2>5 DEF NotBegun, Complete, Unstarted, runRow
    <3>2. Ordered(p)' /\ Counted(p)'
      BY <1>2, <1>3 DEF RunInv, Ordered, Counted, Untouched, runRow, stageRow
    <3>3. OneActive(p)'
      BY <2>3, <2>4 DEF OneActive
    <3> QED
      BY <3>1, <3>2, <3>3 DEF RunInv
  <2>7. Hand(next, p, k)'
    <3>1. HandRun(next, p)' /\ HandFirst(next, p, k)'
      BY <1>2, <2>1, <2>5 DEF HandRun, HandFirst, runRow
    <3>2. HandOthers(next, p, k)'
      <4>1. \A s \in Stages : s < k \/ s > k => s # k
        BY StoreAssumption DEF Stages
      <4> QED
        BY <1>2, <1>3, <2>1, <2>3, <4>1, PcClasses DEF Hand, HandOthers, runRow, stageRow
    <3>3. HandRow(next, p, k)' /\ HandTask(next, p, k)'
      BY <1>2, <2>1, <2>5, PcClasses DEF HandRow, HandTask, stageRow
    <3> QED
      BY <3>1, <3>2, <3>3 DEF Hand
  <2> QED
    <3>1. (\A q \in Runs \ {p} : RowKept(q)) /\ Onward(p)
      BY <1>2, <2>3 DEF RowKept, Onward, Untouched, runRow, stageRow
    <3> QED
      BY <1>1, <1>2, <2>2, <2>6, <2>7, <3>1, RowStep, PcClasses
<1> QED
  BY <1>1, <1>4, <1>5 DEF Launch, gcsVars, WorkerGo

(* The worker's copy of the run's row is written while the run is open, so *)
(* the run is running; the last stage behind it, it may succeed.           *)
LEMMA AdvanceSafe ==
    ASSUME TypeInv, SafeInv, NEW w \in Workers, Advance(w)
    PROVE  SafeInv'
<1>1. PICK p \in Runs, k \in Stages : p = wRun[w] /\ k = wStage[w] /\ k < NumStages
  BY DEF TypeInv, GoroutineInv, ExecutorTypeOK, WorkersHoldRuns, Advance
<1>2. wPc[w] = "advance" /\ "advance" \in DonePc
  BY DEF Advance, DonePc
<1>3. RunInv(p) /\ Hand("advance", p, k)
  BY <1>1, <1>2 DEF SafeInv, HandInv
<1>4. UNCHANGED <<stageRow, task, callVars>>
  BY DEF Advance, WriteRun, WriteRunFails, gcsVars
<1>5. CASE UNCHANGED runRow /\ WorkerGo(w, "deferFail")
  BY <1>2, <1>4, <1>5, SilentStep, PcClasses
<1>6. k \in Int /\ k + 1 \in Stages /\ NumStages \in Int /\ \A s \in Stages : s \in Int
  BY <1>1, StoreAssumption DEF Stages
<1>7. ASSUME UpdateRun(p, "running", k + 1)
      PROVE  /\ pStatus'[p] = "running" /\ curStage'[p] = k + 1 /\ RunInv(p)'
             /\ \A q \in Runs \ {p} : pStatus'[q] = pStatus[q] /\ curStage'[q] = curStage[q]
  <2>1. /\ pStatus'[p] = "running" /\ curStage'[p] = k + 1
        /\ \A q \in Runs \ {p} : pStatus'[q] = pStatus[q] /\ curStage'[q] = curStage[q]
    BY <1>7 DEF UpdateRun, TypeInv, StoreTypeOK
  <2>2. \A s \in Stages : /\ s <= k => sStatus[p][s] = "succeeded"
                          /\ s > k => sStatus[p][s] = "pending"
    BY <1>2, <1>3, <1>6, PcClasses DEF Hand, HandOthers, HandRow
  <2>3. NotBegun(p)' /\ Complete(p)'
    BY <2>1 DEF NotBegun, Complete, Unstarted
  <2>4. Ordered(p)' /\ OneActive(p)'
    BY <1>3, <1>4 DEF RunInv, Ordered, OneActive, Untouched, stageRow
  <2>5. Counted(p)'
    <3>1. \A s \in Stages : /\ s <= k \/ s > k
                            /\ s <= k => s <= k + 1
                            /\ s < k + 1 => s <= k
      BY <1>6
    <3>2. \A s \in Stages : sStatus'[p][s] = "succeeded" => s <= k + 1
      BY <1>4, <2>2, <3>1 DEF stageRow
    <3>3. \A s \in Stages : s < k + 1 => sStatus'[p][s] = "succeeded"
      BY <1>4, <2>2, <3>1 DEF stageRow
    <3> QED
      BY <2>1, <3>2, <3>3 DEF Counted
  <2> QED
    BY <2>1, <2>3, <2>4, <2>5 DEF RunInv
<1>8. CASE UpdateRun(p, "running", k + 1) /\ WorkerGo(w, "deferFail")
  <2>1. Hand("deferFail", p, k)'
    BY <1>7, <1>8, PcClasses DEF Hand, HandRun, HandFirst, HandOthers, HandRow, HandTask
  <2>2. /\ wPc'[w] = "deferFail" /\ wStage'[w] = k /\ wRun'[w] = p
        /\ \A v \in Workers \ {w} : LocalsKept(v)
    BY <1>1, <1>8, GoEffect
  <2>3. Onward(p) /\ \A q \in Runs \ {p} : RowKept(q)
    BY <1>4, <1>7, <1>8, RowEffect DEF Unstarted
  <2> QED
    BY <1>1, <1>2, <1>4, <1>7, <1>8, <2>1, <2>2, <2>3, RowStep, PcClasses
<1>9. CASE /\ UpdateRun(p, "running", k + 1)
           /\ wPc' = [wPc EXCEPT ![w] = "check"]
           /\ wStage' = [wStage EXCEPT ![w] = @ + 1]
           /\ UNCHANGED wRun
  <2>1. /\ wPc'[w] = "check" /\ wRun'[w] = p /\ wStage'[w] = k + 1
        /\ \A v \in Workers \ {w} : LocalsKept(v)
    BY <1>1, <1>9 DEF TypeInv, GoroutineInv, ExecutorTypeOK, LocalsKept
  <2>2. "check" \in FreshPc
    BY DEF FreshPc
  <2>3. HandRun("check", p)' /\ HandFirst("check", p, k + 1)'
    BY <1>7, <1>9, <2>2, PcClasses DEF HandRun, HandFirst
  <2>4. \A s \in Stages : /\ s <= k => sStatus[p][s] = "succeeded" /\ task[p][s] # "active"
                          /\ s > k => sStatus[p][s] = "pending" /\ task[p][s] = "none"
    BY <1>2, <1>3, <1>6, PcClasses DEF Hand, HandOthers, HandRow, HandTask
  <2>5. HandOthers("check", p, k + 1)'
    <3>1. \A s \in Stages : (s < k + 1 => s <= k) /\ (s > k + 1 => s > k)
      BY <1>6
    <3>2. sStatus'[p] = sStatus[p] /\ task'[p] = task[p] /\ curStage'[p] = k + 1
      BY <1>4, <1>7, <1>9 DEF stageRow
    <3>3. \A s \in Stages : s < k + 1 => sStatus'[p][s] = "succeeded"
      BY <2>4, <3>1, <3>2
    <3>4. \A s \in Stages : s < k + 1 => task'[p][s] # "active"
      BY <2>4, <3>1, <3>2
    <3>5. \A s \in Stages : s > k + 1 => sStatus'[p][s] = "pending"
      BY <2>4, <3>1, <3>2
    <3>6. \A s \in Stages : s > k + 1 => task'[p][s] = "none"
      BY <2>4, <3>1, <3>2
    <3> QED
      BY <3>2, <3>3, <3>4, <3>5, <3>6 DEF HandOthers
  <2>6. HandRow("check", p, k + 1)' /\ HandTask("check", p, k + 1)'
    BY <1>4, <1>6, <2>2, <2>4, PcClasses DEF HandRow, HandTask, stageRow
  <2>7. Hand("check", p, k + 1)'
    BY <2>3, <2>5, <2>6 DEF Hand
  <2>8. Onward(p) /\ \A q \in Runs \ {p} : RowKept(q)
    BY <1>4, <1>7, <1>9, RowEffect DEF Unstarted
  <2> QED
    BY <1>1, <1>2, <1>4, <1>7, <1>9, <2>1, <2>7, <2>8, RowStep, PcClasses
<1> QED
  BY <1>1, <1>5, <1>8, <1>9 DEF Advance, WriteRun, WriteRunFails

LEMMA FinishSafe ==
    ASSUME TypeInv, SafeInv, NEW w \in Workers, Finish(w)
    PROVE  SafeInv'
<1>1. PICK p \in Runs, k \in Stages : p = wRun[w] /\ k = wStage[w]
  BY DEF TypeInv, GoroutineInv, ExecutorTypeOK, WorkersHoldRuns, Finish
<1>2. wPc[w] = "finish" /\ "finish" \in DonePc
  BY DEF Finish, DonePc
<1>3. RunInv(p) /\ Hand("finish", p, k)
  BY <1>1, <1>2 DEF SafeInv, HandInv
<1>4. UNCHANGED <<stageRow, task, callVars>>
  BY DEF Finish, WriteRun, WriteRunFails, gcsVars
<1>5. CASE UNCHANGED runRow /\ WorkerGo(w, "deferFail")
  BY <1>2, <1>4, <1>5, SilentStep, PcClasses
<1>6. CASE UpdateRun(p, "succeeded", k) /\ (WorkerDone(w) \/ WorkerGo(w, "deferFail"))
  <2>1. /\ pStatus'[p] = "succeeded" /\ curStage'[p] = k
        /\ \A q \in Runs \ {p} : pStatus'[q] = pStatus[q] /\ curStage'[q] = curStage[q]
    BY <1>6 DEF UpdateRun, TypeInv, StoreTypeOK
  <2>2. curStage[p] = k /\ \A s \in Stages : sStatus[p][s] = "succeeded"
    <3>1. k = NumStages /\ \A s \in Stages : s \in Int /\ s <= k
      BY <1>3, StoreAssumption DEF Hand, HandRow, Stages
    <3> QED
      BY <1>2, <1>3, <3>1, StoreAssumption, PcClasses DEF Hand, HandOthers, HandRow
  <2>3. NotBegun(p)' /\ Complete(p)'
    BY <1>4, <2>1, <2>2 DEF NotBegun, Complete, Unstarted, stageRow
  <2>4. Ordered(p)' /\ Counted(p)' /\ OneActive(p)'
    BY <1>3, <1>4, <2>1, <2>2 DEF RunInv, Ordered, Counted, OneActive, Untouched, stageRow
  <2>5. RunInv(p)'
    BY <2>3, <2>4 DEF RunInv
  <2>6. Onward(p) /\ \A q \in Runs \ {p} : RowKept(q)
    BY <1>4, <2>1, RowEffect DEF Unstarted
  <2>7. CASE WorkerDone(w)
    BY <1>1, <1>2, <1>4, <2>5, <2>6, <2>7, DoneEffect, RowStep, PcClasses
  <2>8. CASE WorkerGo(w, "deferFail")
    <3>1. Hand("deferFail", p, k)'
      BY <2>1, PcClasses DEF Hand, HandRun, HandFirst, HandOthers, HandRow, HandTask
    <3>2. /\ wPc'[w] = "deferFail" /\ wStage'[w] = k /\ wRun'[w] = p
          /\ \A v \in Workers \ {w} : LocalsKept(v)
      BY <1>1, <2>8, GoEffect
    <3> QED
      BY <1>1, <1>2, <1>4, <2>5, <2>6, <3>1, <3>2, RowStep, PcClasses
  <2> QED
    BY <1>6, <2>7, <2>8
<1> QED
  BY <1>1, <1>5, <1>6 DEF Finish, WriteRun, WriteRunFails

(* A status written to an open run that was started, whoever writes it.    *)
LEMMA FailRunInv ==
    ASSUME TypeInv, NEW p \in Runs, RunInv(p), pStatus[p] \notin Unstarted,
           UpdateStatus(p, "failed"), UNCHANGED <<stageRow, task>>
    PROVE  /\ RunInv(p)' /\ pStatus'[p] = "failed" /\ curStage'[p] = curStage[p]
           /\ Onward(p) /\ \A q \in Runs \ {p} : RowKept(q)
<1>1. /\ pStatus'[p] = "failed" /\ \A q \in Runs \ {p} : pStatus'[q] = pStatus[q]
      /\ UNCHANGED curStage
  BY DEF UpdateStatus, TypeInv, StoreTypeOK
<1>2. NotBegun(p)' /\ Complete(p)'
  BY <1>1 DEF NotBegun, Complete, Unstarted
<1>3. Ordered(p)' /\ Counted(p)' /\ OneActive(p)'
  BY <1>1 DEF RunInv, Ordered, Counted, OneActive, Untouched, stageRow
<1>4. Onward(p) /\ \A q \in Runs \ {p} : RowKept(q)
  BY <1>1, RowEffect DEF Unstarted
<1> QED
  BY <1>1, <1>2, <1>3, <1>4 DEF RunInv

LEMMA FailRunSafe ==
    ASSUME TypeInv, SafeInv, NEW w \in Workers, FailRun(w)
    PROVE  SafeInv'
<1>1. PICK p \in Runs, k \in Stages, pc \in {"failRun", "deferFail"} :
          p = wRun[w] /\ k = wStage[w] /\ pc = wPc[w]
  BY DEF TypeInv, GoroutineInv, ExecutorTypeOK, WorkersHoldRuns, FailRun
<1>2. pc \in ExecutePc
  BY DEF ExecutePc
<1>3. RunInv(p) /\ Hand(pc, p, k)
  BY <1>1 DEF SafeInv, HandInv
<1>4. UNCHANGED <<stageRow, task, callVars>>
  BY DEF FailRun, FailPipeline, gcsVars
<1>5. WorkerGo(w, "deferFail") \/ WorkerDone(w)
  BY DEF FailRun
<1>6. CASE UNCHANGED runRow
  BY <1>1, <1>2, <1>4, <1>5, <1>6, SilentStep
<1>7. CASE UpdateStatus(p, "failed")
  <2>1. pStatus[p] \notin Unstarted
    BY <1>2, <1>3 DEF Hand, HandRun, Unstarted
  <2>2. /\ RunInv(p)' /\ pStatus'[p] = "failed"
        /\ Onward(p) /\ \A q \in Runs \ {p} : RowKept(q)
    BY <1>3, <1>4, <1>7, <2>1, FailRunInv
  <2>3. CASE WorkerGo(w, "deferFail")
    <3>1. Hand("deferFail", p, k)'
      BY <1>2, <1>3, <2>2, HandExit
    <3>2. /\ wPc'[w] = "deferFail" /\ wStage'[w] = k /\ wRun'[w] = p
          /\ \A v \in Workers \ {w} : LocalsKept(v)
      BY <1>1, <2>3, GoEffect
    <3> QED
      BY <1>1, <1>2, <1>4, <2>2, <3>1, <3>2, RowStep
  <2>4. CASE WorkerDone(w)
    BY <1>1, <1>2, <1>4, <2>2, <2>4, DoneEffect, RowStep
  <2> QED
    BY <1>5, <2>3, <2>4
<1> QED
  BY <1>1, <1>6, <1>7 DEF FailRun, FailPipeline

LEMMA DequeueSafe ==
    ASSUME TypeInv, SafeInv, NEW w \in Workers, Dequeue(w)
    PROVE  SafeInv'
<1>1. /\ \A q \in Runs : RowKept(q)
      /\ \A v \in Workers \ {w} : LocalsKept(v)
      /\ wPc[w] = "idle" /\ wPc'[w] = "claim" /\ wStage'[w] = wStage[w] /\ UNCHANGED callVars
  BY DEF Dequeue, RowKept, LocalsKept, storeVars, gcsVars, TypeInv, GoroutineInv, ExecutorTypeOK
<1>2. wStage[w] = 1
  BY <1>1, PcClasses DEF SafeInv, HandInv, Hand, HandFirst
<1>3. HandInv(w)'
  BY <1>1, <1>2, HandIdle, HandMoved
<1> QED
  BY <1>1, <1>3, IdleStepSafe, PcClasses

(* The container of the stage in hand does not run while the worker is at  *)
(* a quiet step.                                                           *)
LEMMA QuietHand ==
    ASSUME SafeInv, NEW w \in Workers, wPc[w] \in QuietPc
    PROVE  task[wRun[w]][wStage[w]] # "active"
  BY DEF SafeInv, HandInv, Hand, HandTask

(* The steps inside ExecuteStage.                                          *)
LEMMA ContainerStepSafe ==
    ASSUME TypeInv, SafeInv, NEW w \in Workers,
           \/ RunController(w) \/ Record(w) \/ Abandon(w) \/ WaitTick(w) \/ Poll(w)
           \/ StopTask(w) \/ Release(w)
    PROVE  SafeInv'
<1>0. /\ {"execute", "record", "wait", "poll", "abandon", "stop", "releaseOk", "releaseErr",
          "ranOk", "ranErr"} \subseteq BusyPc
      /\ {"execute", "releaseOk", "ranOk"} \subseteq QuietPc
      /\ \A pc \in {"record", "wait", "poll", "abandon", "stop", "releaseErr", "ranErr"} :
             pc \notin QuietPc
      /\ BusyPc \subseteq ExecutePc
  BY PcClasses DEF BusyPc, QuietPc, FreshPc, DonePc
<1> DEFINE moves(next) ==
               /\ wPc[w] \in BusyPc /\ next \in BusyPc /\ WorkerGo(w, next)
               /\ UNCHANGED task \/ RemoveTask(wRun[w], wStage[w])
               /\ next \in QuietPc => task[wRun[w]][wStage[w]] # "active"
               /\ UNCHANGED <<runRow, stageRow, callVars>>
<1>1. ASSUME NEW next, moves(next)
      PROVE  SafeInv'
  BY <1>0, <1>1, SilentStep
<1>2. CASE RunController(w)
  <2>1. PICK next \in {"ranOk", "ranErr"} : WorkerGo(w, next)
    BY <1>2 DEF RunController
  <2>2. moves(next)
    BY <1>0, <1>2, <2>1, QuietHand
    DEF RunController, storeVars, runRow, stageRow, gcsVars
  <2> QED
    BY <1>1, <2>2
<1>3. CASE Record(w)
  <2>1. wPc[w] = "record" /\ UNCHANGED callVars /\ WriteStage(w, "running", "wait", "abandon")
    BY <1>3 DEF Record
  <2>2. "wait" \notin DonePc /\ "wait" # "finish"
    BY DEF DonePc
  <2> QED
    BY <1>0, <2>1, <2>2, WriteStep
<1>4. CASE Abandon(w)
  <2>1. moves("ranErr")
    BY <1>0, <1>4 DEF Abandon, DeleteTask, storeVars, runRow, stageRow
  <2> QED
    BY <1>1, <2>1
<1>5. CASE WaitTick(w)
  <2>1. moves("stop") \/ moves("poll")
    BY <1>0, <1>5 DEF WaitTick, gcsVars
  <2> QED
    BY <1>1, <2>1
<1>6. CASE Poll(w)
  <2>1. PICK next : next = AfterPoll(task[wRun[w]][wStage[w]])
    OBVIOUS
  <2>2. /\ next \in {"wait", "releaseOk", "releaseErr"}
        /\ next = "releaseOk" => task[wRun[w]][wStage[w]] # "active"
    BY <2>1 DEF AfterPoll
  <2>3. wPc[w] = "poll" /\ UNCHANGED callVars
    BY <1>6 DEF Poll
  <2>4. CASE WorkerGo(w, "wait") /\ UNCHANGED <<storeVars, task>>
    <3>1. moves("wait")
      BY <1>0, <2>3, <2>4 DEF storeVars, runRow, stageRow, gcsVars
    <3> QED
      BY <1>1, <3>1
  <2>5. CASE /\ WorkerGo(w, next) \/ WorkerGo(w, "stop")
             /\ UNCHANGED <<storeVars, gcsVars>>
    <3>1. moves(next) \/ moves("stop")
      BY <1>0, <2>2, <2>3, <2>5 DEF storeVars, runRow, stageRow, gcsVars
    <3> QED
      BY <1>1, <3>1
  <2>6. CASE WriteStage(w, "running", next, "stop")
    <3>1. next \in BusyPc /\ next \notin DonePc /\ next # "finish"
      BY <1>0, <2>2 DEF DonePc
    <3> QED
      BY <1>0, <2>2, <2>3, <2>6, <3>1, WriteStep
  <2> QED
    BY <1>6, <2>1, <2>4, <2>5, <2>6 DEF Poll, gcsVars
<1>7. CASE StopTask(w)
  <2>1. moves("releaseErr")
    BY <1>0, <1>7 DEF StopTask, DeleteTask, storeVars, runRow, stageRow
  <2> QED
    BY <1>1, <2>1
<1>8. CASE Release(w)
  <2>1. PICK next \in ReleaseResult(w) : WorkerGo(w, next)
    BY <1>8 DEF Release
  <2>2. wPc[w] \in {"releaseOk", "releaseErr"} /\ next \in {"ranOk", "ranErr"}
        /\ (next = "ranOk" => wPc[w] = "releaseOk")
    BY <1>8, <2>1 DEF Release, ReleaseResult
  <2>3. moves(next)
    BY <1>0, <1>8, <2>1, <2>2, QuietHand
    DEF Release, DeleteTask, storeVars, runRow, stageRow
  <2> QED
    BY <1>1, <2>3
<1> QED
  BY <1>2, <1>3, <1>4, <1>5, <1>6, <1>7, <1>8

(* The steps around ExecuteStage that do not write the row of the run.     *)
LEMMA StageStepSafe ==
    ASSUME TypeInv, SafeInv, NEW w \in Workers,
           CheckStage(w) \/ MarkRunning(w) \/ AfterStage(w) \/ SaveStage(w) \/ FailStage(w)
    PROVE  SafeInv'
<1>0. /\ {"execute", "ranOk", "ranErr", "saveStage", "failStage", "failRun"} \subseteq BusyPc
      /\ {"mark", "execute", "ranOk", "saveStage"} \subseteq QuietPc
      /\ "failStage" \notin QuietPc /\ "failRun" \notin QuietPc /\ "check" \in ExecutePc
      /\ "execute" \notin DonePc /\ "failRun" \notin DonePc /\ {"advance", "finish"} = DonePc
      /\ BusyPc \subseteq ExecutePc
  BY PcClasses DEF BusyPc, QuietPc, FreshPc, DonePc, ExecutePc
<1>1. ASSUME NEW next, LeaveIfCanceled(w, next)
      PROVE  /\ UNCHANGED <<runRow, stageRow, task, callVars>>
             /\ WorkerDone(w) \/ WorkerGo(w, next) \/ WorkerGo(w, "deferFail")
  BY <1>1 DEF LeaveIfCanceled, gcsVars
<1>2. CASE CheckStage(w)
  <2>1. wPc[w] = "check" /\ LeaveIfCanceled(w, "mark")
    BY <1>2 DEF CheckStage
  <2> QED
    BY <1>0, <1>1, <2>1, SilentStep
<1>3. CASE MarkRunning(w)
  <2>1. /\ wPc[w] = "mark" /\ UNCHANGED callVars
        /\ WriteStage(w, "running", "execute", "deferFail")
    BY <1>3 DEF MarkRunning
  <2>2. "deferFail" \notin BusyPc
    BY PcClasses
  <2> QED
    BY <1>0, <2>1, <2>2, QuietHand, WriteStep
<1>4. CASE AfterStage(w)
  <2>1. PICK next \in {"saveStage", "failStage"} :
            /\ LeaveIfCanceled(w, next)
            /\ wPc[w] = IF next = "saveStage" THEN "ranOk" ELSE "ranErr"
    BY <1>4 DEF AfterStage
  <2>2. /\ wPc[w] \in BusyPc /\ next \in BusyPc /\ wPc[w] \in ExecutePc
        /\ next \in QuietPc => task[wRun[w]][wStage[w]] # "active"
    BY <1>0, <2>1, QuietHand
  <2>3. /\ UNCHANGED <<runRow, stageRow, task, callVars>>
        /\ WorkerDone(w) \/ WorkerGo(w, next) \/ WorkerGo(w, "deferFail")
    BY <1>1, <2>1
  <2> QED
    BY <2>2, <2>3, SilentStep
<1>5. CASE SaveStage(w)
  <2>1. PICK next \in {"advance", "finish"} :
            /\ next = IF wStage[w] < NumStages THEN "advance" ELSE "finish"
            /\ WriteStage(w, "succeeded", next, "deferFail")
    BY <1>5 DEF SaveStage
  <2>2. wPc[w] = "saveStage" /\ UNCHANGED callVars /\ wStage[w] \in Stages
    BY <1>5 DEF SaveStage, TypeInv, GoroutineInv, ExecutorTypeOK
  <2>3. next = "finish" => wStage[w] = NumStages
    BY <2>1, <2>2, StoreAssumption DEF Stages
  <2>4. "deferFail" \notin BusyPc /\ next \in DonePc /\ next \notin BusyPc
    BY <1>0, PcClasses
  <2> QED
    BY <1>0, <2>1, <2>2, <2>3, <2>4, WriteStep
<1>6. CASE FailStage(w)
  <2>1. /\ wPc[w] = "failStage" /\ UNCHANGED callVars
        /\ WriteStage(w, "failed", "failRun", "failRun")
    BY <1>6 DEF FailStage
  <2> QED
    BY <1>0, <2>1, WriteStep
<1> QED
  BY <1>2, <1>3, <1>4, <1>5, <1>6

LEMMA WorkerSafe ==
    ASSUME TypeInv, SafeInv, NEW w \in Workers, Worker(w)
    PROVE  SafeInv'
  BY DequeueSafe, ClaimSafe, LoadSafe, LaunchSafe, AdvanceSafe, FinishSafe, FailRunSafe,
     ContainerStepSafe, StageStepSafe
  DEF Worker

-----------------------------------------------------------------------------
(* Steps that move no worker: requests, recovery and the environment.  It  *)
(* is enough to look at the rows they write, at each caller, and at the    *)
(* worker that may be executing the run.                                   *)
LEMMA OtherStepSafe ==
    ASSUME TypeInv, SafeInv, UNCHANGED workerVars,
           \A q \in Runs : RunInv(q)',
           \A pc : \A q \in Runs, k \in Stages : Hand(pc, q, k) => Hand(pc, q, k)',
           \A c \in Callers : CallInv(c)'
    PROVE  SafeInv'
<1>1. ASSUME NEW w \in Workers
      PROVE  HandInv(w)'
  <2>1. PICK pc, p, k : pc = wPc[w] /\ p = wRun[w] /\ k = wStage[w]
    OBVIOUS
  <2>2. /\ Hand(pc, p, k) /\ k \in Stages
        /\ wPc'[w] = pc /\ wRun'[w] = p /\ wStage'[w] = k
    BY <2>1 DEF SafeInv, HandInv, workerVars, TypeInv, GoroutineInv, ExecutorTypeOK
  <2>3. CASE p \in Runs
    BY <2>2, <2>3, HandMoved
  <2>4. CASE p \notin Runs
    <3>1. pc \notin ExecutePc
      BY <2>1, <2>4, PcClasses DEF TypeInv, GoroutineInv, WorkersHoldRuns
    <3> QED
      BY <2>2, <3>1, HandKept, HandMoved
  <2> QED
    BY <2>3, <2>4
<1>2. OneExecutor'
  BY DEF SafeInv, OneExecutor, Executing, workerVars
<1> QED
  BY <1>1, <1>2 DEF SafeInv

(* Only caller c moves.                                                    *)
CallersKept(c) ==
    \A d \in Callers \ {c} : cPc'[d] = cPc[d] /\ cRun'[d] = cRun[d] /\ cTodo'[d] = cTodo[d]

LEMMA CallersKeptSafe ==
    ASSUME TypeInv, SafeInv, NEW c \in Callers, CallersKept(c), CallInv(c)',
           \A q \in Runs : Onward(q)
    PROVE  \A d \in Callers : CallInv(d)'
  BY CallKept DEF SafeInv, CallersKept

(* What the ends of a caller's step do.                                    *)
LEMMA CallEffect ==
    ASSUME TypeInv, NEW c \in Callers
    PROVE  /\ \A pc, todo : CallGo(c, pc, todo) =>
                  /\ CallersKept(c)
                  /\ cPc'[c] = pc /\ cTodo'[c] = todo /\ cRun'[c] = cRun[c]
           /\ CallReturn(c) => CallersKept(c) /\ cPc'[c] \in {"idle", "next"}
           /\ \A p, pc : CallBegin(c, p, pc) =>
                  CallersKept(c) /\ cPc'[c] = pc /\ cRun'[c] = p
           /\ UNCHANGED callVars => CallersKept(c)
  BY DEF TypeInv, GoroutineInv, ExecutorTypeOK, CallGo, CallReturn, CallBegin, CallersKept,
         callVars

LEMMA CallReturnSafe ==
    ASSUME TypeInv, NEW c \in Callers, CallReturn(c)
    PROVE  CallInv(c)' /\ CallersKept(c)
  BY CallEffect DEF CallInv

(* A caller whose position demands nothing.                                *)
LEMMA CallFreeSafe ==
    ASSUME NEW c \in Callers, cPc'[c] \notin {"markStage", "list", "release", "stages", "failRun"}
    PROVE  CallInv(c)'
  BY DEF CallInv

(* Containers stop or are deleted: what a worker relies on stays.          *)
LEMMA HandTasks ==
    ASSUME NEW q \in Runs, NEW pc, NEW k \in Stages, Hand(pc, q, k),
           pStatus'[q] = pStatus[q], curStage'[q] = curStage[q], sStatus'[q] = sStatus[q],
           TasksLeave(q)
    PROVE  Hand(pc, q, k)'
<1>1. HandRun(pc, q)' /\ HandFirst(pc, q, k)'
  BY DEF Hand, HandRun, HandFirst, Untouched, TasksLeave
<1>2. HandOthers(pc, q, k)'
  BY DEF Hand, HandOthers, TasksLeave
<1>3. HandRow(pc, q, k)' /\ HandTask(pc, q, k)'
  BY DEF Hand, HandRow, HandTask, TasksLeave
<1> QED
  BY <1>1, <1>2, <1>3 DEF Hand

(* Steps of caller c that write no row, but may delete a container.        *)
LEMMA CallStepSafe ==
    ASSUME TypeInv, SafeInv, NEW c \in Callers, CallersKept(c), CallInv(c)',
           UNCHANGED <<runRow, stageRow, workerVars>>,
           NEW p \in Runs, NEW s \in Stages, UNCHANGED task \/ RemoveTask(p, s)
    PROVE  SafeInv'
<1>1. \A q \in Runs : TasksLeave(q)
  <2>1. TasksLeave(p) /\ \A q \in Runs \ {p} : task'[q] = task[q]
    BY RemoveEffect
  <2> QED
    BY <2>1 DEF TasksLeave
<1>2. \A q \in Runs : /\ pStatus'[q] = pStatus[q] /\ curStage'[q] = curStage[q]
                      /\ sStatus'[q] = sStatus[q]
  BY DEF runRow, stageRow
<1>3. \A q \in Runs : RunInv(q)' /\ Onward(q)
  BY <1>1, <1>2, RemoveRunInv DEF SafeInv, Onward, Untouched
<1>4. \A q \in Runs : \A pc : \A k \in Stages : Hand(pc, q, k) => Hand(pc, q, k)'
  BY <1>1, <1>2, HandTasks
<1>5. \A d \in Callers : CallInv(d)'
  BY <1>3, CallersKeptSafe
<1> QED
  BY <1>3, <1>4, <1>5, OtherStepSafe

(* The status of a run is written by somebody else than its worker: a      *)
(* request starts or cancels it, recovery fails it.                        *)
LEMMA StatusStepSafe ==
    ASSUME TypeInv, SafeInv, NEW c \in Callers, CallersKept(c), CallInv(c)',
           UNCHANGED <<stageRow, task, workerVars>>, NEW p \in Runs, NEW st,
           pStatus' = [pStatus EXCEPT ![p] = st], UNCHANGED curStage,
           \/ pStatus[p] = "pending" /\ st = "scheduled"
           \/ pStatus[p] \in NonTerminal /\ st \in {"failed", "canceled"}
    PROVE  SafeInv'
<1>1. /\ pStatus'[p] = st /\ \A q \in Runs \ {p} : RowKept(q)
      /\ curStage'[p] = curStage[p] /\ sStatus'[p] = sStatus[p] /\ task'[p] = task[p]
  BY DEF RowKept, TypeInv, StoreTypeOK, stageRow
<1>2. Onward(p)
  BY <1>1 DEF Onward, Untouched, Unstarted
<1>3. RunInv(p)'
  <2>1. RunInv(p)
    BY DEF SafeInv
  <2>2. NotBegun(p)'
    BY <1>1, <1>2, <2>1 DEF RunInv, NotBegun, Untouched, Onward
  <2>3. Ordered(p)' /\ Counted(p)' /\ OneActive(p)' /\ Complete(p)'
    BY <1>1, <2>1 DEF RunInv, Ordered, Counted, OneActive, Complete, Untouched
  <2> QED
    BY <2>2, <2>3 DEF RunInv
<1>4. \A q \in Runs : RunInv(q)' /\ Onward(q)
  BY <1>1, <1>2, <1>3, RunKept, KeptOnward DEF SafeInv
<1>5. ASSUME NEW q \in Runs, NEW pc, NEW k \in Stages, Hand(pc, q, k)
      PROVE  Hand(pc, q, k)'
  <2>1. CASE q # p
    BY <1>1, <1>5, <2>1, HandKept
  <2>2. CASE q = p
    <3>1. HandRun(pc, p)'
      BY <1>1, <1>5, <2>2 DEF Hand, HandRun, NonTerminal
    <3>2. HandFirst(pc, p, k)' /\ HandOthers(pc, p, k)' /\ HandRow(pc, p, k)' /\ HandTask(pc, p, k)'
      BY <1>1, <1>5, <2>2 DEF Hand, HandFirst, HandOthers, HandRow, HandTask, Untouched
    <3> QED
      BY <2>2, <3>1, <3>2 DEF Hand
  <2> QED
    BY <2>1, <2>2
<1>6. \A d \in Callers : CallInv(d)'
  BY <1>4, CallersKeptSafe
<1> QED
  BY <1>4, <1>5, <1>6, OtherStepSafe

(* A caller marks a stage of its snapshot, from its own copy of the row.   *)
(* If a worker executes the run, that is the stage in its hand.            *)
LEMMA MarkStepSafe ==
    ASSUME TypeInv, SafeInv, NEW c \in Callers, CallersKept(c), CallInv(c)',
           UNCHANGED <<runRow, task, workerVars>>,
           NEW p \in Runs, NEW s \in Stages, NEW cont, NEW st \in {"failed", "canceled"},
           ~Untouched(p, s), UpdateStage(p, s, st, cont)
    PROVE  SafeInv'
<1>1. /\ sStatus[p][s] \notin {"absent", "pending", "succeeded"}
      /\ sStatus'[p] = [sStatus[p] EXCEPT ![s] = st]
      /\ \A q \in Runs \ {p} : sStatus'[q] = sStatus[q]
  BY StageEffect DEF StageOpen, NonTerminal, Untouched
<1>2. /\ sStatus'[p][s] = st /\ \A t \in Stages \ {s} : sStatus'[p][t] = sStatus[p][t]
      /\ pStatus'[p] = pStatus[p] /\ curStage'[p] = curStage[p] /\ task'[p] = task[p]
      /\ \A q \in Runs \ {p} : RowKept(q)
  BY <1>1 DEF RowKept, TypeInv, StoreTypeOK, runRow
<1>3. RunInv(p) /\ pStatus[p] \notin Unstarted
      /\ \A t \in Stages : t < s => sStatus[p][t] = "succeeded"
  BY DEF SafeInv, RunInv, NotBegun, Ordered
<1>4. RunInv(p)' /\ Onward(p)
  BY <1>1, <1>2, <1>3, StageWritten
<1>5. \A q \in Runs : RunInv(q)' /\ Onward(q)
  BY <1>2, <1>4, RunKept, KeptOnward DEF SafeInv
<1>6. ASSUME NEW q \in Runs, NEW pc, NEW k \in Stages, Hand(pc, q, k)
      PROVE  Hand(pc, q, k)'
  <2>1. CASE q # p
    BY <1>2, <1>6, <2>1, HandKept
  <2>2. CASE q = p
    <3>1. HandRun(pc, p)' /\ HandTask(pc, p, k)'
      BY <1>2, <1>6, <2>2 DEF Hand, HandRun, HandTask
    <3>2. HandFirst(pc, p, k)'
      BY <1>2, <1>6, <2>2 DEF Hand, HandFirst
    <3>3. CASE pc \in LoopPc
      <4>1. s = k /\ pc \notin FreshPc \cup DonePc
        <5>1. s \in Int /\ k \in Int
          BY StoreAssumption DEF Stages
        <5>2. s = k
          BY <1>1, <1>6, <2>2, <3>3, <5>1 DEF Hand, HandOthers, Untouched
        <5> QED
          BY <1>1, <1>6, <2>2, <5>2 DEF Hand, HandRow
      <4>2. HandOthers(pc, p, k)'
        <5>1. \A t \in Stages : t < k \/ t > k => t # k
          BY StoreAssumption DEF Stages
        <5> QED
          BY <1>2, <1>6, <2>2, <4>1, <5>1 DEF Hand, HandOthers
      <4>3. HandRow(pc, p, k)'
        BY <1>2, <1>6, <2>2, <4>1, PcClasses DEF Hand, HandRow
      <4> QED
        BY <2>2, <3>1, <3>2, <4>2, <4>3 DEF Hand
    <3>4. CASE pc \notin LoopPc
      BY <2>2, <3>1, <3>2, <3>4, PcClasses DEF Hand, HandOthers, HandRow
    <3> QED
      BY <3>3, <3>4
  <2> QED
    BY <2>1, <2>2
<1>7. \A d \in Callers : CallInv(d)'
  BY <1>5, CallersKeptSafe
<1> QED
  BY <1>5, <1>6, <1>7, OtherStepSafe

-----------------------------------------------------------------------------
(* The methods of the executor that requests and recovery share.           *)
LEMMA SharedCallSafe ==
    ASSUME TypeInv, SafeInv, NEW c \in Callers,
           SubmitPipeline(c) \/ ListContainers(c) \/ ReleaseContainers(c)
    PROVE  SafeInv'
<1>0. cPc[c] \in {"submit", "list", "release"}
  BY DEF SubmitPipeline, ListContainers, ReleaseContainers
<1>1. cRun[c] \in Runs /\ cTodo[c] \in SUBSET StageCopies /\ 1 \in Stages
  <2>1. cRun[c] \in Runs
    BY <1>0 DEF TypeInv, GoroutineInv, CallersHoldRuns
  <2>2. cTodo[c] \in SUBSET StageCopies
    BY DEF TypeInv, GoroutineInv, ExecutorTypeOK
  <2> QED
    BY <2>1, <2>2, StoreAssumption DEF Stages
<1>2. UNCHANGED <<runRow, stageRow, workerVars>>
  BY DEF SubmitPipeline, ListContainers, ReleaseContainers, storeVars, runRow, stageRow
<1>3. CASE SubmitPipeline(c)
  <2>1. CallReturn(c) /\ UNCHANGED task
    BY <1>3 DEF SubmitPipeline, gcsVars
  <2> QED
    BY <1>1, <1>2, <2>1, CallReturnSafe, CallStepSafe
<1>4. ASSUME cPc[c] \in {"list", "release"},
             \/ \E todo : CallGo(c, "release", todo)
             \/ AfterCancel(c)
      PROVE  CallInv(c)' /\ CallersKept(c)
  <2>1. c = Recovery => pStatus[cRun[c]] \notin Unstarted
    BY <1>4 DEF SafeInv, CallInv
  <2>2. CASE \E todo : CallGo(c, "release", todo)
    <3>1. cPc'[c] = "release" /\ cRun'[c] = cRun[c] /\ CallersKept(c)
      BY <2>2, CallEffect
    <3> QED
      BY <1>2, <2>1, <3>1 DEF CallInv, runRow
  <2>3. CASE c = Recovery /\ CallGo(c, "stages", {})
    <3>1. cPc'[c] = "stages" /\ cRun'[c] = cRun[c] /\ CallersKept(c)
      BY <2>3, CallEffect
    <3> QED
      BY <1>2, <2>1, <2>3, <3>1 DEF CallInv, runRow
  <2>4. CASE CallReturn(c)
    BY <2>4, CallReturnSafe
  <2> QED
    BY <1>4, <2>2, <2>3, <2>4 DEF AfterCancel
<1>5. CASE ListContainers(c)
  <2>1. /\ cPc[c] = "list" /\ UNCHANGED task
        /\ (\E todo : CallGo(c, "release", todo)) \/ AfterCancel(c)
    BY <1>5 DEF ListContainers, CallLoop, gcsVars
  <2> QED
    BY <1>1, <1>2, <1>4, <2>1, CallStepSafe
<1>6. CASE ReleaseContainers(c)
  <2>1. PICK copy \in cTodo[c] :
            /\ DeleteTask(cRun[c], copy[1])
            /\ (\E todo : CallGo(c, "release", todo)) \/ AfterCancel(c)
    BY <1>6 DEF ReleaseContainers, CallLoop
  <2>2. cPc[c] = "release" /\ copy[1] \in Stages
    BY <1>1, <1>6 DEF ReleaseContainers, StageCopies
  <2>3. UNCHANGED task \/ RemoveTask(cRun[c], copy[1])
    BY <2>1 DEF DeleteTask
  <2> QED
    BY <1>1, <1>2, <1>4, <2>1, <2>2, <2>3, CallStepSafe
<1> QED
  BY <1>3, <1>5, <1>6

(* The stages listed as running were started.                              *)
LEMMA ListSafe ==
    ASSUME TypeInv, SafeInv, NEW c \in Callers, cPc[c] = "stages", cRun[c] \in Runs,
           NEW after \in {"list", "failRun"}, UNCHANGED <<runRow, stageRow>>,
           ListRunning(c, after) \/ CallGo(c, after, {}) \/ CallReturn(c)
    PROVE  CallInv(c)' /\ CallersKept(c)
<1>1. c = Recovery => pStatus[cRun[c]] \notin Unstarted
  BY DEF SafeInv, CallInv
<1>2. CASE CallReturn(c)
  BY <1>2, CallReturnSafe
<1>3. CASE CallGo(c, after, {})
  <2>1. cPc'[c] = after /\ cRun'[c] = cRun[c] /\ CallersKept(c)
    BY <1>3, CallEffect
  <2> QED
    BY <1>1, <2>1 DEF CallInv, runRow
<1>4. CASE CallGo(c, "markStage", RunningStages(cRun[c]))
  <2>1. /\ cPc'[c] = "markStage" /\ cRun'[c] = cRun[c] /\ CallersKept(c)
        /\ cTodo'[c] = RunningStages(cRun[c])
    BY <1>4, CallEffect
  <2>2. \A copy \in RunningStages(cRun[c]) : ~Untouched(cRun[c], copy[1])
    BY DEF RunningStages, Untouched
  <2> QED
    BY <1>1, <2>1, <2>2 DEF CallInv, Untouched, runRow, stageRow
<1> QED
  BY <1>2, <1>3, <1>4 DEF ListRunning, CallLoop

LEMMA MarkSafe ==
    ASSUME TypeInv, SafeInv, NEW c \in Callers, NEW st \in {"failed", "canceled"},
           NEW after \in {"list", "failRun"}, MarkStage(c, st, after)
    PROVE  SafeInv'
<1>1. PICK p \in Runs : p = cRun[c]
  BY DEF TypeInv, GoroutineInv, CallersHoldRuns, MarkStage
<1>2. /\ cPc[c] = "markStage" /\ cTodo[c] \in SUBSET StageCopies
      /\ UNCHANGED <<runRow, task, workerVars>>
  BY DEF TypeInv, GoroutineInv, ExecutorTypeOK, MarkStage, gcsVars
<1>3. PICK copy \in cTodo[c] :
          /\ CallGo(c, "markStage", cTodo[c] \ {copy}) \/ CallGo(c, after, {})
          /\ UpdateStage(p, copy[1], st, copy[2]) \/ UNCHANGED stageRow
  BY <1>1 DEF MarkStage, CallLoop
<1>4. /\ copy[1] \in Stages /\ \A todo \in cTodo[c] : todo[1] \in Stages
      /\ \A todo \in cTodo[c] : ~Untouched(p, todo[1])
      /\ c = Recovery => pStatus[p] \notin Unstarted
  BY <1>1, <1>2 DEF StageCopies, SafeInv, CallInv
<1>5. CallersKept(c) /\ cRun'[c] = p /\ cPc'[c] \in {"markStage", after}
      /\ (cPc'[c] = "markStage" => cTodo'[c] \subseteq cTodo[c])
  BY <1>1, <1>3, CallEffect
<1>6. ASSUME \A s \in Stages : ~Untouched(p, s) => ~Untouched(p, s)'
      PROVE  CallInv(c)'
  BY <1>2, <1>4, <1>5, <1>6 DEF CallInv, Untouched, runRow
<1>7. CASE UNCHANGED stageRow
  <2>1. CallInv(c)'
    BY <1>6, <1>7 DEF Untouched, stageRow
  <2> QED
    BY <1>2, <1>4, <1>5, <1>7, <2>1, CallStepSafe
<1>8. CASE UpdateStage(p, copy[1], st, copy[2])
  <2>1. PICK s \in Stages, cont \in BOOLEAN : s = copy[1] /\ cont = copy[2]
    BY <1>2, <1>4 DEF StageCopies
  <2>2. UpdateStage(p, s, st, cont)
    BY <1>8, <2>1
  <2>3. sStatus'[p] = [sStatus[p] EXCEPT ![s] = st]
    BY <2>2, StageEffect
  <2>4. CallInv(c)'
    BY <1>6, <2>3 DEF Untouched, TypeInv, StoreTypeOK
  <2> QED
    BY <1>2, <1>4, <1>5, <2>1, <2>2, <2>4, MarkStepSafe
<1> QED
  BY <1>3, <1>7, <1>8

LEMMA RecoverSafe ==
    ASSUME TypeInv, SafeInv, Recover
    PROVE  SafeInv'
<1>0. Recovery \in Callers /\ 1 \in Stages
  BY StoreAssumption DEF Callers, Stages
<1>1. ASSUME UNCHANGED <<runRow, stageRow, task, workerVars>>,
             CallersKept(Recovery), CallInv(Recovery)'
      PROVE  SafeInv'
  <2>1. CASE \E p \in Runs : TRUE
    BY <1>0, <1>1, <2>1, CallStepSafe
  <2>2. CASE ~\E p \in Runs : TRUE
    <3>1. \A d \in Callers : CallInv(d)'
      BY <1>0, <1>1, <2>2, CallersKeptSafe
    <3> QED
      BY <1>1, <2>2, <3>1, OtherStepSafe
  <2> QED
    BY <2>1, <2>2
<1>2. CASE RecoverCollect
  <2>1. UNCHANGED <<runRow, stageRow, task, workerVars>>
    BY <1>2 DEF RecoverCollect, gcsVars
  <2>2. CallersKept(Recovery) /\ cPc'[Recovery] \in {"next", "idle"}
    BY <1>0, <1>2, CallEffect DEF RecoverCollect
  <2> QED
    BY <1>0, <1>1, <2>1, <2>2, CallFreeSafe
<1>3. CASE RecoverNext
  <2>1. UNCHANGED <<runRow, stageRow, task, workerVars, cTodo>> /\ cPc[Recovery] = "next"
    BY <1>3 DEF RecoverNext, gcsVars
  <2>2. CASE UNCHANGED cRun /\ (UNCHANGED cPc \/ cPc' = [cPc EXCEPT ![Recovery] = "idle"])
    <3>1. CallersKept(Recovery) /\ cPc'[Recovery] \in {"next", "idle"}
      BY <1>0, <2>1, <2>2 DEF CallersKept, TypeInv, GoroutineInv, ExecutorTypeOK
    <3> QED
      BY <1>0, <1>1, <2>1, <3>1, CallFreeSafe
  <2>3. CASE \E p \in rIds :
                 /\ cPc' = [cPc EXCEPT ![Recovery] = StepFor(p)]
                 /\ cRun' = [cRun EXCEPT ![Recovery] = IF StepFor(p) = "next" THEN NoRun ELSE p]
    <3>1. PICK p \in rIds, pc \in {"submit", "list", "next"} :
              /\ pc = StepFor(p)
              /\ cPc' = [cPc EXCEPT ![Recovery] = pc]
              /\ cRun' = [cRun EXCEPT ![Recovery] = IF pc = "next" THEN NoRun ELSE p]
      BY <2>3 DEF StepFor
    <3>2. pc \in {"submit", "list", "next"} /\ (pc = "list" => pStatus[p] = "running")
      BY <3>1 DEF StepFor
    <3>3. /\ CallersKept(Recovery) /\ cPc'[Recovery] = pc
          /\ pc = "list" => cRun'[Recovery] = p
      BY <1>0, <2>1, <3>1 DEF CallersKept, TypeInv, GoroutineInv, ExecutorTypeOK
    <3>4. CallInv(Recovery)'
      BY <2>1, <3>2, <3>3 DEF CallInv, Unstarted, runRow
    <3> QED
      BY <1>1, <2>1, <3>3, <3>4
  <2> QED
    BY <1>3, <2>2, <2>3 DEF RecoverNext
<1>4. CASE SubmitPipeline(Recovery) \/ ListContainers(Recovery) \/ ReleaseContainers(Recovery)
  BY <1>0, <1>4, SharedCallSafe
<1>5. CASE RecoverSubmitAborts
  <2>1. UNCHANGED <<runRow, stageRow, task, workerVars>> /\ CallReturn(Recovery)
    BY <1>5 DEF RecoverSubmitAborts, storeVars, runRow, stageRow, gcsVars
  <2> QED
    BY <1>0, <1>1, <2>1, CallReturnSafe
<1>6. CASE RecoverStages
  <2>1. /\ UNCHANGED <<runRow, stageRow, task, workerVars>> /\ cPc[Recovery] = "stages"
        /\ ListRunning(Recovery, "failRun") \/ CallGo(Recovery, "failRun", {})
    BY <1>6 DEF RecoverStages, gcsVars
  <2>2. cRun[Recovery] \in Runs
    BY <1>0, <2>1 DEF TypeInv, GoroutineInv, CallersHoldRuns
  <2> QED
    BY <1>0, <1>1, <2>1, <2>2, ListSafe
<1>7. CASE RecoverMarkStage
  BY <1>0, <1>7, MarkSafe DEF RecoverMarkStage
<1>8. CASE RecoverFailRun
  <2>1. PICK p \in Runs : p = cRun[Recovery]
    BY <1>0, <1>8 DEF RecoverFailRun, TypeInv, GoroutineInv, CallersHoldRuns
  <2>2. /\ UNCHANGED <<stageRow, task, workerVars>> /\ CallReturn(Recovery)
        /\ UNCHANGED runRow \/ UpdateStatus(p, "failed")
    BY <1>8, <2>1 DEF RecoverFailRun, FailPipeline, gcsVars
  <2>3. CallersKept(Recovery) /\ CallInv(Recovery)'
    BY <1>0, <2>2, CallReturnSafe
  <2>4. CASE UNCHANGED runRow
    BY <1>1, <2>2, <2>3, <2>4
  <2>5. CASE UpdateStatus(p, "failed")
    <3>1. /\ pStatus' = [pStatus EXCEPT ![p] = "failed"] /\ UNCHANGED curStage
          /\ pStatus[p] \in NonTerminal
      BY <2>5 DEF UpdateStatus, RunOpen
    <3> QED
      BY <1>0, <2>2, <2>3, <3>1, StatusStepSafe
  <2> QED
    BY <2>2, <2>4, <2>5
<1> QED
  BY <1>2, <1>3, <1>4, <1>5, <1>6, <1>7, <1>8 DEF Recover

LEMMA ClientSafe ==
    ASSUME TypeInv, SafeInv, NEW c \in Clients, Client(c)
    PROVE  SafeInv'
<1>0. c \in Callers /\ c # Recovery /\ 1 \in Stages
  BY ExecutorAssumption, StoreAssumption DEF Callers, Stages
<1>1. ASSUME NEW p \in Runs, NEW pc \in {"submit", "stages"}, cPc[c] = "idle",
             CallBegin(c, p, pc) \/ UNCHANGED callVars
      PROVE  CallersKept(c) /\ CallInv(c)'
  <2>1. CASE CallBegin(c, p, pc)
    <3>1. CallersKept(c) /\ cPc'[c] = pc
      BY <1>0, <2>1, CallEffect
    <3> QED
      BY <1>0, <3>1 DEF CallInv
  <2>2. CASE UNCHANGED callVars
    BY <1>0, <1>1, <2>2 DEF CallersKept, CallInv, callVars
  <2> QED
    BY <1>1, <2>1, <2>2
<1>2. ASSUME NEW p \in Runs, StartPipeline(c, p)
      PROVE  SafeInv'
  <2>1. /\ pStatus[p] = "pending" /\ pStatus' = [pStatus EXCEPT ![p] = "scheduled"]
        /\ curStage' = [curStage EXCEPT ![p] = curStage[p]]
        /\ UNCHANGED <<stageRow, task, workerVars>>
        /\ cPc[c] = "idle" /\ (CallBegin(c, p, "submit") \/ UNCHANGED callVars)
    BY <1>2 DEF StartPipeline, Transition, gcsVars
  <2>2. UNCHANGED curStage
    BY <2>1 DEF TypeInv, StoreTypeOK
  <2> QED
    BY <1>0, <2>1, <2>2, <1>1, StatusStepSafe
<1>3. ASSUME NEW p \in Runs, CancelPipeline(c, p)
      PROVE  SafeInv'
  <2>1. /\ pStatus[p] \in NonTerminal /\ pStatus' = [pStatus EXCEPT ![p] = "canceled"]
        /\ UNCHANGED <<curStage, stageRow, task, workerVars>>
        /\ cPc[c] = "idle" /\ (CallBegin(c, p, "stages") \/ UNCHANGED callVars)
    BY <1>3 DEF CancelPipeline, UpdateStatus, RunOpen, gcsVars
  <2> QED
    BY <1>0, <2>1, <1>1, StatusStepSafe
<1>4. CASE CancelListStages(c)
  <2>1. /\ UNCHANGED <<runRow, stageRow, task, workerVars>> /\ cPc[c] = "stages"
        /\ ListRunning(c, "list") \/ CallReturn(c)
    BY <1>4 DEF CancelListStages, gcsVars
  <2>2. cRun[c] \in Runs
    BY <1>0, <2>1 DEF TypeInv, GoroutineInv, CallersHoldRuns
  <2> QED
    BY <1>0, <2>1, <2>2, ListSafe, CallStepSafe
<1>5. CASE CancelMarkStage(c)
  BY <1>0, <1>5, MarkSafe DEF CancelMarkStage
<1>6. CASE HangUp(c)
  <2>1. /\ UNCHANGED <<runRow, stageRow, task, workerVars>> /\ CallReturn(c)
        /\ cPc[c] \in {"submit", "stages", "markStage", "list"}
    BY <1>6 DEF HangUp, storeVars, runRow, stageRow, gcsVars
  <2>2. cRun[c] \in Runs
    BY <1>0, <2>1 DEF TypeInv, GoroutineInv, CallersHoldRuns
  <2> QED
    BY <1>0, <2>1, <2>2, CallReturnSafe, CallStepSafe
<1>7. CASE SubmitPipeline(c) \/ ListContainers(c) \/ ReleaseContainers(c)
  BY <1>0, <1>7, SharedCallSafe
<1> QED
  BY <1>2, <1>3, <1>4, <1>5, <1>6, <1>7 DEF Client

(* The rows of a run are inserted while it is not started; that the run    *)
(* may be started before its last stage is inserted changes nothing.       *)
LEMMA CreateSafe ==
    ASSUME TypeInv, SafeInv, NEW p \in Runs, Create(p)
    PROVE  SafeInv'
<1>1. /\ UNCHANGED <<task, workerVars, callVars>> /\ UNCHANGED curStage
  BY DEF Create, CreateRun, CreateStage, CreateFails, InsertRun, runRow, gcsVars
<1>2. CASE UNCHANGED <<runRow, stageRow>>
  <2>1. \A q \in Runs : RowKept(q)
    BY <1>1, <1>2 DEF RowKept, runRow, stageRow
  <2>2. \A c \in Callers : CallInv(c)'
    BY <1>1, <2>1, KeptOnward, CallKept DEF SafeInv, callVars
  <2> QED
    BY <1>1, <2>1, <2>2, RunKept, HandKept, OtherStepSafe DEF SafeInv
<1>3. CASE CreateRun(p)
  <2>1. /\ pStatus[p] = "absent" /\ pStatus'[p] = "pending" /\ UNCHANGED stageRow
        /\ \A q \in Runs \ {p} : pStatus'[q] = pStatus[q]
    BY <1>3 DEF CreateRun, InsertRun, TypeInv, StoreTypeOK
  <2>2. Onward(p) /\ \A q \in Runs \ {p} : RowKept(q)
    BY <1>1, <2>1 DEF Onward, Untouched, Unstarted, RowKept, stageRow
  <2>3. RunInv(p)'
    <3>1. RunInv(p)
      BY DEF SafeInv
    <3>2. NotBegun(p)' /\ Complete(p)'
      BY <1>1, <2>1, <3>1 DEF RunInv, NotBegun, Complete, Untouched, Unstarted, stageRow
    <3>3. Ordered(p)' /\ Counted(p)' /\ OneActive(p)'
      BY <1>1, <2>1, <3>1 DEF RunInv, Ordered, Counted, OneActive, Untouched, stageRow
    <3> QED
      BY <3>2, <3>3 DEF RunInv
  <2>4. ASSUME NEW q \in Runs, NEW pc, NEW k \in Stages, Hand(pc, q, k)
        PROVE  Hand(pc, q, k)'
    <3>1. pc \in ExecutePc => q # p
      BY <2>1, <2>4 DEF Hand, HandRun
    <3> QED
      BY <2>2, <2>4, <3>1, HandKept
  <2>5. \A c \in Callers : CallInv(c)'
    BY <1>1, <2>2, KeptOnward, CallKept DEF SafeInv, callVars
  <2> QED
    BY <1>1, <2>2, <2>3, <2>4, <2>5, RunKept, OtherStepSafe DEF SafeInv
<1>4. CASE CreateStage(p)
  <2>1. PICK s \in Stages : /\ sStatus[p][s] = "absent"
                            /\ sStatus' = [sStatus EXCEPT ![p][s] = "pending"]
                            /\ UNCHANGED runRow
    BY <1>4 DEF CreateStage, InsertStage
  <2>2. /\ sStatus'[p][s] = "pending" /\ \A t \in Stages \ {s} : sStatus'[p][t] = sStatus[p][t]
        /\ \A q \in Runs \ {p} : RowKept(q)
        /\ pStatus'[p] = pStatus[p] /\ curStage'[p] = curStage[p] /\ task'[p] = task[p]
    BY <1>1, <2>1 DEF TypeInv, StoreTypeOK, RowKept, runRow
  <2>3. /\ \A t \in Stages : Untouched(p, t) => Untouched(p, t)'
        /\ \A t \in Stages : Untouched(p, t)' => Untouched(p, t)
        /\ \A t \in Stages : sStatus'[p][t] = "succeeded" <=> sStatus[p][t] = "succeeded"
    BY <2>1, <2>2 DEF Untouched
  <2>4. Onward(p)
    BY <2>2, <2>3 DEF Onward, Untouched
  <2>5. RunInv(p)'
    <3>1. RunInv(p)
      BY DEF SafeInv
    <3>2. NotBegun(p)' /\ Complete(p)'
      BY <2>2, <2>3, <3>1 DEF RunInv, NotBegun, Complete
    <3>3. Ordered(p)' /\ Counted(p)' /\ OneActive(p)'
      BY <2>2, <2>3, <3>1 DEF RunInv, Ordered, Counted, OneActive
    <3> QED
      BY <3>2, <3>3 DEF RunInv
  <2>6. ASSUME NEW q \in Runs, NEW pc, NEW k \in Stages, Hand(pc, q, k)
        PROVE  Hand(pc, q, k)'
    <3>1. CASE q # p
      BY <2>2, <2>6, <3>1, HandKept
    <3>2. CASE q = p
      <4>1. HandRun(pc, p)' /\ HandFirst(pc, p, k)' /\ HandTask(pc, p, k)'
        BY <2>2, <2>3, <2>6, <3>2 DEF Hand, HandRun, HandFirst, HandTask
      <4>2. pc \in LoopPc => s < k \/ s = k \/ s > k
        BY StoreAssumption DEF Stages
      <4>3. pc \notin LoopPc
        BY <2>1, <2>6, <3>2, <4>2, PcClasses DEF Hand, HandOthers, HandRow
      <4>4. HandOthers(pc, p, k)' /\ HandRow(pc, p, k)'
        BY <4>3, PcClasses DEF HandOthers, HandRow
      <4> QED
        BY <3>2, <4>1, <4>4 DEF Hand
    <3> QED
      BY <3>1, <3>2
  <2>7. \A c \in Callers : CallInv(c)'
    BY <1>1, <2>2, <2>4, KeptOnward, CallKept DEF SafeInv, callVars
  <2> QED
    BY <1>1, <2>2, <2>5, <2>6, <2>7, RunKept, OtherStepSafe DEF SafeInv
<1> QED
  BY <1>2, <1>3, <1>4 DEF Create, CreateFails

LEMMA EnvironmentSafe ==
    ASSUME TypeInv, SafeInv, Environment
    PROVE  SafeInv'
<1>1. UNCHANGED <<runRow, stageRow>>
  BY DEF Environment, Boot, Crash, Shutdown, Exit, Die, ContainerEnds, storeVars, runRow, stageRow
<1>2. CASE Boot \/ Crash \/ Exit \/ Shutdown
  <2>1. \A q \in Runs : RowKept(q)
    BY <1>1, <1>2 DEF RowKept, runRow, stageRow, Boot, Crash, Shutdown, Exit, Die, gcsVars
  <2>2. \A q \in Runs : RunInv(q)'
    BY <2>1, RunKept DEF SafeInv
  <2>3. CASE Boot
    <3>1. \A c \in Callers : CallInv(c)'
      <4>1. ASSUME NEW c \in Callers
            PROVE  CallInv(c)'
        <5>1. CASE c = Recovery
          <6>1. cPc'[c] = "collect"
            BY <2>3, <5>1 DEF Boot, TypeInv, GoroutineInv, ExecutorTypeOK
          <6> QED
            BY <6>1, CallFreeSafe
        <5>2. CASE c # Recovery
          <6>1. UNCHANGED <<cPc[c], cRun[c], cTodo[c]>>
            BY <2>3, <5>2 DEF Boot, TypeInv, GoroutineInv, ExecutorTypeOK
          <6> QED
            BY <2>1, <6>1, KeptOnward, CallKept DEF SafeInv
        <5> QED
          BY <5>1, <5>2
      <4> QED
        BY <4>1
    <3>2. UNCHANGED workerVars
      BY <2>3 DEF Boot
    <3> QED
      BY <2>1, <2>2, <3>1, <3>2, HandKept, OtherStepSafe
  <2>4. CASE Shutdown
    <3>1. UNCHANGED <<workerVars, callVars>>
      BY <2>4 DEF Shutdown
    <3>2. \A c \in Callers : CallInv(c)'
      BY <2>1, <3>1, KeptOnward, CallKept DEF SafeInv, callVars
    <3> QED
      BY <2>1, <2>2, <3>1, <3>2, HandKept, OtherStepSafe
  <2>5. CASE Crash \/ Exit
    <3>1. LoseMemory
      BY <2>5 DEF Crash, Exit, Die
    <3>2. \A c \in Callers : CallInv(c)'
      BY <3>1, CallFreeSafe DEF LoseMemory
    <3>3. \A w \in Workers : wPc'[w] = "idle" /\ wStage'[w] = 1
      BY <3>1 DEF LoseMemory
    <3>4. \A w \in Workers : HandInv(w)'
      BY <3>3, HandIdle, HandMoved
    <3>5. OneExecutor'
      BY <3>3, PcClasses DEF OneExecutor, Executing
    <3> QED
      BY <2>2, <3>2, <3>4, <3>5 DEF SafeInv
  <2> QED
    BY <1>2, <2>3, <2>4, <2>5
<1>3. CASE ContainerEnds
  <2>1. PICK p \in Runs, s \in Stages, end \in {"done", "error"} :
            task[p][s] = "active" /\ task' = [task EXCEPT ![p][s] = end]
    BY <1>3, GcsAssumption DEF ContainerEnds, TaskEnds
  <2>2. TasksLeave(p) /\ \A q \in Runs \ {p} : task'[q] = task[q]
    BY <2>1 DEF TypeInv, GcsTypeOK, TasksLeave
  <2>3. \A q \in Runs : TasksLeave(q)
    BY <2>2 DEF TasksLeave
  <2>4. \A q \in Runs : RunInv(q)' /\ Onward(q)
    BY <1>1, <2>3, RemoveRunInv DEF SafeInv, Onward, Untouched, runRow, stageRow
  <2>5. UNCHANGED <<workerVars, callVars>>
    BY <1>3 DEF ContainerEnds, executorVars
  <2>6. ASSUME NEW q \in Runs, NEW pc, NEW k \in Stages, Hand(pc, q, k)
        PROVE  Hand(pc, q, k)'
    BY <1>1, <2>3, <2>6, HandTasks DEF runRow, stageRow
  <2>7. \A c \in Callers : CallInv(c)'
    BY <2>4, <2>5, CallKept DEF SafeInv, callVars
  <2> QED
    BY <2>4, <2>5, <2>6, <2>7, OtherStepSafe
<1> QED
  BY <1>2, <1>3 DEF Environment

LEMMA StutterSafe ==
    ASSUME TypeInv, SafeInv, UNCHANGED vars
    PROVE  SafeInv'
<1>1. UNCHANGED <<workerVars, callVars>> /\ \A q \in Runs : RowKept(q)
  BY DEF vars, storeVars, gcsVars, executorVars, RowKept
<1>2. \A c \in Callers : CallInv(c)'
  BY <1>1, KeptOnward, CallKept DEF SafeInv, callVars
<1> QED
  BY <1>1, <1>2, RunKept, HandKept, OtherStepSafe DEF SafeInv

(* The rows of a run, its containers and the worker that executes it stay  *)
(* tied together, whatever fails, crashes, is cancelled or is started      *)
(* again.                                                                  *)
THEOREM SafetyInvariance == Spec => []SafeInv
<1>1. TypeInv /\ SafeInv /\ [Next]_vars => SafeInv'
  BY WorkerSafe, RecoverSafe, ClientSafe, CreateSafe, EnvironmentSafe, StutterSafe
  DEF Next, Environment
<1> QED
  BY <1>1, InitSafeInv, TypeInvariance, PTL DEF Spec
=============================================================================
