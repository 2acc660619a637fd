------------------------- MODULE GpuSelection_proofs ------------------------
(***************************************************************************)
(* For any number of cards and runs, any clock of the node and any bound   *)
(* on the ages: what a launch may know of the use of a card by others.     *)
(***************************************************************************)
EXTENDS GpuSelection, TLAPS

(* A card that the last measurement found idle has been in foreign use     *)
(* since that measurement at most.                                         *)
ReadingInv == \A c \in Cards : reading[c] = "idle" => foreign[c] <= age + 1

-----------------------------------------------------------------------------
(* Every step keeps the types.                                             *)
LEMMA GpuTypeStep == TypeOK /\ [Next]_vars => TypeOK'
<1> SUFFICES ASSUME TypeOK, [Next]_vars
             PROVE  TypeOK'
  OBVIOUS
<1> USE GpuAssumption DEF TypeOK, Step, world, telemetry
<1>1. ASSUME NEW r \in Runs, NEW S \in SUBSET Cards, Create(r, S)
      PROVE  TypeOK'
  BY <1>1 DEF Create, Go, Validate, Normalized
<1>2. ASSUME NEW r \in Runs, Start(r)
      PROVE  TypeOK'
  BY <1>2 DEF Start, Go
<1>3. ASSUME NEW r \in Runs, ReadPool(r)
      PROVE  TypeOK'
  BY <1>3 DEF ReadPool, Go, Enabled
<1>4. ASSUME NEW r \in Runs, ReadTelemetry(r)
      PROVE  TypeOK'
  BY <1>4 DEF ReadTelemetry, Go
<1>5. ASSUME NEW r \in Runs, Allocate(r)
      PROVE  TypeOK'
  BY <1>5 DEF Allocate, Go
<1>6. ASSUME NEW r \in Runs, TrainingEnds(r)
      PROVE  TypeOK'
  BY <1>6 DEF TrainingEnds, Go
<1>7. CASE Tick
  BY <1>7 DEF Tick, Older
<1>8. CASE Report
  BY <1>8 DEF Report
<1>9. CASE NodeChanges
  BY <1>9 DEF NodeChanges
<1>10. ASSUME NEW c \in Cards, ForeignUse(c)
       PROVE  TypeOK'
  BY <1>10 DEF ForeignUse
<1>11. CASE UNCHANGED vars
  BY <1>11 DEF vars
<1> QED
  BY <1>1, <1>2, <1>3, <1>4, <1>5, <1>6, <1>7, <1>8, <1>9, <1>10, <1>11 DEF Next, Launch

(* Only Tick, Report and ForeignUse touch what ReadingInv speaks of: both  *)
(* ages grow together, and a measurement finds a card in use busy.         *)
LEMMA ReadingStep == TypeOK /\ ReadingInv /\ [Next]_vars => ReadingInv'
<1> SUFFICES ASSUME TypeOK, ReadingInv, [Next]_vars
             PROVE  ReadingInv'
  OBVIOUS
<1> USE DEF ReadingInv
<1>1. CASE Tick
  BY <1>1, GpuAssumption DEF Tick, Older, TypeOK
<1>2. CASE Report
  BY <1>2, GpuAssumption DEF Report, Measured, TypeOK, world
<1>3. ASSUME NEW c \in Cards, ForeignUse(c)
      PROVE  ReadingInv'
  BY <1>3, GpuAssumption DEF ForeignUse, TypeOK, telemetry
<1>4. CASE UNCHANGED <<foreign, age, reading>>
  BY <1>4
<1>5. \/ Tick \/ Report \/ (\E c \in Cards : ForeignUse(c))
      \/ UNCHANGED <<foreign, age, reading>>
  BY DEF Next, vars, world, telemetry, Create, Start, Launch, ReadPool, ReadTelemetry, Allocate,
         TrainingEnds, NodeChanges
<1> QED
  BY <1>1, <1>2, <1>3, <1>4, <1>5

-----------------------------------------------------------------------------
(* The state is always of its types.                                       *)
THEOREM GpuTypeCorrect == Spec => []TypeOK
<1>1. Init => TypeOK
  BY GpuAssumption DEF Init, TypeOK, Reading, Step
<1> QED
  BY <1>1, GpuTypeStep, PTL DEF Spec

(* No training is launched on a card in long foreign use.                  *)
THEOREM LongUseIsRefused == Spec => LongUseRefused
<1>1. Init => ReadingInv
  BY DEF Init, ReadingInv
<1>2. TypeOK /\ ReadingInv /\ [Next]_vars =>
          [\A r \in Runs :
               status[r] = "checking" /\ status'[r] = "creating" =>
                   \A c \in selected[r] : foreign[c] <= Fresh + Ahead + 1]_vars
  <2> SUFFICES ASSUME TypeOK, ReadingInv, [Next]_vars, NEW r \in Runs,
                      status[r] = "checking", status'[r] = "creating",
                      NEW c \in selected[r]
               PROVE  foreign[c] <= Fresh + Ahead + 1
    OBVIOUS
  <2> USE DEF TypeOK, Step
  <2>1. Launchable(r)
    <3>1. ASSUME NEW q \in Runs, ReadTelemetry(q)
          PROVE  Launchable(r)
      BY <3>1 DEF ReadTelemetry, Go
    <3>2. ASSUME NEW q \in Runs, NEW S \in SUBSET Cards, Create(q, S)
          PROVE  FALSE
      BY <3>2 DEF Create, Go
    <3>3. ASSUME NEW q \in Runs, Start(q) \/ ReadPool(q)
          PROVE  FALSE
      BY <3>3 DEF Start, ReadPool, Go
    <3>4. ASSUME NEW q \in Runs, Allocate(q) \/ TrainingEnds(q)
          PROVE  FALSE
      BY <3>4 DEF Allocate, TrainingEnds, Go
    <3>5. CASE UNCHANGED status
      BY <3>5
    <3> QED
      BY <3>1, <3>2, <3>3, <3>4, <3>5
      DEF Next, Launch, vars, Tick, Report, NodeChanges, ForeignUse
  <2>2. Usable(c, TRUE)
    BY <2>1 DEF Launchable, Accepts
  <2>3. c \in Cards /\ reading[c] = "idle" /\ age - Ahead <= Fresh
    BY <2>2 DEF Usable
  <2> QED
    BY <2>3, GpuAssumption DEF ReadingInv
<1> QED
  BY <1>1, <1>2, ReadingStep, GpuTypeCorrect, PTL DEF Spec, LongUseRefused
=============================================================================
