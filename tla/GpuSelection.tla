---------------------------- MODULE GpuSelection ----------------------------
(***************************************************************************)
(* The cards of one training node, from their selection to the container.  *)
(* gcs-v2 allocates the cards; programs outside the platform may use them  *)
(* as well, which only the telemetry of the node shows, some time later    *)
(* and by the clock of the node.  The service decides on snapshots: when a *)
(* run is created or started, and once more before its training container  *)
(* is created.                                                             *)
(*                                                                         *)
(* Time counts in units of 30 seconds.  All cards are NVIDIA cards of an   *)
(* x86_64 node, as both decisions demand.                                  *)
(***************************************************************************)
EXTENDS Integers

CONSTANTS
    Cards,    \* cards of the node
    Runs,     \* runs that train a student
    Free,     \* not a run
    Fresh,    \* age up to which a measurement is used: 2 minutes
    Skew,     \* how far ahead of the service a measurement may be: 30 seconds
    Ahead,    \* how far the clock of the node really is ahead (or behind)
    MaxAge    \* bound: ages above it are not told apart

ASSUME GpuAssumption ==
    /\ Free \notin Runs
    /\ Fresh \in Nat
    /\ Skew \in Nat
    /\ Ahead \in Int
    /\ MaxAge \in Nat \ {0}
    /\ MaxAge > Fresh + Ahead + 1

VARIABLES
    enrolled,   \* gcs-v2 schedules on the node (brain_workerenablearray)
    holder,     \* [card -> run that gcs-v2 gave it to, or Free]
    foreign,    \* [card -> for how long others have used it, 0 if they do not]
    age,        \* of the last measurement
    reading,    \* [card -> what it said]
    status,     \* [run -> step]
    selected,   \* [run -> its xpu_indices]
    pool        \* [run -> the cards gcs-v2 offered when its launch was checked]

world == <<enrolled, holder, foreign>>
telemetry == <<age, reading>>
vars == <<world, telemetry, status, selected, pool>>

(* The measurements of a card, as far as UnavailableReason tells them      *)
(* apart.  A card that is "unmeasured" lacks a value every use needs, one  *)
(* that is "blind" its processes or its software flag only.                *)
Reading == {"unmeasured", "broken", "blind", "reserved", "busy", "idle"}

Step == {"absent", "pending", "scheduled", "checking", "creating", "training", "ended"}

(* The types; what runs selected is not empty.                             *)
TypeOK ==
    /\ enrolled \in BOOLEAN
    /\ holder \in [Cards -> Runs \cup {Free}]
    /\ foreign \in [Cards -> 0..MaxAge]
    /\ age \in 0..MaxAge
    /\ reading \in [Cards -> Reading]
    /\ status \in [Runs -> Step]
    /\ selected \in [Runs -> SUBSET Cards]
    /\ pool \in [Runs -> SUBSET Cards]
    /\ \A r \in Runs : status[r] # "absent" => selected[r] # {}

Init ==
    /\ enrolled = TRUE
    /\ holder = [c \in Cards |-> Free]
    /\ foreign = [c \in Cards |-> 0]
    /\ age = 0
    /\ reading = [c \in Cards |-> "unmeasured"]
    /\ status = [r \in Runs |-> "absent"]
    /\ selected = [r \in Runs |-> {}]
    /\ pool = [r \in Runs |-> {}]

-----------------------------------------------------------------------------
(* The decisions.  UnavailableReason is "" exactly for a usable card; the  *)
(* first form is a bug kept for the mutation runs.                         *)
UsableAnyAge(c, idle) ==
    reading[c] \in IF idle THEN {"idle"} ELSE {"blind", "reserved", "busy", "idle"}

Usable(c, idle) ==
    /\ -Skew <= age - Ahead
    /\ age - Ahead <= Fresh
    /\ reading[c] \in IF idle THEN {"idle"} ELSE {"blind", "reserved", "busy", "idle"}

(* enable_xpuarray: what the allocator of gcs-v2 has not given away.       *)
Enabled == {c \in Cards : holder[c] = Free}

(* NormalizeResourceRequest: one node, at least one card, none twice.      *)
Normalized(S) == S # {}

(* ValidateGPUSelection, given what gcs-v2 said of the node and its cards.  *)
(* It does not ask for the state of the node.                              *)
Accepts(S, schedulable, offered, idle) ==
    /\ schedulable
    /\ S # {}
    /\ \A c \in S : Usable(c, idle) /\ (idle => c \in offered)

(* ResourceService.Validate; the first form is a bug kept for the mutation *)
(* runs: it returns early, as for a run that trains no student.            *)
ValidateNothing(S, idle) == TRUE

Validate(S, idle) == Normalized(S) /\ Accepts(S, enrolled, Enabled, idle)

-----------------------------------------------------------------------------
Go(r, step) == status' = [status EXCEPT ![r] = step]

(* CreatePipeline and StartPipeline accept a busy card.                    *)
Create(r, S) ==
    /\ status[r] = "absent"
    /\ Validate(S, FALSE)
    /\ selected' = [selected EXCEPT ![r] = S]
    /\ Go(r, "pending")
    /\ UNCHANGED <<world, telemetry, pool>>

Start(r) ==
    /\ status[r] = "pending"
    /\ Validate(selected[r], FALSE)
    /\ Go(r, "scheduled")
    /\ UNCHANGED <<world, telemetry, selected, pool>>

(* Before the container, idle cards are demanded: the pool is read first,  *)
(* then the telemetry.  Any request may fail, which ends the run.          *)
ReadPool(r) ==
    /\ status[r] = "scheduled"
    /\ \/ enrolled /\ Go(r, "checking") /\ pool' = [pool EXCEPT ![r] = Enabled]
       \/ Go(r, "ended") /\ UNCHANGED pool
    /\ UNCHANGED <<world, telemetry, selected>>

Launchable(r) == Accepts(selected[r], TRUE, pool[r], TRUE)

(* A bug kept for the mutation runs: refused cards are waited for.         *)
ReadTelemetryWaiting(r) ==
    /\ status[r] = "checking"
    /\ IF Launchable(r) THEN Go(r, "creating") ELSE Go(r, "scheduled")
    /\ UNCHANGED <<world, telemetry, selected, pool>>

ReadTelemetry(r) ==
    /\ status[r] = "checking"
    /\ \/ Launchable(r) /\ Go(r, "creating")
       \/ Go(r, "ended")
    /\ UNCHANGED <<world, telemetry, selected, pool>>

(* gcs-v2 gives a task all its cards or refuses it.                        *)
Allocate(r) ==
    /\ status[r] = "creating"
    /\ \/ /\ enrolled /\ selected[r] \subseteq Enabled
          /\ holder' = [c \in Cards |-> IF c \in selected[r] THEN r ELSE holder[c]]
          /\ Go(r, "training")
       \/ Go(r, "ended") /\ UNCHANGED holder
    /\ UNCHANGED <<enrolled, foreign, telemetry, selected, pool>>

TrainingEnds(r) ==
    /\ status[r] = "training"
    /\ holder' = [c \in Cards |-> IF holder[c] = r THEN Free ELSE holder[c]]
    /\ Go(r, "ended")
    /\ UNCHANGED <<enrolled, foreign, telemetry, selected, pool>>

-----------------------------------------------------------------------------
(* Time passes; the node reports, with or without some of the values;      *)
(* others take and leave cards; the node is drained or unplugged.          *)
Older(n) == IF n < MaxAge THEN n + 1 ELSE n

Tick ==
    /\ age' = Older(age)
    /\ foreign' = [c \in Cards |-> IF foreign[c] = 0 THEN 0 ELSE Older(foreign[c])]
    /\ UNCHANGED <<enrolled, holder, reading, status, selected, pool>>

Measured(c) ==
    {"unmeasured", "broken", "blind", "reserved"} \cup
    IF foreign[c] > 0 THEN {"busy"} ELSE IF holder[c] # Free THEN {"busy", "idle"} ELSE {"idle"}

Report ==
    /\ age' = 0
    /\ reading' \in [Cards -> Reading]
    /\ \A c \in Cards : reading'[c] \in Measured(c)
    /\ UNCHANGED <<world, status, selected, pool>>

ForeignUse(c) ==
    /\ foreign' = [foreign EXCEPT ![c] = IF @ = 0 THEN 1 ELSE 0]
    /\ UNCHANGED <<enrolled, holder, telemetry, status, selected, pool>>

NodeChanges ==
    /\ enrolled' \in BOOLEAN
    /\ UNCHANGED <<holder, foreign, telemetry, status, selected, pool>>

Launch(r) == ReadPool(r) \/ ReadTelemetry(r) \/ Allocate(r)

Next ==
    \/ \E r \in Runs, S \in SUBSET Cards : Create(r, S)
    \/ \E r \in Runs : Start(r) \/ Launch(r) \/ TrainingEnds(r)
    \/ Tick \/ Report \/ NodeChanges
    \/ \E c \in Cards : ForeignUse(c)

Spec == Init /\ [][Next]_vars

(* The worker that executes a run goes on.                                 *)
FairSpec == Spec /\ \A r \in Runs : WF_vars(Launch(r))

-----------------------------------------------------------------------------
(* No training is launched on a card that others have used for longer than *)
(* a measurement may be old, by the clock of the node: whatever the pool   *)
(* said when it was read, and however long ago the card was selected.      *)
LongUseRefused ==
    [][\A r \in Runs :
           status[r] = "checking" /\ status'[r] = "creating" =>
               \A c \in selected[r] : foreign[c] <= Fresh + Ahead + 1]_vars

(* A run whose training is due trains or ends, whatever becomes of the     *)
(* cards and of the other runs that selected them.                         *)
RunsSettle ==
    \A r \in Runs : status[r] = "scheduled" ~> status[r] \in {"training", "ended"}
=============================================================================
