-------------------------- MODULE MCControlService --------------------------
(* Constants of the model-checking runs of ControlService.                 *)
EXTENDS RecoveredRuns, TLC

CONSTANTS r1, r2, w1, w2, c1, c2, rec, none

OneRun == {r1}
TwoRuns == {r1, r2}
OneWorker == {w1}
TwoWorkers == {w1, w2}
OneClient == {c1}
TwoClients == {c1, c2}

(* Runs, workers and clients are interchangeable in the safety runs.       *)
Symmetry == Permutations(TwoRuns) \cup Permutations(TwoWorkers) \cup Permutations(TwoClients)
=============================================================================
