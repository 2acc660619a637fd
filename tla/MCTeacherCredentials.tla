------------------------ MODULE MCTeacherCredentials ------------------------
(* A small instance of TeacherCredentials.                                 *)
EXTENDS TeacherCredentials, Naturals, FiniteSets, TLC

RunSymmetry == Permutations(Runs)

Stored == Cardinality({r \in Runs : teacher[r] # Absent})

Blank == Named(project.where, project.service) = NoPlace /\ Secrets(project) = {Empty}

(* The bound of the passing run.  A chain of clones needs two runs, the    *)
(* updates of the project do not: a run only ever copies the row as it is. *)
(* While there is a run, one request is in progress at a time.             *)
ChainOrUpdates ==
    \/ Stored = 0
    \/ Stored = 1 /\ (update = Absent \/ create = Absent)
    \/ update = Absent /\ Blank
=============================================================================
