---------------------------- MODULE AssetCatalog ----------------------------
(***************************************************************************)
(* Projects, datasets and runs as rows that refer to each other, and the   *)
(* files behind the datasets.  A dataset is uploaded, registered from the  *)
(* user's candidates, or generated by a run; a row and its files are       *)
(* written and removed in separate steps.  A project is deleted in one     *)
(* transaction that locks its row and those of its runs.                   *)
(*                                                                         *)
(* Of a run only what concerns the catalogue is kept: the rows it refers   *)
(* to, its status, and the stages that read or write files (dataset_build, *)
(* dataset_export and student_train).  Its execution, with the statements  *)
(* on its own row that fail, is ExecutorService.  Every run has images.    *)
(***************************************************************************)
EXTENDS Integers

CONSTANTS
    Projects,     \* project ids
    Uploads,      \* dataset ids of the upload requests
    Imports,      \* dataset ids of registered candidates
    Runs,         \* run ids; the dataset a run generates has an id of its own
    NoRow,        \* not an id
    MaxFaults,    \* bound: statements and file operations that may fail
    MaxCrashes    \* bound: crashes of the control service

ASSUME CatalogAssumption ==
    /\ Uploads \cap Imports = {}
    /\ Uploads \cap Runs = {}
    /\ Imports \cap Runs = {}
    /\ NoRow \notin Projects \cup Uploads \cup Imports \cup Runs
    /\ MaxFaults \in Nat
    /\ MaxCrashes \in Nat

(* The id of a generated dataset is a hash of the run's id, so the run     *)
(* stands for it.                                                          *)
Datasets == Uploads \cup Imports \cup Runs

VARIABLES
    projects,     \* rows of distill_projects
    setRow,       \* [dataset -> row of distill_datasets: "absent", "present", "deleted"]
    file,         \* [dataset -> its data file: "none", "part", "whole"]
    images,       \* runs whose generated dataset has its images directory
    runStatus,    \* [run -> status, "absent" before and "deleted" after its row]
    runProject,   \* [run -> project_id]
    runSeed,      \* [run -> dataset_id]
    locking,      \* [project -> step of the deleting transaction]
    upload,       \* [upload -> step of CreateUploadedDataset]
    remove,       \* [dataset -> step of DeleteDataset]
    create,       \* [run -> step of CreatePipeline]
    worker,       \* [run -> step of the worker that executes it]
    faults, crashes

rows == <<projects, setRow, runStatus, runProject, runSeed>>
files == <<file, images>>
steps == <<locking, upload, remove, create, worker>>
vars == <<rows, files, steps, faults, crashes>>

RunStatus == {"absent", "pending", "scheduled", "running", "ended", "deleted"}
Active == {"scheduled", "running"}

(* "checkX" stands for the read of the status before stage X; "register"   *)
(* for the part of the export after its file is in place.                  *)
WorkerStep == {"idle", "checkSeed", "seed", "checkExport", "export", "publish",
               "register", "checkTrain", "train", "finish"}

(* "failed" is an upload that cleaned up after an error, "dead" one that a *)
(* crash interrupted.                                                      *)
UploadStep == {"idle", "copy", "validate", "insert", "clean", "done", "failed", "dead"}

(* The types; a run that is being created has no row, and as one that was  *)
(* created it refers to a project and a dataset.                           *)
TypeOK ==
    /\ projects \subseteq Projects
    /\ setRow \in [Datasets -> {"absent", "present", "deleted"}]
    /\ file \in [Datasets -> {"none", "part", "whole"}]
    /\ images \subseteq Runs
    /\ runStatus \in [Runs -> RunStatus]
    /\ runProject \in [Runs -> Projects \cup {NoRow}]
    /\ runSeed \in [Runs -> Datasets \cup {NoRow}]
    /\ locking \in [Projects -> {"idle", "project", "runs"}]
    /\ upload \in [Uploads -> UploadStep]
    /\ remove \in [Datasets -> {"idle", "row", "files"}]
    /\ create \in [Runs -> {"idle", "insert"}]
    /\ worker \in [Runs -> WorkerStep]
    /\ faults \in 0..MaxFaults
    /\ crashes \in 0..MaxCrashes
    /\ \A p \in Runs :
           /\ create[p] = "insert" => runStatus[p] = "absent"
           /\ create[p] = "insert" \/ runStatus[p] # "absent" =>
                  runProject[p] \in Projects /\ runSeed[p] \in Datasets

Init ==
    /\ projects = Projects
    /\ setRow = [d \in Datasets |-> "absent"]
    /\ file = [d \in Datasets |-> IF d \in Imports THEN "whole" ELSE "none"]
    /\ images = {}
    /\ runStatus = [p \in Runs |-> "absent"]
    /\ runProject = [p \in Runs |-> NoRow]
    /\ runSeed = [p \in Runs |-> NoRow]
    /\ locking = [j \in Projects |-> "idle"]
    /\ upload = [d \in Uploads |-> "idle"]
    /\ remove = [d \in Datasets |-> "idle"]
    /\ create = [p \in Runs |-> "idle"]
    /\ worker = [p \in Runs |-> "idle"]
    /\ faults = 0
    /\ crashes = 0

Fault ==
    /\ faults < MaxFaults
    /\ faults' = faults + 1

Present(p) == runStatus[p] \notin {"absent", "deleted"}

UploadGo(d, step) == upload' = [upload EXCEPT ![d] = step]
RemoveGo(d, step) == remove' = [remove EXCEPT ![d] = step]
WorkerGo(p, step) == worker' = [worker EXCEPT ![p] = step]
SetFile(d, content) == file' = [file EXCEPT ![d] = content]

(* WalkRecords comes to the end of a complete file only; CopyRecords writes *)
(* a temporary file and renames it; an image lies with its dataset.        *)
Readable(d) == file[d] = "whole"

CopyRecords(d) == SetFile(d, "whole")

StoreImages(p) == images' = images \cup {p}

(* datasetRepo.Create: ids are fresh, so the insert is never a duplicate.  *)
InsertSet(d) == setRow' = [setRow EXCEPT ![d] = "present"]

-----------------------------------------------------------------------------
(* CreateUploadedDataset: the file first, the row last; any error removes  *)
(* what was written.                                                       *)
UploadBegin(d) ==
    /\ upload[d] = "idle"
    /\ SetFile(d, "part")
    /\ UploadGo(d, "copy")
    /\ UNCHANGED <<rows, images, locking, remove, create, worker, faults, crashes>>

UploadCopy(d) ==
    /\ upload[d] = "copy"
    /\ \/ SetFile(d, "whole") /\ UploadGo(d, "validate")
       \/ SetFile(d, "none") /\ UploadGo(d, "failed")
    /\ UNCHANGED <<rows, images, locking, remove, create, worker, faults, crashes>>

(* A bug kept for the mutation runs: a refused upload keeps its file.      *)
UploadValidateKeeps(d) ==
    /\ upload[d] = "validate"
    /\ \E step \in {"insert", "failed"} : UploadGo(d, step)
    /\ UNCHANGED <<rows, files, locking, remove, create, worker, faults, crashes>>

(* The content is well-formed and not empty, or the upload is refused.     *)
UploadValidate(d) ==
    /\ upload[d] = "validate"
    /\ \/ UploadGo(d, "insert") /\ UNCHANGED file
       \/ UploadGo(d, "failed") /\ SetFile(d, "none")
    /\ UNCHANGED <<rows, images, locking, remove, create, worker, faults, crashes>>

(* A bug kept for the mutation runs: the row is announced before the file  *)
(* was validated.                                                          *)
UploadInsertEarly(d) ==
    /\ upload[d] \in {"validate", "insert"}
    /\ InsertSet(d)
    /\ UploadGo(d, IF upload[d] = "insert" THEN "done" ELSE "validate")
    /\ UNCHANGED <<projects, runStatus, runProject, runSeed, files, locking, remove, create,
                   worker, faults, crashes>>

UploadInsert(d) ==
    /\ upload[d] = "insert"
    /\ \/ InsertSet(d) /\ UploadGo(d, "done") /\ UNCHANGED faults
       \/ Fault /\ UploadGo(d, "clean") /\ (InsertSet(d) \/ UNCHANGED setRow)
    /\ UNCHANGED <<projects, runStatus, runProject, runSeed, files, locking, remove, create,
                   worker, crashes>>

(* Whatever the error was, the directory is removed.                       *)
UploadClean(d) ==
    /\ upload[d] = "clean"
    /\ SetFile(d, "none")
    /\ UploadGo(d, "failed")
    /\ UNCHANGED <<rows, images, locking, remove, create, worker, faults, crashes>>

(* CreateDataset: a candidate is registered where it lies.                 *)
RegisterImport(d) ==
    /\ setRow[d] = "absent"
    /\ Readable(d)
    /\ InsertSet(d)
    /\ UNCHANGED <<projects, runStatus, runProject, runSeed, files, steps, faults, crashes>>

-----------------------------------------------------------------------------
(* DeleteDataset: the row first; the foreign key refuses it while a run    *)
(* refers to the dataset.  Files follow, unless the dataset is a candidate *)
(* the user keeps.                                                         *)
Referenced(d) == \E p \in Runs : Present(p) /\ runSeed[p] = d

RemoveBegin(d) ==
    /\ remove[d] = "idle"
    /\ setRow[d] = "present"
    /\ RemoveGo(d, "row")
    /\ UNCHANGED <<rows, files, locking, upload, create, worker, faults, crashes>>

(* A bug kept for the mutation runs: only uploads are removed.             *)
AfterRowUploads(d) == IF d \in Uploads THEN "files" ELSE "idle"

AfterRow(d) == IF d \in Imports THEN "idle" ELSE "files"

RemoveRow(d) ==
    /\ remove[d] = "row"
    /\ \/ /\ ~Referenced(d)
          /\ setRow' = [setRow EXCEPT ![d] = "deleted"]
          /\ \/ RemoveGo(d, AfterRow(d)) /\ UNCHANGED faults
             \/ RemoveGo(d, "idle") /\ Fault
       \/ /\ \/ Referenced(d) /\ UNCHANGED faults
             \/ Fault
          /\ RemoveGo(d, "idle")
          /\ UNCHANGED setRow
    /\ UNCHANGED <<projects, runStatus, runProject, runSeed, files, locking, upload, create,
                   worker, crashes>>

(* removeOwnedDatasetArtifact: the whole directory of the dataset; an      *)
(* error is only logged.                                                   *)
RemoveFiles(d) ==
    /\ remove[d] = "files"
    /\ \/ SetFile(d, "none") /\ images' = images \ {d} /\ UNCHANGED faults
       \/ Fault /\ UNCHANGED files
    /\ RemoveGo(d, "idle")
    /\ UNCHANGED <<rows, locking, upload, create, worker, crashes>>

-----------------------------------------------------------------------------
(* projectRepo.Delete locks the project against new runs, then each run    *)
(* against a change of status.  The first definition is a bug kept for the *)
(* mutation runs: the runs are read without FOR UPDATE.                    *)
RunLockedNever(p) == FALSE

RunLocked(p) == runProject[p] # NoRow /\ locking[runProject[p]] = "runs"

LockProject(j) ==
    /\ j \in projects
    /\ locking[j] = "idle"
    /\ locking' = [locking EXCEPT ![j] = "project"]
    /\ UNCHANGED <<rows, files, upload, remove, create, worker, faults, crashes>>

RunsOf(j) == {p \in Runs : Present(p) /\ runProject[p] = j}

LockRuns(j) ==
    /\ locking[j] = "project"
    /\ locking' = [locking EXCEPT ![j] =
                      IF \E p \in RunsOf(j) : runStatus[p] \in Active THEN "idle" ELSE "runs"]
    /\ UNCHANGED <<rows, files, upload, remove, create, worker, faults, crashes>>

(* DELETE and COMMIT: the rows of the runs go with that of the project; or *)
(* the transaction is rolled back.                                         *)
CommitDelete(j) ==
    /\ locking[j] = "runs"
    /\ locking' = [locking EXCEPT ![j] = "idle"]
    /\ \/ /\ projects' = projects \ {j}
          /\ runStatus' = [p \in Runs |-> IF p \in RunsOf(j) THEN "deleted" ELSE runStatus[p]]
          /\ (UNCHANGED faults \/ Fault)
       \/ Fault /\ UNCHANGED <<projects, runStatus>>
    /\ UNCHANGED <<setRow, runProject, runSeed, files, upload, remove, create, worker, crashes>>

-----------------------------------------------------------------------------
(* CreatePipeline reads the project and the dataset and walks its records, *)
(* then inserts the run; by then both may be gone, and the foreign keys    *)
(* refuse it.  A locked project makes the insert wait.                     *)
ValidateRun(p, j, d) ==
    /\ runStatus[p] = "absent" /\ create[p] = "idle"
    /\ j \in projects /\ setRow[d] = "present" /\ Readable(d)
    /\ create' = [create EXCEPT ![p] = "insert"]
    /\ runProject' = [runProject EXCEPT ![p] = j]
    /\ runSeed' = [runSeed EXCEPT ![p] = d]
    /\ UNCHANGED <<projects, setRow, runStatus, files, locking, upload, remove, worker, faults,
                   crashes>>

(* A bug kept for the mutation runs: no foreign keys.                      *)
KeysHoldNever(p) == TRUE

KeysHold(p) == runProject[p] \in projects /\ setRow[runSeed[p]] = "present"

InsertRun(p) ==
    /\ create[p] = "insert"
    /\ locking[runProject[p]] = "idle"
    /\ create' = [create EXCEPT ![p] = "idle"]
    /\ \/ /\ KeysHold(p)
          /\ runStatus' = [runStatus EXCEPT ![p] = "pending"]
          /\ UNCHANGED <<runProject, runSeed>>
          /\ (UNCHANGED faults \/ Fault)
       \/ /\ (~KeysHold(p) /\ UNCHANGED faults) \/ Fault
          /\ runProject' = [runProject EXCEPT ![p] = NoRow]
          /\ runSeed' = [runSeed EXCEPT ![p] = NoRow]
          /\ UNCHANGED runStatus
    /\ UNCHANGED <<projects, setRow, files, locking, upload, remove, worker, crashes>>

(* A bug kept for the mutation runs: the update is not guarded.            *)
SetRunBlind(p, from, to) ==
    /\ runStatus' = [runStatus EXCEPT ![p] = to]
    /\ UNCHANGED <<projects, setRow, runProject, runSeed, files, locking, upload, remove, create,
                   faults, crashes>>

(* A guarded UPDATE of a run's status: it waits for the lock of the row.   *)
SetRun(p, from, to) ==
    /\ runStatus[p] \in from
    /\ ~RunLocked(p)
    /\ runStatus' = [runStatus EXCEPT ![p] = to]
    /\ UNCHANGED <<projects, setRow, runProject, runSeed, files, locking, upload, remove, create,
                   faults, crashes>>

StartRun(p) == SetRun(p, {"pending"}, "scheduled") /\ UNCHANGED worker

CancelRun(p) == SetRun(p, {"pending"} \cup Active, "ended") /\ UNCHANGED worker

ClaimRun(p) ==
    /\ worker[p] = "idle"
    /\ SetRun(p, {"scheduled"}, "running")
    /\ WorkerGo(p, "checkSeed")

(* The process died while it executed the run; recovery fails it.          *)
RecoverRun(p) ==
    /\ worker[p] = "idle"
    /\ SetRun(p, {"running"}, "ended")
    /\ UNCHANGED worker

-----------------------------------------------------------------------------
(* Before each stage, and after the last, the worker reads the run and     *)
(* writes the stage; it leaves when the run was cancelled or its rows are  *)
(* gone.  CheckRunAgain is a bug kept for the mutation runs: it waits for  *)
(* the run to be running again.                                            *)
StageAfter == [checkSeed |-> "seed", checkExport |-> "export", checkTrain |-> "train"]

CheckRunAgain(p) ==
    /\ worker[p] \in DOMAIN StageAfter
    /\ WorkerGo(p, IF runStatus[p] = "running" THEN StageAfter[worker[p]] ELSE worker[p])
    /\ UNCHANGED <<rows, files, locking, upload, remove, create, faults, crashes>>

CheckRun(p) ==
    /\ worker[p] \in DOMAIN StageAfter
    /\ WorkerGo(p, IF runStatus[p] = "running" THEN StageAfter[worker[p]] ELSE "idle")
    /\ UNCHANGED <<rows, files, locking, upload, remove, create, faults, crashes>>

(* A stage that fails ends the run, if its row still says it runs.         *)
FailRun(p) ==
    /\ ~RunLocked(p)
    /\ runStatus' = [runStatus EXCEPT ![p] = IF @ = "running" THEN "ended" ELSE @]
    /\ WorkerGo(p, "idle")
    /\ UNCHANGED <<projects, runProject, runSeed, locking, upload, remove, create, crashes>>

(* prepareDataset2 copies the records of the seed dataset into the run.    *)
BuildSeed(p) ==
    /\ worker[p] = "seed"
    /\ LET d == runSeed[p]
       IN \/ /\ setRow[d] = "present" /\ Readable(d)
             /\ WorkerGo(p, "checkExport")
             /\ UNCHANGED <<rows, locking, upload, remove, create, crashes>>
          \/ (setRow[d] # "present" \/ ~Readable(d)) /\ FailRun(p) /\ UNCHANGED setRow
    /\ UNCHANGED <<files, faults>>

(* executeExport2 first normalises the records in place; with images, it   *)
(* stores them in the directory of the dataset to be and writes their      *)
(* paths into the training data of the run.                                *)
ExportImages(p) ==
    /\ worker[p] = "export"
    /\ \/ /\ WorkerGo(p, "publish") /\ StoreImages(p)
          /\ UNCHANGED <<rows, locking, upload, remove, create, crashes>>
       \/ FailRun(p) /\ UNCHANGED <<setRow, images>>
    /\ UNCHANGED <<file, faults>>

(* CopyRecords publishes the data file with a rename, whole or not at all. *)
ExportFile(p) ==
    /\ worker[p] = "publish"
    /\ \/ /\ CopyRecords(p) /\ WorkerGo(p, "register")
          /\ UNCHANGED <<rows, locking, upload, remove, create, crashes>>
       \/ FailRun(p) /\ UNCHANGED <<setRow, file>>
    /\ UNCHANGED <<images, faults>>

ExportRow(p) ==
    /\ worker[p] = "register"
    /\ \/ /\ InsertSet(p) /\ WorkerGo(p, "checkTrain")
          /\ UNCHANGED <<projects, runStatus, runProject, runSeed, locking, upload, remove,
                         create, crashes, faults>>
       \/ /\ Fault /\ FailRun(p)
          /\ (InsertSet(p) \/ UNCHANGED setRow)
    /\ UNCHANGED files

(* student_train reads the training data and the images it names.          *)
Train(p) ==
    /\ worker[p] = "train"
    /\ \/ /\ WorkerGo(p, "finish")
          /\ UNCHANGED <<rows, locking, upload, remove, create, crashes>>
       \/ FailRun(p) /\ UNCHANGED setRow
    /\ UNCHANGED <<files, faults>>

Finish(p) ==
    /\ worker[p] = "finish"
    /\ FailRun(p)
    /\ UNCHANGED <<setRow, files, faults>>

Execute(p) ==
    \/ CheckRun(p) \/ BuildSeed(p) \/ ExportImages(p) \/ ExportFile(p) \/ ExportRow(p)
    \/ Train(p) \/ Finish(p)

-----------------------------------------------------------------------------
(* Every request and worker is lost, open transactions are rolled back.    *)
Crash ==
    /\ crashes < MaxCrashes
    /\ crashes' = crashes + 1
    /\ locking' = [j \in Projects |-> "idle"]
    /\ upload' = [d \in Uploads |->
                     IF upload[d] \in {"copy", "validate", "insert", "clean"} THEN "dead"
                     ELSE upload[d]]
    /\ remove' = [d \in Datasets |-> "idle"]
    /\ create' = [p \in Runs |-> "idle"]
    /\ worker' = [p \in Runs |-> "idle"]
    /\ runProject' = [p \in Runs |-> IF runStatus[p] = "absent" THEN NoRow ELSE runProject[p]]
    /\ runSeed' = [p \in Runs |-> IF runStatus[p] = "absent" THEN NoRow ELSE runSeed[p]]
    /\ UNCHANGED <<projects, setRow, runStatus, files, faults>>

Upload(d) ==
    \/ UploadBegin(d) \/ UploadCopy(d) \/ UploadValidate(d) \/ UploadInsert(d) \/ UploadClean(d)

Remove(d) == RemoveRow(d) \/ RemoveFiles(d)

DeleteProject(j) == LockRuns(j) \/ CommitDelete(j)

Next ==
    \/ \E d \in Uploads : Upload(d)
    \/ \E d \in Imports : RegisterImport(d)
    \/ \E d \in Datasets : RemoveBegin(d) \/ Remove(d)
    \/ \E j \in Projects : LockProject(j) \/ DeleteProject(j)
    \/ \E p \in Runs, j \in Projects, d \in Datasets : ValidateRun(p, j, d)
    \/ \E p \in Runs :
           \/ InsertRun(p) \/ StartRun(p) \/ CancelRun(p) \/ ClaimRun(p) \/ RecoverRun(p)
           \/ Execute(p)
    \/ Crash

Spec == Init /\ [][Next]_vars

(* Requests that were accepted and workers go on; users do as they like.   *)
FairSpec ==
    /\ Spec
    /\ \A d \in Datasets : WF_vars(Remove(d))
    /\ \A j \in Projects : WF_vars(DeleteProject(j))
    /\ \A p \in Runs : WF_vars(Execute(p))

-----------------------------------------------------------------------------
(* An upload whose insert failed is cleaned up, although the row may have  *)
(* been written: its caller was told that it failed.                       *)
Torn(d) == d \in Uploads /\ upload[d] \in {"clean", "failed", "dead"}

(* A dataset in the catalogue has its complete data file, whatever failed  *)
(* or crashed while it came into being, was registered or exported.        *)
CatalogHasFiles ==
    \A d \in Datasets : setRow[d] = "present" /\ ~Torn(d) => file[d] = "whole"

(* The inputs of a run stay: its project, its dataset and the records in   *)
(* it are there as long as the run is, though validated long before the    *)
(* run was inserted, and though deletions run side by side.                *)
RunsKeepInputs ==
    \A p \in Runs :
        Present(p) =>
            /\ runProject[p] \in projects
            /\ setRow[runSeed[p]] = "present"
            /\ file[runSeed[p]] = "whole" \/ Torn(runSeed[p])

(* No data file is forgotten: one that is not a candidate of the user      *)
(* belongs to a dataset in the catalogue, or whoever is writing it will    *)
(* announce or remove it, or whoever deleted its row will remove it;       *)
(* unless an operation failed or the service crashed.                      *)
FilesHaveOwner ==
    \A d \in Uploads \cup Runs :
        faults = 0 /\ crashes = 0 /\ file[d] # "none" =>
            \/ setRow[d] = "present"
            \/ remove[d] = "files"
            \/ d \in Uploads /\ upload[d] \in {"copy", "validate", "insert"}
            \/ d \in Runs /\ worker[d] = "register"

(* A project is not deleted under a run that is scheduled or running.      *)
ActiveRunsKept ==
    [][\A p \in Runs : runStatus[p] \in Active => runStatus'[p] # "deleted"]_vars

(* While a run trains, the images named in its training data are there:    *)
(* deleting a dataset takes no file from a run that still uses it.  It     *)
(* fails: they lie with the generated dataset, to which no key of the run  *)
(* refers (DeleteDataset, persistMultimodalImage).                         *)
TrainingImagesKept == \A p \in Runs : worker[p] = "train" => p \in images

(* A worker whose run was cancelled, or deleted with its project, leaves.  *)
WorkersLeave == \A p \in Runs : runStatus[p] \in {"ended", "deleted"} ~> worker[p] = "idle"

(* What a deleted dataset leaves behind is removed, if nothing fails.      *)
DeletedFilesGo ==
    \A d \in Uploads \cup Runs :
        setRow[d] = "deleted" ~> file[d] = "none" \/ faults > 0 \/ crashes > 0
=============================================================================
