------------------------ MODULE AssetCatalog_proofs -------------------------
(***************************************************************************)
(* What AssetCatalog promises, for any number of projects, datasets, runs, *)
(* faults and crashes.  The inductive invariant has a part for the rows    *)
(* and the locks, one for the files of candidates and uploads, and one for *)
(* the datasets that runs generate.                                        *)
(***************************************************************************)
EXTENDS AssetCatalog, TLAPS

(* The keys: while a transaction that deletes a project has the locks of   *)
(* its runs, none of them is scheduled or running; and the rows a run      *)
(* refers to are there.                                                    *)
LockInv == \A p \in Runs : RunLocked(p) => runStatus[p] \notin Active

KeyInv ==
    \A p \in Runs :
        Present(p) => runProject[p] \in projects /\ setRow[runSeed[p]] = "present"

(* The files: a candidate is never touched; an upload has its file before  *)
(* its row; files are removed after the row.                               *)
FileInv ==
    /\ \A d \in Imports : file[d] = "whole"
    /\ \A d \in Datasets :
           /\ remove[d] = "row" => setRow[d] = "present"
           /\ remove[d] = "files" => setRow[d] = "deleted" /\ d \notin Imports
    /\ \A d \in Uploads :
           /\ upload[d] \in {"idle", "copy", "validate", "insert"} => setRow[d] = "absent"
           /\ upload[d] \in {"validate", "insert"} => file[d] = "whole"

(* The generated dataset of a run: it has no row before the export, and    *)
(* its file before its row; a run is executed once.                        *)
ExportInv ==
    \A p \in Runs :
        /\ runStatus[p] \in {"absent", "pending", "scheduled"} =>
               setRow[p] = "absent" /\ worker[p] = "idle"
        /\ worker[p] \in {"checkSeed", "seed", "checkExport", "export", "publish", "register"} =>
               setRow[p] = "absent"
        /\ worker[p] = "register" => file[p] = "whole"

CatalogInv == LockInv /\ KeyInv /\ FileInv /\ ExportInv /\ CatalogHasFiles

-----------------------------------------------------------------------------
(* Every step keeps the types.                                             *)
LEMMA TypeStep == TypeOK /\ [Next]_vars => TypeOK'
<1> SUFFICES ASSUME TypeOK, [Next]_vars
             PROVE  TypeOK'
  OBVIOUS
<1> USE CatalogAssumption DEF TypeOK, Datasets, RunStatus, WorkerStep, UploadStep, rows, files, steps
<1>1. ASSUME NEW d \in Uploads, UploadBegin(d)
      PROVE  TypeOK'
  BY <1>1 DEF UploadBegin, UploadGo, SetFile
<1>2. ASSUME NEW d \in Uploads, UploadCopy(d)
      PROVE  TypeOK'
  BY <1>2 DEF UploadCopy, UploadGo, SetFile
<1>3. ASSUME NEW d \in Uploads, UploadValidate(d)
      PROVE  TypeOK'
  BY <1>3 DEF UploadValidate, UploadGo, SetFile
<1>4. ASSUME NEW d \in Uploads, UploadInsert(d)
      PROVE  TypeOK'
  BY <1>4 DEF UploadInsert, UploadGo, InsertSet, Fault
<1>5. ASSUME NEW d \in Uploads, UploadClean(d)
      PROVE  TypeOK'
  BY <1>5 DEF UploadClean, UploadGo, SetFile
<1>6. ASSUME NEW d \in Imports, RegisterImport(d)
      PROVE  TypeOK'
  BY <1>6 DEF RegisterImport, InsertSet, Readable
<1>7. ASSUME NEW d \in Datasets, RemoveBegin(d)
      PROVE  TypeOK'
  BY <1>7 DEF RemoveBegin, RemoveGo
<1>8. ASSUME NEW d \in Datasets, RemoveRow(d)
      PROVE  TypeOK'
  BY <1>8 DEF RemoveRow, RemoveGo, AfterRow, Fault
<1>9. ASSUME NEW d \in Datasets, RemoveFiles(d)
      PROVE  TypeOK'
  BY <1>9 DEF RemoveFiles, RemoveGo, SetFile, Fault
<1>10. ASSUME NEW j \in Projects, LockProject(j)
      PROVE  TypeOK'
  BY <1>10 DEF LockProject
<1>11. ASSUME NEW j \in Projects, LockRuns(j)
      PROVE  TypeOK'
  BY <1>11 DEF LockRuns
<1>12. ASSUME NEW j \in Projects, CommitDelete(j)
      PROVE  TypeOK'
  BY <1>12 DEF CommitDelete, Fault, RunsOf, Present
<1>13. ASSUME NEW p \in Runs, InsertRun(p)
      PROVE  TypeOK'
  BY <1>13 DEF InsertRun, Fault, KeysHold
<1>14. ASSUME NEW p \in Runs, StartRun(p)
      PROVE  TypeOK'
  BY <1>14 DEF StartRun, SetRun
<1>15. ASSUME NEW p \in Runs, CancelRun(p)
      PROVE  TypeOK'
  BY <1>15 DEF CancelRun, SetRun, Active
<1>16. ASSUME NEW p \in Runs, ClaimRun(p)
      PROVE  TypeOK'
  BY <1>16 DEF ClaimRun, SetRun, WorkerGo
<1>17. ASSUME NEW p \in Runs, RecoverRun(p)
      PROVE  TypeOK'
  BY <1>17 DEF RecoverRun, SetRun
<1>18. ASSUME NEW p \in Runs, CheckRun(p)
      PROVE  TypeOK'
  BY <1>18 DEF CheckRun, WorkerGo, StageAfter
<1>19. ASSUME NEW p \in Runs, BuildSeed(p)
      PROVE  TypeOK'
  BY <1>19 DEF BuildSeed, WorkerGo, FailRun, Readable
<1>20. ASSUME NEW p \in Runs, ExportImages(p)
      PROVE  TypeOK'
  BY <1>20 DEF ExportImages, WorkerGo, FailRun, StoreImages
<1>21. ASSUME NEW p \in Runs, ExportFile(p)
      PROVE  TypeOK'
  BY <1>21 DEF ExportFile, WorkerGo, FailRun, CopyRecords, SetFile
<1>22. ASSUME NEW p \in Runs, ExportRow(p)
      PROVE  TypeOK'
  BY <1>22 DEF ExportRow, WorkerGo, FailRun, InsertSet, Fault
<1>23. ASSUME NEW p \in Runs, Train(p)
      PROVE  TypeOK'
  BY <1>23 DEF Train, WorkerGo, FailRun
<1>24. ASSUME NEW p \in Runs, Finish(p)
      PROVE  TypeOK'
  BY <1>24 DEF Finish, WorkerGo, FailRun
<1>25. ASSUME NEW p \in Runs, NEW j \in Projects, NEW d \in Datasets,
             ValidateRun(p, j, d)
      PROVE  TypeOK'
  BY <1>25 DEF ValidateRun
<1>26. CASE Crash
  BY <1>26 DEF Crash
<1>27. CASE UNCHANGED vars
  BY <1>27 DEF vars
<1> QED
  BY <1>1, <1>2, <1>3, <1>4, <1>5, <1>6, <1>7, <1>8, <1>9, <1>10, <1>11, <1>12, <1>13, <1>14,
     <1>15, <1>16, <1>17, <1>18, <1>19, <1>20, <1>21, <1>22, <1>23, <1>24, <1>25, <1>26, <1>27
  DEF Next, Upload, Remove, DeleteProject, Execute

(* A status changes only while its run is not locked, and the lock is taken*)
(* only when no run of the project is active.                              *)
LEMMA LockStep == TypeOK /\ LockInv /\ [Next]_vars => LockInv'
<1> SUFFICES ASSUME TypeOK, LockInv, [Next]_vars
             PROVE  LockInv'
  OBVIOUS
<1> USE CatalogAssumption DEF TypeOK, Datasets, LockInv, RunLocked, Active, rows, files, steps
<1>1. ASSUME NEW d \in Uploads, UploadBegin(d)
      PROVE  LockInv'
  BY <1>1 DEF UploadBegin, UploadGo, SetFile
<1>2. ASSUME NEW d \in Uploads, UploadCopy(d)
      PROVE  LockInv'
  BY <1>2 DEF UploadCopy, UploadGo, SetFile
<1>3. ASSUME NEW d \in Uploads, UploadValidate(d)
      PROVE  LockInv'
  BY <1>3 DEF UploadValidate, UploadGo, SetFile
<1>4. ASSUME NEW d \in Uploads, UploadInsert(d)
      PROVE  LockInv'
  BY <1>4 DEF UploadInsert, UploadGo, InsertSet, Fault
<1>5. ASSUME NEW d \in Uploads, UploadClean(d)
      PROVE  LockInv'
  BY <1>5 DEF UploadClean, UploadGo, SetFile
<1>6. ASSUME NEW d \in Imports, RegisterImport(d)
      PROVE  LockInv'
  BY <1>6 DEF RegisterImport, InsertSet, Readable
<1>7. ASSUME NEW d \in Datasets, RemoveBegin(d)
      PROVE  LockInv'
  BY <1>7 DEF RemoveBegin, RemoveGo
<1>8. ASSUME NEW d \in Datasets, RemoveRow(d)
      PROVE  LockInv'
  BY <1>8 DEF RemoveRow, RemoveGo, AfterRow, Fault
<1>9. ASSUME NEW d \in Datasets, RemoveFiles(d)
      PROVE  LockInv'
  BY <1>9 DEF RemoveFiles, RemoveGo, SetFile, Fault
<1>10. ASSUME NEW j \in Projects, LockProject(j)
      PROVE  LockInv'
  BY <1>10 DEF LockProject
<1>11. ASSUME NEW j \in Projects, LockRuns(j)
      PROVE  LockInv'
  BY <1>11 DEF LockRuns, RunsOf, Present
<1>12. ASSUME NEW j \in Projects, CommitDelete(j)
      PROVE  LockInv'
  BY <1>12 DEF CommitDelete, Fault
<1>13. ASSUME NEW p \in Runs, InsertRun(p)
      PROVE  LockInv'
  BY <1>13 DEF InsertRun, Fault
<1>14. ASSUME NEW p \in Runs, StartRun(p)
      PROVE  LockInv'
  BY <1>14 DEF StartRun, SetRun
<1>15. ASSUME NEW p \in Runs, CancelRun(p)
      PROVE  LockInv'
  BY <1>15 DEF CancelRun, SetRun
<1>16. ASSUME NEW p \in Runs, ClaimRun(p)
      PROVE  LockInv'
  BY <1>16 DEF ClaimRun, SetRun, WorkerGo
<1>17. ASSUME NEW p \in Runs, RecoverRun(p)
      PROVE  LockInv'
  BY <1>17 DEF RecoverRun, SetRun
<1>18. ASSUME NEW p \in Runs, CheckRun(p)
      PROVE  LockInv'
  BY <1>18 DEF CheckRun, WorkerGo, StageAfter
<1>19. ASSUME NEW p \in Runs, BuildSeed(p)
      PROVE  LockInv'
  BY <1>19 DEF BuildSeed, WorkerGo, FailRun, Readable
<1>20. ASSUME NEW p \in Runs, ExportImages(p)
      PROVE  LockInv'
  BY <1>20 DEF ExportImages, WorkerGo, FailRun, StoreImages
<1>21. ASSUME NEW p \in Runs, ExportFile(p)
      PROVE  LockInv'
  BY <1>21 DEF ExportFile, WorkerGo, FailRun, CopyRecords, SetFile
<1>22. ASSUME NEW p \in Runs, ExportRow(p)
      PROVE  LockInv'
  BY <1>22 DEF ExportRow, WorkerGo, FailRun, InsertSet, Fault
<1>23. ASSUME NEW p \in Runs, Train(p)
      PROVE  LockInv'
  BY <1>23 DEF Train, WorkerGo, FailRun
<1>24. ASSUME NEW p \in Runs, Finish(p)
      PROVE  LockInv'
  BY <1>24 DEF Finish, WorkerGo, FailRun
<1>25. ASSUME NEW p \in Runs, NEW j \in Projects, NEW d \in Datasets,
             ValidateRun(p, j, d)
      PROVE  LockInv'
  BY <1>25 DEF ValidateRun
<1>26. CASE Crash
  BY <1>26 DEF Crash
<1>27. CASE UNCHANGED vars
  BY <1>27 DEF vars
<1> QED
  BY <1>1, <1>2, <1>3, <1>4, <1>5, <1>6, <1>7, <1>8, <1>9, <1>10, <1>11, <1>12, <1>13, <1>14,
     <1>15, <1>16, <1>17, <1>18, <1>19, <1>20, <1>21, <1>22, <1>23, <1>24, <1>25, <1>26, <1>27
  DEF Next, Upload, Remove, DeleteProject, Execute

(* The foreign keys hold: the insert of a run and the deletes of a project *)
(* and of a dataset check them in the statement that writes.               *)
LEMMA KeyStep == TypeOK /\ KeyInv /\ [Next]_vars => KeyInv'
<1> SUFFICES ASSUME TypeOK, KeyInv, [Next]_vars
             PROVE  KeyInv'
  OBVIOUS
<1> USE CatalogAssumption DEF TypeOK, Datasets, KeyInv, Present, rows, files, steps
<1>1. ASSUME NEW d \in Uploads, UploadBegin(d)
      PROVE  KeyInv'
  BY <1>1 DEF UploadBegin, UploadGo, SetFile
<1>2. ASSUME NEW d \in Uploads, UploadCopy(d)
      PROVE  KeyInv'
  BY <1>2 DEF UploadCopy, UploadGo, SetFile
<1>3. ASSUME NEW d \in Uploads, UploadValidate(d)
      PROVE  KeyInv'
  BY <1>3 DEF UploadValidate, UploadGo, SetFile
<1>4. ASSUME NEW d \in Uploads, UploadInsert(d)
      PROVE  KeyInv'
  BY <1>4 DEF UploadInsert, UploadGo, InsertSet, Fault
<1>5. ASSUME NEW d \in Uploads, UploadClean(d)
      PROVE  KeyInv'
  BY <1>5 DEF UploadClean, UploadGo, SetFile
<1>6. ASSUME NEW d \in Imports, RegisterImport(d)
      PROVE  KeyInv'
  BY <1>6 DEF RegisterImport, InsertSet, Readable
<1>7. ASSUME NEW d \in Datasets, RemoveBegin(d)
      PROVE  KeyInv'
  BY <1>7 DEF RemoveBegin, RemoveGo
<1>8. ASSUME NEW d \in Datasets, RemoveRow(d)
      PROVE  KeyInv'
  BY <1>8 DEF RemoveRow, RemoveGo, AfterRow, Fault, Referenced
<1>9. ASSUME NEW d \in Datasets, RemoveFiles(d)
      PROVE  KeyInv'
  BY <1>9 DEF RemoveFiles, RemoveGo, SetFile, Fault
<1>10. ASSUME NEW j \in Projects, LockProject(j)
      PROVE  KeyInv'
  BY <1>10 DEF LockProject
<1>11. ASSUME NEW j \in Projects, LockRuns(j)
      PROVE  KeyInv'
  BY <1>11 DEF LockRuns
<1>12. ASSUME NEW j \in Projects, CommitDelete(j)
      PROVE  KeyInv'
  BY <1>12 DEF CommitDelete, Fault, RunsOf
<1>13. ASSUME NEW p \in Runs, InsertRun(p)
      PROVE  KeyInv'
  BY <1>13 DEF InsertRun, Fault, KeysHold
<1>14. ASSUME NEW p \in Runs, StartRun(p)
      PROVE  KeyInv'
  BY <1>14 DEF StartRun, SetRun
<1>15. ASSUME NEW p \in Runs, CancelRun(p)
      PROVE  KeyInv'
  BY <1>15 DEF CancelRun, SetRun, Active
<1>16. ASSUME NEW p \in Runs, ClaimRun(p)
      PROVE  KeyInv'
  BY <1>16 DEF ClaimRun, SetRun, WorkerGo
<1>17. ASSUME NEW p \in Runs, RecoverRun(p)
      PROVE  KeyInv'
  BY <1>17 DEF RecoverRun, SetRun
<1>18. ASSUME NEW p \in Runs, CheckRun(p)
      PROVE  KeyInv'
  BY <1>18 DEF CheckRun, WorkerGo, StageAfter
<1>19. ASSUME NEW p \in Runs, BuildSeed(p)
      PROVE  KeyInv'
  BY <1>19 DEF BuildSeed, WorkerGo, FailRun, Readable
<1>20. ASSUME NEW p \in Runs, ExportImages(p)
      PROVE  KeyInv'
  BY <1>20 DEF ExportImages, WorkerGo, FailRun, StoreImages
<1>21. ASSUME NEW p \in Runs, ExportFile(p)
      PROVE  KeyInv'
  BY <1>21 DEF ExportFile, WorkerGo, FailRun, CopyRecords, SetFile
<1>22. ASSUME NEW p \in Runs, ExportRow(p)
      PROVE  KeyInv'
  BY <1>22 DEF ExportRow, WorkerGo, FailRun, InsertSet, Fault
<1>23. ASSUME NEW p \in Runs, Train(p)
      PROVE  KeyInv'
  BY <1>23 DEF Train, WorkerGo, FailRun
<1>24. ASSUME NEW p \in Runs, Finish(p)
      PROVE  KeyInv'
  BY <1>24 DEF Finish, WorkerGo, FailRun
<1>25. ASSUME NEW p \in Runs, NEW j \in Projects, NEW d \in Datasets,
             ValidateRun(p, j, d)
      PROVE  KeyInv'
  BY <1>25 DEF ValidateRun
<1>26. CASE Crash
  BY <1>26 DEF Crash
<1>27. CASE UNCHANGED vars
  BY <1>27 DEF vars
<1> QED
  BY <1>1, <1>2, <1>3, <1>4, <1>5, <1>6, <1>7, <1>8, <1>9, <1>10, <1>11, <1>12, <1>13, <1>14,
     <1>15, <1>16, <1>17, <1>18, <1>19, <1>20, <1>21, <1>22, <1>23, <1>24, <1>25, <1>26, <1>27
  DEF Next, Upload, Remove, DeleteProject, Execute

(* Files are written before the row and removed after it.                  *)
LEMMA FileStep == TypeOK /\ FileInv /\ ExportInv /\ [Next]_vars => FileInv'
<1> SUFFICES ASSUME TypeOK, FileInv, ExportInv, [Next]_vars
             PROVE  FileInv'
  OBVIOUS
<1> USE CatalogAssumption DEF TypeOK, Datasets, FileInv, ExportInv, rows, files, steps
<1>1. ASSUME NEW d \in Uploads, UploadBegin(d)
      PROVE  FileInv'
  BY <1>1 DEF UploadBegin, UploadGo, SetFile
<1>2. ASSUME NEW d \in Uploads, UploadCopy(d)
      PROVE  FileInv'
  BY <1>2 DEF UploadCopy, UploadGo, SetFile
<1>3. ASSUME NEW d \in Uploads, UploadValidate(d)
      PROVE  FileInv'
  BY <1>3 DEF UploadValidate, UploadGo, SetFile
<1>4. ASSUME NEW d \in Uploads, UploadInsert(d)
      PROVE  FileInv'
  BY <1>4 DEF UploadInsert, UploadGo, InsertSet, Fault
<1>5. ASSUME NEW d \in Uploads, UploadClean(d)
      PROVE  FileInv'
  BY <1>5 DEF UploadClean, UploadGo, SetFile
<1>6. ASSUME NEW d \in Imports, RegisterImport(d)
      PROVE  FileInv'
  BY <1>6 DEF RegisterImport, InsertSet, Readable
<1>7. ASSUME NEW d \in Datasets, RemoveBegin(d)
      PROVE  FileInv'
  BY <1>7 DEF RemoveBegin, RemoveGo
<1>8. ASSUME NEW d \in Datasets, RemoveRow(d)
      PROVE  FileInv'
  BY <1>8 DEF RemoveRow, RemoveGo, AfterRow, Fault
<1>9. ASSUME NEW d \in Datasets, RemoveFiles(d)
      PROVE  FileInv'
  BY <1>9 DEF RemoveFiles, RemoveGo, SetFile, Fault
<1>10. ASSUME NEW j \in Projects, LockProject(j)
      PROVE  FileInv'
  BY <1>10 DEF LockProject
<1>11. ASSUME NEW j \in Projects, LockRuns(j)
      PROVE  FileInv'
  BY <1>11 DEF LockRuns
<1>12. ASSUME NEW j \in Projects, CommitDelete(j)
      PROVE  FileInv'
  BY <1>12 DEF CommitDelete, Fault
<1>13. ASSUME NEW p \in Runs, InsertRun(p)
      PROVE  FileInv'
  BY <1>13 DEF InsertRun, Fault
<1>14. ASSUME NEW p \in Runs, StartRun(p)
      PROVE  FileInv'
  BY <1>14 DEF StartRun, SetRun
<1>15. ASSUME NEW p \in Runs, CancelRun(p)
      PROVE  FileInv'
  BY <1>15 DEF CancelRun, SetRun
<1>16. ASSUME NEW p \in Runs, ClaimRun(p)
      PROVE  FileInv'
  BY <1>16 DEF ClaimRun, SetRun, WorkerGo
<1>17. ASSUME NEW p \in Runs, RecoverRun(p)
      PROVE  FileInv'
  BY <1>17 DEF RecoverRun, SetRun
<1>18. ASSUME NEW p \in Runs, CheckRun(p)
      PROVE  FileInv'
  BY <1>18 DEF CheckRun, WorkerGo, StageAfter
<1>19. ASSUME NEW p \in Runs, BuildSeed(p)
      PROVE  FileInv'
  BY <1>19 DEF BuildSeed, WorkerGo, FailRun, Readable
<1>20. ASSUME NEW p \in Runs, ExportImages(p)
      PROVE  FileInv'
  BY <1>20 DEF ExportImages, WorkerGo, FailRun, StoreImages
<1>21. ASSUME NEW p \in Runs, ExportFile(p)
      PROVE  FileInv'
  BY <1>21 DEF ExportFile, WorkerGo, FailRun, CopyRecords, SetFile
<1>22. ASSUME NEW p \in Runs, ExportRow(p)
      PROVE  FileInv'
  BY <1>22 DEF ExportRow, WorkerGo, FailRun, InsertSet, Fault
<1>23. ASSUME NEW p \in Runs, Train(p)
      PROVE  FileInv'
  BY <1>23 DEF Train, WorkerGo, FailRun
<1>24. ASSUME NEW p \in Runs, Finish(p)
      PROVE  FileInv'
  BY <1>24 DEF Finish, WorkerGo, FailRun
<1>25. ASSUME NEW p \in Runs, NEW j \in Projects, NEW d \in Datasets,
             ValidateRun(p, j, d)
      PROVE  FileInv'
  BY <1>25 DEF ValidateRun
<1>26. CASE Crash
  BY <1>26 DEF Crash
<1>27. CASE UNCHANGED vars
  BY <1>27 DEF vars
<1> QED
  BY <1>1, <1>2, <1>3, <1>4, <1>5, <1>6, <1>7, <1>8, <1>9, <1>10, <1>11, <1>12, <1>13, <1>14,
     <1>15, <1>16, <1>17, <1>18, <1>19, <1>20, <1>21, <1>22, <1>23, <1>24, <1>25, <1>26, <1>27
  DEF Next, Upload, Remove, DeleteProject, Execute

(* A run is executed once, so its dataset is exported once.                *)
LEMMA ExportStep == TypeOK /\ FileInv /\ ExportInv /\ [Next]_vars => ExportInv'
<1> SUFFICES ASSUME TypeOK, FileInv, ExportInv, [Next]_vars
             PROVE  ExportInv'
  OBVIOUS
<1> USE CatalogAssumption DEF TypeOK, Datasets, FileInv, ExportInv, rows, files, steps
<1>1. ASSUME NEW d \in Uploads, UploadBegin(d)
      PROVE  ExportInv'
  BY <1>1 DEF UploadBegin, UploadGo, SetFile
<1>2. ASSUME NEW d \in Uploads, UploadCopy(d)
      PROVE  ExportInv'
  BY <1>2 DEF UploadCopy, UploadGo, SetFile
<1>3. ASSUME NEW d \in Uploads, UploadValidate(d)
      PROVE  ExportInv'
  BY <1>3 DEF UploadValidate, UploadGo, SetFile
<1>4. ASSUME NEW d \in Uploads, UploadInsert(d)
      PROVE  ExportInv'
  BY <1>4 DEF UploadInsert, UploadGo, InsertSet, Fault
<1>5. ASSUME NEW d \in Uploads, UploadClean(d)
      PROVE  ExportInv'
  BY <1>5 DEF UploadClean, UploadGo, SetFile
<1>6. ASSUME NEW d \in Imports, RegisterImport(d)
      PROVE  ExportInv'
  BY <1>6 DEF RegisterImport, InsertSet, Readable
<1>7. ASSUME NEW d \in Datasets, RemoveBegin(d)
      PROVE  ExportInv'
  BY <1>7 DEF RemoveBegin, RemoveGo
<1>8. ASSUME NEW d \in Datasets, RemoveRow(d)
      PROVE  ExportInv'
  BY <1>8 DEF RemoveRow, RemoveGo, AfterRow, Fault
<1>9. ASSUME NEW d \in Datasets, RemoveFiles(d)
      PROVE  ExportInv'
  BY <1>9 DEF RemoveFiles, RemoveGo, SetFile, Fault
<1>10. ASSUME NEW j \in Projects, LockProject(j)
      PROVE  ExportInv'
  BY <1>10 DEF LockProject
<1>11. ASSUME NEW j \in Projects, LockRuns(j)
      PROVE  ExportInv'
  BY <1>11 DEF LockRuns
<1>12. ASSUME NEW j \in Projects, CommitDelete(j)
      PROVE  ExportInv'
  BY <1>12 DEF CommitDelete, Fault, RunsOf, Present
<1>13. ASSUME NEW p \in Runs, InsertRun(p)
      PROVE  ExportInv'
  BY <1>13 DEF InsertRun, Fault
<1>14. ASSUME NEW p \in Runs, StartRun(p)
      PROVE  ExportInv'
  BY <1>14 DEF StartRun, SetRun
<1>15. ASSUME NEW p \in Runs, CancelRun(p)
      PROVE  ExportInv'
  BY <1>15 DEF CancelRun, SetRun, Active
<1>16. ASSUME NEW p \in Runs, ClaimRun(p)
      PROVE  ExportInv'
  BY <1>16 DEF ClaimRun, SetRun, WorkerGo
<1>17. ASSUME NEW p \in Runs, RecoverRun(p)
      PROVE  ExportInv'
  BY <1>17 DEF RecoverRun, SetRun
<1>18. ASSUME NEW p \in Runs, CheckRun(p)
      PROVE  ExportInv'
  BY <1>18 DEF CheckRun, WorkerGo, StageAfter
<1>19. ASSUME NEW p \in Runs, BuildSeed(p)
      PROVE  ExportInv'
  BY <1>19 DEF BuildSeed, WorkerGo, FailRun, Readable
<1>20. ASSUME NEW p \in Runs, ExportImages(p)
      PROVE  ExportInv'
  BY <1>20 DEF ExportImages, WorkerGo, FailRun, StoreImages
<1>21. ASSUME NEW p \in Runs, ExportFile(p)
      PROVE  ExportInv'
  BY <1>21 DEF ExportFile, WorkerGo, FailRun, CopyRecords, SetFile
<1>22. ASSUME NEW p \in Runs, ExportRow(p)
      PROVE  ExportInv'
  BY <1>22 DEF ExportRow, WorkerGo, FailRun, InsertSet, Fault
<1>23. ASSUME NEW p \in Runs, Train(p)
      PROVE  ExportInv'
  BY <1>23 DEF Train, WorkerGo, FailRun
<1>24. ASSUME NEW p \in Runs, Finish(p)
      PROVE  ExportInv'
  BY <1>24 DEF Finish, WorkerGo, FailRun
<1>25. ASSUME NEW p \in Runs, NEW j \in Projects, NEW d \in Datasets,
             ValidateRun(p, j, d)
      PROVE  ExportInv'
  BY <1>25 DEF ValidateRun
<1>26. CASE Crash
  BY <1>26 DEF Crash
<1>27. CASE UNCHANGED vars
  BY <1>27 DEF vars
<1> QED
  BY <1>1, <1>2, <1>3, <1>4, <1>5, <1>6, <1>7, <1>8, <1>9, <1>10, <1>11, <1>12, <1>13, <1>14,
     <1>15, <1>16, <1>17, <1>18, <1>19, <1>20, <1>21, <1>22, <1>23, <1>24, <1>25, <1>26, <1>27
  DEF Next, Upload, Remove, DeleteProject, Execute

(* What is in the catalogue keeps its file.                                *)
LEMMA HasFilesStep == TypeOK /\ FileInv /\ ExportInv /\ CatalogHasFiles /\ [Next]_vars => CatalogHasFiles'
<1> SUFFICES ASSUME TypeOK, FileInv, ExportInv, CatalogHasFiles, [Next]_vars
             PROVE  CatalogHasFiles'
  OBVIOUS
<1> USE CatalogAssumption DEF TypeOK, Datasets, FileInv, ExportInv, CatalogHasFiles, Torn, rows, files, steps
<1>1. ASSUME NEW d \in Uploads, UploadBegin(d)
      PROVE  CatalogHasFiles'
  BY <1>1 DEF UploadBegin, UploadGo, SetFile
<1>2. ASSUME NEW d \in Uploads, UploadCopy(d)
      PROVE  CatalogHasFiles'
  BY <1>2 DEF UploadCopy, UploadGo, SetFile
<1>3. ASSUME NEW d \in Uploads, UploadValidate(d)
      PROVE  CatalogHasFiles'
  BY <1>3 DEF UploadValidate, UploadGo, SetFile
<1>4. ASSUME NEW d \in Uploads, UploadInsert(d)
      PROVE  CatalogHasFiles'
  BY <1>4 DEF UploadInsert, UploadGo, InsertSet, Fault
<1>5. ASSUME NEW d \in Uploads, UploadClean(d)
      PROVE  CatalogHasFiles'
  BY <1>5 DEF UploadClean, UploadGo, SetFile
<1>6. ASSUME NEW d \in Imports, RegisterImport(d)
      PROVE  CatalogHasFiles'
  BY <1>6 DEF RegisterImport, InsertSet, Readable
<1>7. ASSUME NEW d \in Datasets, RemoveBegin(d)
      PROVE  CatalogHasFiles'
  BY <1>7 DEF RemoveBegin, RemoveGo
<1>8. ASSUME NEW d \in Datasets, RemoveRow(d)
      PROVE  CatalogHasFiles'
  BY <1>8 DEF RemoveRow, RemoveGo, AfterRow, Fault
<1>9. ASSUME NEW d \in Datasets, RemoveFiles(d)
      PROVE  CatalogHasFiles'
  BY <1>9 DEF RemoveFiles, RemoveGo, SetFile, Fault
<1>10. ASSUME NEW j \in Projects, LockProject(j)
      PROVE  CatalogHasFiles'
  BY <1>10 DEF LockProject
<1>11. ASSUME NEW j \in Projects, LockRuns(j)
      PROVE  CatalogHasFiles'
  BY <1>11 DEF LockRuns
<1>12. ASSUME NEW j \in Projects, CommitDelete(j)
      PROVE  CatalogHasFiles'
  BY <1>12 DEF CommitDelete, Fault
<1>13. ASSUME NEW p \in Runs, InsertRun(p)
      PROVE  CatalogHasFiles'
  BY <1>13 DEF InsertRun, Fault
<1>14. ASSUME NEW p \in Runs, StartRun(p)
      PROVE  CatalogHasFiles'
  BY <1>14 DEF StartRun, SetRun
<1>15. ASSUME NEW p \in Runs, CancelRun(p)
      PROVE  CatalogHasFiles'
  BY <1>15 DEF CancelRun, SetRun
<1>16. ASSUME NEW p \in Runs, ClaimRun(p)
      PROVE  CatalogHasFiles'
  BY <1>16 DEF ClaimRun, SetRun, WorkerGo
<1>17. ASSUME NEW p \in Runs, RecoverRun(p)
      PROVE  CatalogHasFiles'
  BY <1>17 DEF RecoverRun, SetRun
<1>18. ASSUME NEW p \in Runs, CheckRun(p)
      PROVE  CatalogHasFiles'
  BY <1>18 DEF CheckRun, WorkerGo, StageAfter
<1>19. ASSUME NEW p \in Runs, BuildSeed(p)
      PROVE  CatalogHasFiles'
  BY <1>19 DEF BuildSeed, WorkerGo, FailRun, Readable
<1>20. ASSUME NEW p \in Runs, ExportImages(p)
      PROVE  CatalogHasFiles'
  BY <1>20 DEF ExportImages, WorkerGo, FailRun, StoreImages
<1>21. ASSUME NEW p \in Runs, ExportFile(p)
      PROVE  CatalogHasFiles'
  BY <1>21 DEF ExportFile, WorkerGo, FailRun, CopyRecords, SetFile
<1>22. ASSUME NEW p \in Runs, ExportRow(p)
      PROVE  CatalogHasFiles'
  BY <1>22 DEF ExportRow, WorkerGo, FailRun, InsertSet, Fault
<1>23. ASSUME NEW p \in Runs, Train(p)
      PROVE  CatalogHasFiles'
  BY <1>23 DEF Train, WorkerGo, FailRun
<1>24. ASSUME NEW p \in Runs, Finish(p)
      PROVE  CatalogHasFiles'
  BY <1>24 DEF Finish, WorkerGo, FailRun
<1>25. ASSUME NEW p \in Runs, NEW j \in Projects, NEW d \in Datasets,
             ValidateRun(p, j, d)
      PROVE  CatalogHasFiles'
  BY <1>25 DEF ValidateRun
<1>26. CASE Crash
  BY <1>26 DEF Crash
<1>27. CASE UNCHANGED vars
  BY <1>27 DEF vars
<1> QED
  BY <1>1, <1>2, <1>3, <1>4, <1>5, <1>6, <1>7, <1>8, <1>9, <1>10, <1>11, <1>12, <1>13, <1>14,
     <1>15, <1>16, <1>17, <1>18, <1>19, <1>20, <1>21, <1>22, <1>23, <1>24, <1>25, <1>26, <1>27
  DEF Next, Upload, Remove, DeleteProject, Execute

(* Who writes a file, or removes its row, goes on until the file has a row *)
(* or is gone; each error counts as a fault.                               *)
LEMMA OwnerStep == TypeOK /\ FilesHaveOwner /\ [Next]_vars => FilesHaveOwner'
<1> SUFFICES ASSUME TypeOK, FilesHaveOwner, [Next]_vars, faults' = 0, crashes' = 0,
                    NEW d \in Uploads \cup Runs, file'[d] # "none"
             PROVE  \/ setRow'[d] = "present"
                    \/ remove'[d] = "files"
                    \/ d \in Uploads /\ upload'[d] \in {"copy", "validate", "insert"}
                    \/ d \in Runs /\ worker'[d] = "register"
  BY DEF FilesHaveOwner
<1> DEFINE Owned == \/ setRow[d] = "present"
                    \/ remove[d] = "files"
                    \/ d \in Uploads /\ upload[d] \in {"copy", "validate", "insert"}
                    \/ d \in Runs /\ worker[d] = "register"
           OwnedNext == \/ setRow'[d] = "present"
                        \/ remove'[d] = "files"
                        \/ d \in Uploads /\ upload'[d] \in {"copy", "validate", "insert"}
                        \/ d \in Runs /\ worker'[d] = "register"
<1>0. d \in Datasets /\ d \notin Imports /\ (d \in Uploads => d \notin Runs)
  BY CatalogAssumption DEF Datasets
<1>1. ASSUME faults = 0, crashes = 0, file[d] # "none"
      PROVE  Owned
  BY <1>1 DEF FilesHaveOwner
<1>2. ASSUME UNCHANGED <<setRow, file, remove, upload, worker, faults, crashes>>
      PROVE  OwnedNext
  BY <1>1, <1>2
<1>3. ASSUME NEW e \in Uploads, Upload(e)
      PROVE  OwnedNext
  <2> USE <1>0, <1>1 DEF TypeOK, UploadGo, SetFile, InsertSet, Fault, rows, files, steps
  <2>1. CASE UploadBegin(e)
    BY <2>1 DEF UploadBegin
  <2>2. CASE UploadCopy(e)
    BY <2>2 DEF UploadCopy
  <2>3. CASE UploadValidate(e)
    BY <2>3 DEF UploadValidate
  <2>4. CASE UploadInsert(e)
    BY <2>4 DEF UploadInsert
  <2>5. CASE UploadClean(e)
    BY <2>5 DEF UploadClean
  <2> QED
    BY <1>3, <2>1, <2>2, <2>3, <2>4, <2>5 DEF Upload
<1>4. ASSUME NEW e \in Imports, RegisterImport(e)
      PROVE  OwnedNext
  BY <1>0, <1>1, <1>4 DEF RegisterImport, InsertSet, TypeOK, rows, files, steps
<1>5. ASSUME NEW e \in Datasets, RemoveBegin(e) \/ Remove(e)
      PROVE  OwnedNext
  <2> USE <1>0, <1>1 DEF TypeOK, RemoveGo, SetFile, AfterRow, Fault, rows, files, steps
  <2>1. CASE RemoveBegin(e)
    BY <2>1 DEF RemoveBegin
  <2>2. CASE RemoveRow(e)
    BY <2>2 DEF RemoveRow
  <2>3. CASE RemoveFiles(e)
    BY <2>3 DEF RemoveFiles
  <2> QED
    BY <1>5, <2>1, <2>2, <2>3 DEF Remove
<1>6. ASSUME NEW j \in Projects, LockProject(j) \/ LockRuns(j) \/ CommitDelete(j)
      PROVE  OwnedNext
  BY <1>1, <1>6, CatalogAssumption DEF LockProject, LockRuns, CommitDelete, Fault, TypeOK, rows, files, steps
<1>7. ASSUME NEW p \in Runs, NEW j \in Projects, NEW e \in Datasets, ValidateRun(p, j, e)
      PROVE  OwnedNext
  BY <1>2, <1>7 DEF ValidateRun, files, steps
<1>8. ASSUME NEW p \in Runs,
             InsertRun(p) \/ StartRun(p) \/ CancelRun(p) \/ ClaimRun(p) \/ RecoverRun(p)
      PROVE  OwnedNext
  <2> USE <1>0, <1>1 DEF TypeOK, WorkerGo, SetRun, Fault, rows, files, steps
  <2>1. CASE InsertRun(p)
    BY <2>1 DEF InsertRun
  <2>2. CASE StartRun(p) \/ CancelRun(p) \/ RecoverRun(p)
    BY <2>2 DEF StartRun, CancelRun, RecoverRun
  <2>3. CASE ClaimRun(p)
    BY <2>3 DEF ClaimRun
  <2> QED
    BY <1>8, <2>1, <2>2, <2>3
<1>9. ASSUME NEW p \in Runs, Execute(p)
      PROVE  OwnedNext
  <2> USE <1>0, <1>1 DEF TypeOK, WorkerGo, FailRun, SetFile, Fault, rows, files, steps
  <2>1. CASE CheckRun(p)
    BY <2>1 DEF CheckRun, StageAfter
  <2>2. CASE BuildSeed(p)
    BY <2>2 DEF BuildSeed
  <2>3. CASE ExportImages(p)
    BY <2>3 DEF ExportImages
  <2>4. CASE ExportFile(p)
    BY <2>4 DEF ExportFile, CopyRecords
  <2>5. CASE ExportRow(p)
    BY <2>5 DEF ExportRow, InsertSet
  <2>6. CASE Train(p) \/ Finish(p)
    BY <2>6 DEF Train, Finish
  <2> QED
    BY <1>9, <2>1, <2>2, <2>3, <2>4, <2>5, <2>6 DEF Execute
<1>10. CASE Crash
  BY <1>10, CatalogAssumption DEF Crash, TypeOK
<1>11. CASE UNCHANGED vars
  BY <1>2, <1>11 DEF vars, rows, files, steps
<1> QED
  BY <1>3, <1>4, <1>5, <1>6, <1>7, <1>8, <1>9, <1>10, <1>11 DEF Next, DeleteProject

-----------------------------------------------------------------------------
(* The state of the catalogue is always of its types.                      *)
THEOREM CatalogTypeCorrect == Spec => []TypeOK
<1>1. Init => TypeOK
  BY CatalogAssumption DEF Init, TypeOK, Datasets, RunStatus, WorkerStep, UploadStep
<1> QED
  BY <1>1, TypeStep, PTL DEF Spec

(* The inductive invariant of rows, locks and files.                       *)
THEOREM CatalogInvariance == Spec => [](TypeOK /\ CatalogInv)
<1>1. Init => CatalogInv
  BY CatalogAssumption
  DEF Init, CatalogInv, LockInv, RunLocked, Active, KeyInv, Present, FileInv, ExportInv,
      CatalogHasFiles, Torn, Datasets
<1>2. TypeOK /\ CatalogInv /\ [Next]_vars => CatalogInv'
  BY LockStep, KeyStep, FileStep, ExportStep, HasFilesStep DEF CatalogInv
<1> QED
  BY <1>1, <1>2, CatalogTypeCorrect, PTL DEF Spec

(* A dataset in the catalogue has its complete data file.                  *)
THEOREM DatasetsHaveFiles == Spec => []CatalogHasFiles
<1>1. TypeOK /\ CatalogInv => CatalogHasFiles
  BY DEF CatalogInv
<1> QED
  BY <1>1, CatalogInvariance, PTL

(* A run keeps its project, its dataset and the file of the dataset.       *)
THEOREM InputsStay == Spec => []RunsKeepInputs
<1>1. TypeOK /\ CatalogInv => RunsKeepInputs
  <2> SUFFICES ASSUME TypeOK, CatalogInv, NEW p \in Runs, Present(p)
               PROVE  /\ runProject[p] \in projects
                      /\ setRow[runSeed[p]] = "present"
                      /\ file[runSeed[p]] = "whole" \/ Torn(runSeed[p])
    BY DEF RunsKeepInputs
  <2>1. runProject[p] \in projects /\ setRow[runSeed[p]] = "present"
    BY DEF CatalogInv, KeyInv
  <2>2. runSeed[p] \in Datasets
    BY DEF TypeOK, Present
  <2> QED
    BY <2>1, <2>2 DEF CatalogInv, CatalogHasFiles
<1> QED
  BY <1>1, CatalogInvariance, PTL

(* No data file is forgotten, if nothing fails.                            *)
THEOREM FilesAreOwned == Spec => []FilesHaveOwner
<1>1. Init => FilesHaveOwner
  BY CatalogAssumption DEF Init, FilesHaveOwner, Datasets
<1> QED
  BY <1>1, OwnerStep, CatalogTypeCorrect, PTL DEF Spec

(* A deletion never takes a scheduled or running run with it: only the     *)
(* commit deletes runs, and it holds their locks.                          *)
THEOREM ActiveRunsStay == Spec => ActiveRunsKept
<1>1. ASSUME TypeOK, CatalogInv, [Next]_vars, NEW p \in Runs, runStatus[p] \in Active
      PROVE  runStatus'[p] # "deleted"
  <2>1. CASE \E j \in Projects : CommitDelete(j)
    <3>1. PICK j \in Projects : CommitDelete(j)
      BY <2>1
    <3>2. p \in RunsOf(j) => RunLocked(p)
      BY <3>1, CatalogAssumption DEF CommitDelete, RunsOf, RunLocked, TypeOK
    <3>3. p \notin RunsOf(j)
      BY <1>1, <3>2 DEF CatalogInv, LockInv
    <3> QED
      BY <1>1, <3>1, <3>3 DEF CommitDelete, Active, TypeOK
  <2>2. CASE ~ \E j \in Projects : CommitDelete(j)
    <3> USE <1>1 DEF TypeOK, Active, rows, files, steps
    <3>1. ASSUME NEW d \in Uploads, UploadBegin(d) \/ UploadCopy(d) \/ UploadValidate(d) \/ UploadInsert(d) \/ UploadClean(d)
          PROVE  runStatus'[p] # "deleted"
      BY <3>1 DEF UploadBegin, UploadCopy, UploadValidate, UploadInsert, UploadClean
    <3>2. ASSUME NEW d \in Imports, RegisterImport(d)
          PROVE  runStatus'[p] # "deleted"
      BY <3>2 DEF RegisterImport
    <3>3. ASSUME NEW d \in Datasets, RemoveBegin(d) \/ RemoveRow(d) \/ RemoveFiles(d)
          PROVE  runStatus'[p] # "deleted"
      BY <3>3 DEF RemoveBegin, RemoveRow, RemoveFiles
    <3>4. ASSUME NEW j \in Projects, LockProject(j) \/ LockRuns(j)
          PROVE  runStatus'[p] # "deleted"
      BY <3>4 DEF LockProject, LockRuns
    <3>5. ASSUME NEW q \in Runs, InsertRun(q)
          PROVE  runStatus'[p] # "deleted"
      BY <3>5 DEF InsertRun
    <3>6. ASSUME NEW q \in Runs, StartRun(q)
          PROVE  runStatus'[p] # "deleted"
      BY <3>6 DEF StartRun, SetRun
    <3>7. ASSUME NEW q \in Runs, CancelRun(q)
          PROVE  runStatus'[p] # "deleted"
      BY <3>7 DEF CancelRun, SetRun
    <3>8. ASSUME NEW q \in Runs, ClaimRun(q)
          PROVE  runStatus'[p] # "deleted"
      BY <3>8 DEF ClaimRun, SetRun
    <3>9. ASSUME NEW q \in Runs, RecoverRun(q)
          PROVE  runStatus'[p] # "deleted"
      BY <3>9 DEF RecoverRun, SetRun
    <3>10. ASSUME NEW q \in Runs, CheckRun(q)
          PROVE  runStatus'[p] # "deleted"
      BY <3>10 DEF CheckRun
    <3>11. ASSUME NEW q \in Runs, BuildSeed(q)
          PROVE  runStatus'[p] # "deleted"
      BY <3>11 DEF BuildSeed, FailRun
    <3>12. ASSUME NEW q \in Runs, ExportImages(q)
          PROVE  runStatus'[p] # "deleted"
      BY <3>12 DEF ExportImages, FailRun
    <3>13. ASSUME NEW q \in Runs, ExportFile(q)
          PROVE  runStatus'[p] # "deleted"
      BY <3>13 DEF ExportFile, FailRun
    <3>14. ASSUME NEW q \in Runs, ExportRow(q)
          PROVE  runStatus'[p] # "deleted"
      BY <3>14 DEF ExportRow, FailRun
    <3>15. ASSUME NEW q \in Runs, Train(q)
          PROVE  runStatus'[p] # "deleted"
      BY <3>15 DEF Train, FailRun
    <3>16. ASSUME NEW q \in Runs, Finish(q)
          PROVE  runStatus'[p] # "deleted"
      BY <3>16 DEF Finish, FailRun
    <3>17. ASSUME NEW q \in Runs, NEW j \in Projects, NEW d \in Datasets, ValidateRun(q, j, d)
          PROVE  runStatus'[p] # "deleted"
      BY <3>17 DEF ValidateRun
    <3>18. CASE Crash
      BY <3>18 DEF Crash
    <3>19. CASE UNCHANGED vars
      BY <3>19 DEF vars
    <3> QED
      BY <2>2, <3>1, <3>2, <3>3, <3>4, <3>5, <3>6, <3>7, <3>8, <3>9, <3>10, <3>11, <3>12,
         <3>13, <3>14, <3>15, <3>16, <3>17, <3>18, <3>19
      DEF Next, Upload, Remove, DeleteProject, Execute
  <2> QED
    BY <2>1, <2>2
<1>2. TypeOK /\ CatalogInv /\ [Next]_vars =>
          [\A p \in Runs : runStatus[p] \in Active => runStatus'[p] # "deleted"]_vars
  BY <1>1
<1> QED
  BY <1>2, CatalogInvariance, PTL DEF Spec, ActiveRunsKept
=============================================================================
