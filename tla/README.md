# gcs-distill in TLA+

gcs-distill is the control service of a knowledge-distillation platform. A user
registers datasets and projects, creates a *pipeline run* and starts it; the
service executes the run's stages one after the other, two of them as containers
on the cluster scheduler gcs-v2, and keeps what happened in MySQL. This
directory holds a TLA+ model of the service, the TLC runs that check it on small
instances and the proofs TLAPS checks for every instance.

## 1. Inventory

| part | source | state it keeps | operations | hard about it |
|---|---|---|---|---|
| Executor | `service/executor_service.go` | in-memory queue (100 ids), `maxConcurrent` workers | `Start`, `Stop`, `SubmitPipeline`, `runLoop`/`executePipeline`, `recoverTasks`, `CancelContainers` | goroutines that share rows without locks; restart; a queue that is lost with the process; work on snapshots |
| Stage containers | `runtime/stage_executor.go`, `executeDistill2`/`executeStudentTrain2` in `runtime/easydistill2.go` | the copy of the stage row, the task at gcs-v2 | create, record, poll, stop, release | create and record are two steps; lost answers; deletion is never retried |
| Pipeline service | `service/pipeline_service.go` | nothing of its own | `CreatePipeline`, `StartPipeline`, `CancelPipeline` | each is several statements without a transaction, under a context that dies with the client |
| Run and stage rows | `repository/mysql/pipeline_repo.go`, `stage_repo.go` | `distill_pipeline_runs`, `distill_stage_runs` | guarded updates, compare-and-set `Transition` | whole-row writes from stale snapshots |
| Process | `cmd/server/main.go` | - | boot, signal, exit | the executor's context is cancelled before `Stop` waits |
| gcs-v2 | external; `internal/client/gcs` | tasks by name | create, get, delete | requests lost before or after they took effect |
| Projects | `service/project_service.go`, `repository/mysql/project_repo.go` | `distill_projects` | create, update, delete | deletion against runs that start or still execute |
| Datasets | `service/dataset_service.go`, `dataset_repo.go` | `distill_datasets` and files | upload, import, generated, delete | a row and a file written in two steps |
| Resources | `service/resource_service.go`, `internal/client/gcs/resources.go` | none (inventory of gcs-v2) | list, validate a selection | an inventory that is outdated when it is used |
| Recipes and configuration | `runtime/easydistill2.go`, `config_generator.go` | files of a run | normalise, merge, generate | sequential |
| Records and quality | `runtime/records.go`, `multimodal_export.go`, `quality.go` | files | stream, copy, score | parsing; partial files |
| Models | `service/model_service.go` | none | list, check | read-only |
| Teachers | `service/teacher_service.go` | none; services of the model centre | list, test, resolve | a service that moved since it was chosen |
| Clone, redaction | `server/handlers/clone_config.go`, `pipeline_redaction.go`; `UpdateProject` | the teacher in a project's and a run's row | mask, restore, retain or drop secrets | an update must never store a mask, a secret never pass to another teacher, a clone never lose one |
| Log proxy | `server/handlers/pipeline_handler.go` | two websocket connections | two pumps | whichever ends first closes both |
| Summary | `server/handlers/workflow_handler.go` | none | page through the runs | pages of a list that changes |
| Installation | `offline/scripts/install-binary.py` | target, backup and new binary; the running service | back up, copy, stop, replace, start, roll back | a script or a copy that ends half-way |
| Other offline scripts | `offline/scripts/*.py` | files, docker objects | import, load, clean up | driven by hand, one step each |
| Router, middleware, config, logging, API docs, images | `server/router.go`, ... | none | - | - |

What makes each part correct, in a sentence: a run is executed by one worker, its
stages in order, and reported succeeded only when complete; an end is final; a
container has somebody who deletes it; a run that was started ends, through
restarts too; a dataset row has its file; a project in use is not deleted; a
selection that was accepted was free when it was looked at; a stored secret is
one of the teacher it is stored with; an installation that fails returns to the
backup, which is the version before the first upgrade.
`PROJECT.json` lists the components with their status and the hazards with
their lines.

## 2. Modules

    RunLifecycle                     what is promised about a run (abstract)
        ^ implemented by
    ControlService                   process life cycle, composition, properties
        EXTENDS PipelineService      HTTP side: create, start, cancel
        EXTENDS ExecutorService      queue, workers, containers, recovery
        EXTENDS GcsTasks             tasks of gcs-v2 (external)
        EXTENDS RunStore             rows and SQL statements
    RecoveredRuns                    who carries a run; what a restart makes good
        EXTENDS ControlService
    MCControlService                 instances for TLC
    ControlService_proofs            type invariant
    ControlServiceSafety_proofs      the inductive invariant
    ControlServiceTheorems_proofs    what follows from it
    RecoveredRuns_proofs             who has a run or a container in hand

    AssetCatalog                     projects, datasets and runs as rows; files
    MCAssetCatalog                   instances for TLC
    AssetCatalog_proofs              its invariant and theorems

    GpuSelection                     cards, their telemetry and who decides on it
    MCGpuSelection                   instance for TLC
    GpuSelection_proofs              its invariant and theorems

    Deployment                       an upgrade under requests that take long
        EXTENDS BinaryInstall        install-binary.py
        EXTENDS LogProxy             the log of a stage on its way to a client
        EXTENDS ProjectSummary       counting runs page by page
    MCDeployment                     instance for TLC
    Deployment_proofs                the installation, the stream, the summary

    TeacherCredentials               teachers of projects and runs, and secrets
    MCTeacherCredentials             instance for TLC
    TeacherCredentials_proofs        its invariant and theorems

**RunStore** has the columns that steer the control flow: the status and
`current_stage` of a run, the status of each stage, and whether its
`container_id` is set (the name itself is a function of run and stage). Each SQL
statement is one operator, its guard the statement's WHERE clause. A row that
does not exist has status `absent`. `preparing` is read by the code and written
nowhere, so no row has it. A run whose configuration has no `distillation` part
cannot be created or started by this version, so recovery's branch for it is
left out.

**GcsTasks** is the scheduler as the code uses it: a task is created, is active,
ends by itself or is deleted. A request can be lost before or after it took
effect.

**ExecutorService** gives each worker a program counter, the run in its hand, the
stage it is at and its copy of `stage.ContainerID`. Between two SQL statements
or requests any other goroutine may run, so each is a step of its own:

| step of a worker (`wPc`) | action | code |
|---|---|---|
| `idle` | `Dequeue` | `runLoop` |
| `claim` | `Claim` | read and compare-and-set to running |
| `load` | `Load` | read project and stages, `validateExecutionStages` |
| `check`, `mark` | `CheckStage`, `MarkRunning` | is it cancelled?; stage row to running |
| `execute` | `RunController`, `Launch` | `ExecuteStage`; the request that creates the container |
| `record`, `abandon` | `Record`, `Abandon` | `recordContainer`, and the stop if it fails |
| `wait`, `poll`, `stop` | `WaitTick`, `Poll`, `StopTask` | `waitForContainerTask` |
| `releaseOk`, `releaseErr` | `Release` | deferred `ReleaseContainer` |
| `ranOk`, `ranErr` | `AfterStage` | read the run again, leave if cancelled |
| `saveStage`, `advance`, `finish` | `SaveStage`, `Advance`, `Finish` | result, `current_stage`, final status |
| `failStage`, `failRun`, `deferFail` | `FailStage`, `FailRun` | error branch, then the deferred function |

A caller (`cPc`) is a goroutine of a request, or recovery, in the methods the two
share: `SubmitPipeline` (blocks while the queue is full) and `CancelContainers`
(list, then delete one by one). Recovery keeps the ids it collected in `rIds`.
A statement that fails may or may not have been applied (`WorkerDbFails`,
`CallDbFails`); once the process drains, the executor's context is dead and each
of its statements fails.

**PipelineService** adds the three requests. `CreatePipeline` inserts the run and
then each stage, and other goroutines see the run before it is complete.
`StartPipeline` and `CancelPipeline` begin with a step that joins the read and
the guarded write, because the write has the same guard as the read. A client
may hang up wherever its goroutine waits for a statement or for the queue.

**ControlService** composes them with `Boot`, `Crash`, `Shutdown` and `Exit`. A
crash loses queue and goroutines; rows and containers stay.

**RecoveredRuns** adds no state. It names the goroutine that carries a run
(`Carried`): queue, submission, claim, execution, or recovery, which carries
everything until it has read its list. `NothingLost` is a step at which no
statement fails and no submission is given up. Likewise for containers: one is
`Watched` while a worker is about to see it or stop it, and `LeftToRecovery`
while recovery has yet to delete what a former process recorded. `NothingFails`
is a step at which no statement and no request to gcs-v2 fails.

**RunLifecycle** is the promise: absent, pending, scheduled, running, an end;
stages finish in order; success only with all of them; the result of a stage in
progress may still be recorded after the run was cancelled or failed.

**AssetCatalog** looks at the same service from the other side: three tables that
refer to each other by foreign keys, and the files behind the datasets. Of a run
it keeps the rows it refers to, a status of five values (the three ends are one)
and the stages that touch files; how a run is executed is not repeated. Each
request is cut where it writes:

| request | actions | code |
|---|---|---|
| upload | `UploadBegin`, `UploadCopy`, `UploadValidate`, `UploadInsert`, `UploadClean` | `CreateUploadedDataset`: directory, file, count of records, row; on an error the directory goes |
| registration of a candidate | `RegisterImport` | `CreateDataset` |
| deletion of a dataset | `RemoveBegin`, `RemoveRow`, `RemoveFiles` | `DeleteDataset`: read, row (the foreign key refuses it), files |
| deletion of a project | `LockProject`, `LockRuns`, `CommitDelete` | `projectRepo.Delete`, one transaction; runs go by ON DELETE CASCADE |
| creation of a run | `ValidateRun`, `InsertRun` | `validatePipeline`, then the insert |
| a worker | `CheckRun`, `BuildSeed`, `ExportImages`, `ExportFile`, `ExportRow`, `Train`, `Finish` | `executePipeline`, `prepareDataset2`, `executeExport2`, `executeStudentTrain2` |

A row lock is a guard: while a transaction holds the locks of a project's runs,
no statement that changes one of them is enabled, and no run of that project is
inserted from the moment the project is locked. The dataset a run generates has
an id that is a function of the run's, so the run stands for it, and another run
may take it as its seed. A refused request leaves its run id free for the next.

**GpuSelection** is about a decision that is taken on snapshots. gcs-v2 gives
cards to tasks (`holder`); programs outside the platform use cards as well
(`foreign`, for how long), which only the telemetry of the node shows (`reading`,
`age`), some time later and by the clock of the node (`Ahead`). `Usable` is
`UnavailableReason` and `Accepts` is `ValidateGPUSelection`. A run uses them when it is created (`Create`), started
(`Start`) and launched: `ReadPool` and `ReadTelemetry` are the two requests of
the check, in the order of the code, and `Allocate` is the creation of the task,
where gcs-v2 decides. On creation and start the check does not look at the pool
and is one step. Time is counted in units of 30 seconds; a reading is one of the
six outcomes the code tells apart. `scheduled` stands for all of a run up to its
training, and a cancelled run ends as one whose request failed.

**BinaryInstall** has one action per statement of `install-binary.py` that changes
something. The three files hold a release, the first binary, nothing or a torn
copy: `copy2` writes into its destination, so a copy that is cut short leaves it
torn, while `os.replace` is one step. A script that raises or is killed between
two steps leaves everything as it is. A release may be one the host cannot
start; one that starts and ends later counts as started, as it does for
`is-active`.

**LogProxy** is `StreamStageLogsWebSocket`. A log is followed by counting how many
of its lines have come by each place (written, sent, taken, passed, received),
since it is only ever delayed or cut off. Each pump has a program counter: it
reads, writes, and signals when either fails; the handler waits for one signal,
and its return closes both connections, on which the other pump then fails.
A line is one step to read and one to write, so the pump for the log may hold a
line when the other one ends. A client may read late (`Buffer`), leave, or send
messages of its own; a connection closed while input is unread is reset, and
lines on their way are lost with it.

**ProjectSummary** has the rows of a project in the order of the listing. The
summary alternates between reading a page and counting all rows, each a statement
of its own; between any two of them runs are inserted, at any place in the order,
because a run is stamped before it is inserted.

**Deployment** puts the three together: `systemctl stop` ends the process, and
with it the goroutines, connections and requests, since `main` does not shut the
HTTP server down first. A client makes one request of either kind.

**TeacherCredentials** keeps the teacher in the rows of a project and of runs: where
it is (endpoint and model name), the service it was chosen as, and two secrets,
`api_secret_ref` and the one in `extra_params`. A secret is named by the teacher
that accepts it, so that a property can say where it belongs. `BeginUpdate` and
`WriteUpdate` are `UpdateProject`: masks are replaced by what the row has, then
the whole row is written. `BeginClone` is a patch: `Where` and `Service` are
the teacher after the merge, `Same` the comparison of the code, `Retain` what
becomes of a secret that is masked, absent or given. `Resolved` is `Resolve`,
against services that move. A null in a patch (`NullRef`, `NullExtra`) leaves the
string of a reference as it was and removes a secret from `extra_params`. A
project (`CredentialInit`) or a run that is created stores what the client sent,
a mask too: only updates and clones look for masks. Two history variables remember
what a null did: `nulling` of the request at hand, `nulled` of the stored runs.

What is abstracted: the content of files, configurations and messages; a
controller stage is a choice between success and failure; validation of a
request and all read-only endpoints are left out.

## 3. Runs

| run | instance | shows |
|---|---|---|
| `faults` | one run of 3 stages (1 and 3 with containers), 2 workers, 2 request goroutines, queue of 2, 2 boots, one failing statement, one lost gcs-v2 request, hang-ups, requests during recovery; symmetric workers and clients; about 600,000 states | type correctness, the safety properties, the refinement of `RunLifecycle`, that no step drops a run or a container which the second process would not take up, and that recovery and a worker get hold of the same run in one way only |
| `liveness` | two runs of one container stage, 1 worker, 1 request goroutine, queue of 1, 2 boots, no failing statements or requests, requests only after recovery; about 215,000 states | nothing is forgotten, and the liveness properties |
| `finding_recovery` | as `liveness` with one run, one boot, requests during recovery | recovery fails a live run |
| `finding_orphan` | one run, two boots | a container without a name outlives its failed run |
| `finding_hangup` | one run, one boot, hang-ups | a run stranded in scheduled |
| `catalog` | one project, one upload, one candidate, two symmetric runs, one failing step, one crash; about 1.6 million states | rows and files stay together, no file is forgotten, runs keep their inputs, an active run is not deleted with its project |
| `catalog_liveness` | the same with one run; about 38,000 states | workers leave runs that are gone; files of deleted datasets are removed |
| `gpu` | one card, two runs, measurements used for 1 unit, a clock 1 unit ahead, ages up to 4; about 19,000 states | no training on a card in long foreign use; runs that selected the same card train or end |
| `finding_images` | one upload, one run, no failures | images vanish under a training run |
| `deployment` | a release that starts and one that does not, two installations, one fault; a log of two lines, one message of the client, a buffer of one; two runs, pages of one; about 456,000 states | what an upgrade leaves behind, that streams are complete and end, that a summary misses nothing |
| `configuration` | two places, one service that moves between them, a project and two symmetric runs, bounded by `ChainOrUpdates`; about 152,000 states (11 million steps) | secrets stay with their teacher, but for references that a null carried over, and are not lost by cloning |
| `finding_null` | the same, unbounded | a null leaves a secret with another teacher |

Why the bounds are enough. All properties but the ones about the queue speak of
one run, and runs share only the queue and the workers, so the safety run has
one run and every goroutine that can touch it at once: two workers (the smallest
number that can execute twice), two requests and recovery. Three stages have a
first, a middle and a last one, and two with containers that could overlap. One
failing statement at each possible place, with two boots, reaches each
error path; two boots give one recovery with something to recover. The
liveness run has more runs than the worker and the queue hold, so that blocking
happens. The constants `MaxDbFaults`, `MaxGcsFaults` and `MaxBoots` are the only
bounds on behaviour; `QueueCap` is 100 in the code. The theorems hold for all
values of all of them.

For the catalogue, one project and one dataset of each kind are enough since
no property relates two of them; two runs are needed for a run that reads what
another one generated, while that one is cancelled, fails or is deleted. One
failure and one crash meet each step of each request (`MaxFaults`, `MaxCrashes`).

For the cards, `LongUseRefused` speaks of one run and each of its cards alone, so
that one card is enough (the theorem has any number of cards); `RunsSettle` needs
two runs on one card. The tolerance `Fresh` of two minutes is 4
units and the one of 30 seconds, `Skew`, is 1; TLC checks smaller `Fresh`, the
theorem all of them. `MaxAge` is the bound above which ages are not told
apart; it exceeds every age the code or a property compares with.

For the deployment, two installations are a first one, which makes the backup,
and one that finds it; `MaxFaults` cuts one copy or kills one script, at each
step. Two lines are one in the hands of a pump and one behind it; with a
`Buffer` of one the pump waits for the client; one message of the client
(`MaxInputs`) is enough for a reset and for input that waits at the end. Two runs
and pages of one (`PageSize` is 100 in the code) give full, short and empty
pages that inserts move. For the secrets, two places and a service that is at
either are all ways in which a teacher can change, and two runs are a clone and
the clone of that clone. `ChainOrUpdates` is a bound: while there are two runs, the
project keeps an empty row and is not being updated; with one run it is updated,
but not while a creation or a clone is in progress. A run copies the row of the project as it is and
never looks at it again, so the two only meet when the run is created. The
theorems have no such bound, and any number of places, services and runs.

The runs switch the deadlock check off: the service may be down for good once
its boots are used up, and an idle service without requests does nothing.

### Properties

* `SuccessIsComplete`, `StagesInOrder`, `CurrentStageAgrees`: run row and stage
  rows, written by separate statements from separate copies, fit together
  whatever is cancelled, fails or crashes between them.
* `OneExecutor`: though recovery, a start request and a former process may all
  have queued a run, one worker executes it.
* `OneContainer`: no two containers of a run are active, even after a create
  request whose answer was lost. `ContainersWatched`: in the first process, with
  no request lost, every active container has a worker about to see it or stop it.
* `NamesFresh`: a container is created under a name that was never used. The name
  is a function of run and stage, and polls and deletions go by it alone, so a
  second use would take the end of an old container for that of a new one.
* `ContainersHandedOn`: in every process, and also where the database fails, a
  container keeps a worker that will see its end, or stop it, until it has ended
  or was deleted, unless a request to gcs-v2 is lost.
* `ContainersCollected`: a new process takes up every recorded container of every
  run that was left running, and recovery loses none before it is deleted, however
  workers and requests move in between. A step at which something fails is
  excepted, and so is the cancellation of the run, which deletes its containers
  by itself.
* `EndsAreFinal`: late snapshots never overwrite an end.
* `ScheduledRunsCarried`, `RunningRunsCarried`: as long as no statement failed, a
  scheduled run is queued, being submitted or claimed, or owed by recovery; a
  running one has its worker or recovery.
* `RunsHandedOn`: a step drops a run only where a statement fails, a client gives up
  or the process ends; and the step that starts a process takes up every run,
  those lost by failures of former processes (of their recovery, too) included.
* `OnlyEarlyRunsHeldTwice`: with requests served while recovery works, recovery
  and the rest of the process (queue, submission, worker) get hold of the same run
  in one way only: a request had started it before recovery read its list. The
  list may then be as old as it likes; what is started later is not touched.
* `RecoverySparesLiveRuns`, `NoOrphanContainers`: what the documents say of a
  restart. Neither holds (below). For the first, the exception of
  `OnlyEarlyRunsHeldTwice` is the whole reason: `LiveRunsAreSpared` proves it of
  every run that no request starts before recovery has its list.
* `ScheduledRunsEnd`, `CallsReturn`: liveness. `ContainersRemoved`, too: what is
  watched or left to recovery is deleted, in the first process and in the next.
* `ImplementsLifecycle`: every step of the service is a step of `RunLifecycle`
  or changes nothing it speaks of.

Of the catalogue:

* `CatalogHasFiles`: a dataset in the catalogue has its complete file, whatever
  failed or crashed while it was uploaded, registered or exported, excepting an
  upload whose caller was told that it failed.
* `RunsKeepInputs`: a run keeps its project, its dataset and the file in it,
  though all were looked at long before the run was inserted.
* `FilesHaveOwner`: unless something failed, a data file belongs to a dataset in
  the catalogue, or to a request or worker that will announce or remove it, so
  none is forgotten by refused uploads and deletions that race each other.
* `ActiveRunsKept`: no project is deleted under a scheduled or running run.
* `WorkersLeave`, `DeletedFilesGo`: liveness.
* `TrainingImagesKept` does not hold (below).

Of the cards:

* `LongUseRefused`: at a launch, no selected card has been in foreign use for
  longer than a measurement may be old, corrected by the clock of the node and
  one unit for rounding, whatever the pool said when it was read.
* `RunsSettle`: a run whose training is due trains or ends.

Of a deployment:

* `OnlyRollbackTears`: wherever a copy is cut short, the binary the service is
  started from stays whole, except in the rollback, which copies over it.
* `RollbackHasRun`: a rollback starts a binary that has run on this host, through
  scripts that were killed between two steps before. If a copy was cut short this
  may fail: the script keeps a backup that exists, even a torn one.
* `ServiceReturns`: a service that was stopped for a release that does not start
  runs again, if nothing else failed.
* `StreamComplete`: a client that sees the end of its stream has every line, if it
  sent nothing itself and gcs-v2 did not break off. `StreamsEnd`: after the
  container ended the handler returns and both pumps are gone, whichever ended
  first.
* `NoRunMissed`: a summary counts each run that existed when it began. It may
  count one twice and disagree with its own total; `QuietSummaryExact` says that
  without inserts it does neither.

Of the secrets:

* `SecretsStay`: a stored secret is one of the teacher it is stored with, after any
  sequence of updates, creations, clones and moves of services. It does not hold
  (`finding_null`, below).
* `SecretsStayUnlessNulled`: it holds of every project, of every secret in
  `extra_params`, and of every reference but those that a null carried over when
  a clone moved to another teacher, or that were cloned from such a row. Those
  are in runs with a manual endpoint only, since resolving a service overwrites
  the reference. The exception is for these rows, not for what comes after.
* `CloneKeepsSecrets`: a clone that keeps the teacher keeps its secrets, whether
  the client leaves them out or returns the masks it was shown.
* `CredentialTypeOK` says, with the types, that an update stores no mask where
  there was none and that no row stores a null.

### Fairness

`FairSpec` assumes weak fairness of each worker, of recovery and of the steps of
a request that was accepted: goroutines the Go runtime schedules. Each of their
loops goes on by itself, so a step that is enabled stays enabled (a full queue
is emptied by workers, who do not wait for the requester). `ContainerEnds`: the
program in a container stops some day. `Boot` and `Exit`: whoever operates the
service (systemd, `Restart=`) starts it again, as often as `MaxBoots` allows; the
properties say what holds if the process then stays away. Nothing is assumed of
clients: they create, start, cancel and hang up or not.

In the catalogue, `FairSpec` assumes weak fairness of each worker and of the
rest of a deletion that has begun. A worker can wait for a row lock only as long
as a transaction holds it, and the transaction goes on by itself.

For the cards, `FairSpec` assumes weak fairness of the worker that executes a
run; nothing is assumed of nodes, telemetry, programs outside or other runs.

For the deployment, `FairSpec` assumes weak fairness of the script (it goes on
unless it is killed), of the handler and of each pump (goroutines), of gcs-v2
sending what it has, and of a client that stays reading. Without the last a pump
waits in a write for as long as the connection lives, which is what the code
does: it sets no deadline. The secrets have no liveness property.

### Findings

* **A run started during recovery is failed** (`finding_recovery`). `Start`
  launches workers and recovery together and requests are served at once.
  Recovery's list of ids is older than the status it reads later: a run that a
  user started before the list was taken, and a worker claimed after it, looks
  interrupted. Its container is deleted and the run failed, against
  `docs/easydistill2-frontend-handoff.md:238`.
* **A container nobody knows** (`finding_orphan`). A crash after gcs-v2 accepted
  the task and before `recordContainer` leaves `container_id` empty, so recovery
  fails the run but does not delete the container, against `offline/README.md:54`.
* **A stranded run** (`finding_hangup`). When the client gives up while the queue
  is full, `pipeline_service.go:169` marks the run failed with the context that
  was just cancelled. The run stays scheduled until the next restart.
* **Images deleted under a training run** (`finding_images`). The export stores
  a multimodal run's images with the generated dataset, and the training data
  names them there. The dataset is listed before training begins and no foreign
  key protects it, so deleting it removes the images while the run trains,
  against the guard that `dataset_service.go:338` describes.
* **A secret that goes along with a null** (`finding_null`). A patch that moves
  the teacher and has null for `api_secret_ref` counts as one that supplies the
  reference (`clone_config.go:95`), but the decoder leaves the string as it was,
  so the clone is stored with the secret of the old teacher and will send it to
  the new one. `docs/easydistill2-frontend-handoff.md:232` says that a changed
  connection needs its secret entered again, and `clone_config_test.go:51` calls
  the same outcome a failure; the test only leaves the reference out.

One more disagreement was read and not run, since it is one missing condition
and no sequence of steps: the catalogue asks for the state and availability of a
node (`service/resource_service.go:111`), `ValidateGPUSelection` only whether
gcs-v2 schedules on it. So `POST /resources/validate` accepts a card that the
catalogue shows as `node_unavailable`, against
`docs/easydistill2-frontend-handoff.md:279`. It matters as far as gcs-v2 keeps
such a node in `brain_workerenablearray`, which the catalogue assumes when it
asks for both. `GpuSelection` has the check and leaves the state of the node out.

## 4. Proofs

TLAPS checks, for all values of the constants that satisfy the named
assumptions (`StoreAssumption`, `GcsAssumption`, `ExecutorAssumption`,
`ServiceAssumption`: at least one stage, a queue that holds something, bounds
that are naturals, distinct identifiers; for the catalogue `CatalogAssumption`, that
the ids of its kinds differ; for the cards `GpuAssumption`, that the bound on
ages exceeds what they are compared with; for the deployment
`InstallAssumption`, `ProxyAssumption` and `SummaryAssumption`, that contents
differ, that a buffer and a page hold something and that runs are finitely many;
for the secrets `CredentialAssumption`, that places, services and the special
values differ):

| module | theorem | property |
|---|---|---|
| `ControlService_proofs` | `TypeInvariance`, `TypeCorrect` | `TypeOK` |
| `ControlServiceSafety_proofs` | `SafetyInvariance` | the inductive invariant |
| `ControlServiceTheorems_proofs` | `RunsHaveOneExecutor` | `OneExecutor` |
| | `SuccessImpliesComplete` | `SuccessIsComplete` |
| | `StagesRunInOrder` | `StagesInOrder` |
| | `CurrentStageIsRight` | `CurrentStageAgrees` |
| | `RunsHaveOneContainer` | `OneContainer` |
| | `EndsStayFinal` | `EndsAreFinal` |
| | `NamesAreFresh` | `NamesFresh` |
| | `LifecycleImplemented` | `ImplementsLifecycle` |
| | `WorkersComeNearer` | only polls can hold a worker |
| `RecoveredRuns_proofs` | `RunsAreHandedOn` | `RunsHandedOn` |
| | `LostRunsAreRecovered` | its consequence over whole behaviours |
| | `ScheduledRunsAreCarried` | `ScheduledRunsCarried`, if no client hangs up |
| | `RunningRunsAreCarried` | `RunningRunsCarried`, if no client hangs up |
| | `ContainersAreWatched` | `ContainersWatched` |
| | `RecoveryHoldsRunsAlone` | `OnlyEarlyRunsHeldTwice` |
| | `LiveRunsAreSpared` | recovery fails no live run that was not started before it had its list |
| | `ContainersAreHandedOn` | `ContainersHandedOn` |
| | `RecordedContainersAreCollected` | `ContainersCollected` |
| | `CrashesLoseNoContainer` | its consequence over whole behaviours |
| `AssetCatalog_proofs` | `CatalogTypeCorrect` | `TypeOK` |
| | `CatalogInvariance` | the inductive invariant |
| | `DatasetsHaveFiles` | `CatalogHasFiles` |
| | `InputsStay` | `RunsKeepInputs` |
| | `ActiveRunsStay` | `ActiveRunsKept` |
| | `FilesAreOwned` | `FilesHaveOwner` |
| `GpuSelection_proofs` | `GpuTypeCorrect` | `TypeOK` |
| | `LongUseIsRefused` | `LongUseRefused` |
| `Deployment_proofs` | `DeploymentTypeCorrect` | `TypeOK` |
| | `UpgradesTearNothing` | `OnlyRollbackTears` |
| | `RollbacksHaveRun` | `RollbackHasRun` |
| | `StreamsAreComplete` | `StreamComplete` |
| | `NoRunIsMissed` | `NoRunMissed` |
| | `QuietSummaryIsExact` | `QuietSummaryExact` |
| `TeacherCredentials_proofs` | `CredentialTypeCorrect` | `CredentialTypeOK` |
| | `SecretsStayWithTeacher` | `SecretsStayUnlessNulled` |
| | `SecretsStayUntilNulled` | `SecretsStay`, as long as no row has a reference that a null carried over |
| | `ClonesKeepTheirSecrets` | `CloneKeepsSecrets` |

**The argument.** None of the properties is inductive. That a run succeeds only
when complete rests on what a worker knows at each of its steps, and that
knowledge on nobody else executing the run. `SafeInv` therefore has, besides
`OneExecutor`, three parts:

* `RunInv(p)`, about the rows of a run alone: before it is claimed nothing of it
  has begun; its stages are succeeded up to `current_stage`, pending beyond it;
  those beyond the stage at hand are untouched, and at most one task is active.
* `HandInv(w)`, about a worker executing a run, by program counter: how
  `wStage[w]` and `current_stage` agree unless the run has ended, what the stage
  row can be when the worker writes it, and what the task is.
* `CallInv(c)`: what a caller will write is compatible with all that: a snapshot
  of a stage it holds is of a stage that had begun, and so is the run that
  recovery is about to fail.

`OneExecutor` holds because only the compare-and-set of `Claim` puts a
run into a hand, which needs status scheduled, and a run in a hand is not scheduled
and never becomes so again. Each action is checked against each part; that the
statements of a worker leave other runs' rows and other workers' hands alone is
a lemma of its own. For the refinement, `NextMoves` shows that each step of
`Next` does to the rows one of eight moves, and each move is a step of
`RunLifecycle` or a stutter.

`NamesAreFresh` adds `FreshInv`: from the moment a worker begins with a stage until
it creates the container, nothing was ever created under that name. It is
inductive only with `SafeInv`: the run of a worker that starts has no tasks at
all, the stage it advances to has none, and nobody else creates tasks of a run in
its hand. `WorkersComeNearer` is a step towards the liveness that TLC checks. `Distance(w)`
counts the steps that a worker in the middle of a run may at most still take,
polls aside. It is bounded, and each step of the worker except `WaitTick` and
`Poll` that go on waiting lowers it, whatever else happens: so nothing but the
wait for a container can keep a worker from its next run.

`RecoveredRuns_proofs` follows who has a run. `Carried(p)` says which goroutine: a
scheduled run is in the queue, in a submission or in the hand of a worker about
to claim it, a running one has a worker executing it or is being failed by
recovery, and either may be collected by recovery (or recovery has not read its
list yet). Every step passes it on or ends the run, unless a statement fails or a
client gives up; a boot establishes it afresh, because recovery then has to
collect. That is `RunsAreHandedOn`. `LostRunsAreRecovered` follows by temporal
reasoning: if nothing is lost any more from a moment at which the service is down,
then no run is forgotten from there on, whatever was lost before. (TLC cannot
evaluate a formula of that form; it checks the step.)

Containers go the same way. `ContainersAreHandedOn` needs the types only: a step of
a worker that leaves the part of the code in which it watches is one that has
found the container ended, or has deleted it (`WorkerHandsOn`).
`RecordedContainersAreCollected` needs `CollectInv`, whose parts say why
recovery does not lose what it has collected: a recorded container has a stage
row, so the list of stages shows it (`RecordedInv`); recovery fails no run that
is still among those it has to look at (`OnceInv`); and a request that writes
stage rows or deletes containers does so for a cancelled run (`CancelInv`, which
rests on `EndsAreFinal`). `CrashesLoseNoContainer` is the consequence: if a run is
found running when the service is down, its recorded container is left to
recovery in each process that follows, through any number of crashes, until it
has stopped or was deleted. It excepts signals. After one, each statement of the
executor fails, and since one that was under way may have been applied, the
model lets any of them be: recovery may then record a run as failed whose
containers it could not list, and no later process looks at that run. The code
sends no statement on a context that is dead when it begins, so this is the
caution of the model and not a finding.

`ScheduledRunsAreCarried` and `RunningRunsAreCarried` are the same argument
with no failed statement at all; they assume the constant `Disconnects` to be
FALSE, as in the run `liveness`, since a client that hangs up may strand a run
(`finding_hangup`). `WatchInv` adds to `ContainersWatched` that before the first
boot there is no task, and rests on `DownInv`, that nothing moves while the
process is down.

`RecoveryHoldsRunsAlone` assumes nothing of requests. A run gets into the hands of the
others by a request that starts it or by recovery, which hands it over
(`ElsewhereComes`), and into those of recovery only when it reads its list
(`HoldingComes`). `BegunInv` closes the one gap: what recovery holds is not
pending any more, so that no request can start it while recovery has it; and by
`OnceInv` recovery does not keep what it has queued. `LiveRunsAreSpared` is the
consequence over whole behaviours: from a moment at which the service is down, if
no request starts the run while recovery has yet to read its list, `Apart` is
kept by every step (`ApartStep`), also by crashes and by boots, and says that the
run is never in both hands. `finding_recovery` shows that the condition is
needed.

`CatalogInv` adds to what the runs check: `LockInv`, that a run whose lock is
held is not active, without which `CommitDelete` might delete a run that started
since; `KeyInv`, the foreign keys; `FileInv`, the order of file and row in
uploads and deletions; `ExportInv`, that a run is claimed once, so its dataset
has no row until its own export inserts it and a deleted one does not return.
`FilesHaveOwner` is inductive with the types: each action that gives up a row, or
ends a request, removes the file or passes it on (`OwnerStep`).

`LongUseIsRefused` rests on `ReadingInv`: a card that the last measurement found
idle has been in foreign use since that measurement at most. It is inductive with
the types, since both ages grow together and a measurement finds a card in
use busy; the age a launch tolerates then bounds the use it can have missed.

`InstallInv` says that nothing but the backup has been touched while there is none,
so the backup is the first binary or torn, and that what is about to replace
the target is whole. `StreamInv` follows a client that sent nothing on a
connection that did not break: the pump for its input can only wait, so the
handler returns after the pump for the log does, which has then passed the last
line; at each of its steps the counts say which line it holds. `SummaryInv` says
of a summary at work that each run it began with is counted or still ahead of
the place it has reached (`NoneLost`): an insert moves rows back only, so ahead
stays ahead; a short page shows that nothing was ahead when it was read. The
lemma `InsertAtShifts` is about the sequence, `NextPage` about the offsets.
`CredentialInv` carries over every secret that is stored or about to be, with the
references that `nulling` and `nulled` excuse; its step rests on one lemma for
each thing the code stores (`UpdateStores`, `CloneStores`, `ResolveStores`), each
proved from what the code does to one secret (`RetainKeeps`).

**Only model-checked.** All safety properties of the runs are proved. The liveness properties (`ScheduledRunsEnd`, `CallsReturn`,
`ContainersRemoved`, `WorkersLeave`, `DeletedFilesGo`, `RunsSettle`,
`ServiceReturns`, `StreamsEnd`), since liveness under fairness and ENABLED are
beyond the prover, as are induction over data and recursive operators. The
findings are counterexamples of TLC.

## 5. Not modelled

Every part with state of its own has its module, and every safety property
the runs check has its theorem.

Limits of what is modelled:

* `import-model.py` checks its destination and renames a complete directory to it
  at the end; of two imports the second rename fails, since the destination is
  then not empty. `cleanup-legacy.py`, `load-images.py` and `preflight.py` call
  docker and systemd once per object and keep nothing.
* A project is not deleted while a summary of it is read; the summary would
  then miss runs that no longer exist.
* Masks inside `parameters` and nested `extra_params` are not restored by the
  code and not modelled; clients are assumed to enter a secret only for the
  teacher named in the same request. A mask that is sent when a project or a run
  is created is stored as it is, in the model as in the code. Updates of one
  project are one at a time: each writes a whole row that agrees in itself.
* `preparing` and configurations without `distillation` (section 2).

Left out for good: formatting of configuration files and tables of recipe
defaults, records and scores (parsing and arithmetic over one file at a time), path
arithmetic and symbolic links, the catalogue of models (read on each request), the
HTTP router, logging, generated API documents, image building. They keep no state
of their own, or state TLC can say nothing of that a unit test does not say
better.
