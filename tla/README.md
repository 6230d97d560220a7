# Verification of the smart contract verifier

TLA+ models of the aeternity smart contract verifier, the configurations TLC
checks them with, and theorems about them that TLAPS proves. The modules are
translated from the TypeScript sources under `apps/`; `PROJECT.json` names the
lines each definition stands for.

Contents: [the system](#the-system), [modules](#modules),
[fidelity](#how-state-and-actions-correspond-to-the-code), [runs](#runs),
[where the code and its documents disagree](#where-the-code-and-its-documents-disagree),
[bounds](#bounds), [fairness](#fairness), [proofs](#proofs),
[what is not modelled](#what-is-not-modelled), [plan](#plan).

## The system

A user uploads the sources of a deployed contract. The gateway (NestJS, one
process) stores a submission; a cron job puts a task for it on a RabbitMQ queue;
a worker process takes the task, compiles the sources with the compiler the
bytecode names, and reports with HTTP POSTs; the gateway records what is
reported and, on success, publishes the sources under the contract's id.

    user ── POST ──> ContractsController.submit ──> ContractsService.submit
                                                          │ INSERT
                                                          v
          cron, 30 s ── VerificationSchedulerService ── contract_submissions
                                │ emit                    ^
                                v                         │ UPDATE
                             RabbitMQ          VerificationSupervisorService ──> contracts
                                │ prefetch 1              ^                 ──> history
                                v                         │
                      VerificationAgentController ── POSTs, not awaited
                       VerificationService (compiler, one directory)

| Part | State | Operations | Hard because | Must hold |
| --- | --- | --- | --- | --- |
| `ContractsController.submit` and the validators | a stack, a set of marks | recaptcha, validate, follow the includes, filter | files include each other in circles; library names are never marked | stores exactly the entry file's tree; the POST is answered |
| `ContractsService` | `contract_submissions`, `contracts`, their source files | `submit`, `checkSubmissionStatus`, `getVerifiedContract(s)`, `getVerifiedContractSource(File)`, `confirmSubmission` | the check "already verified" and the insert are apart; several submissions of one contract | what is reported as a success is published, with the files the compiler saw |
| `VerificationSchedulerService` | entities it found, its place in the batch, tasks emitted and not yet with the broker | the cron job | runs may overlap; `save` works on a stale entity; crash in the middle of a batch | every submission is taken up; its task exists once; no verdict is overwritten |
| `VerificationSupervisorService` | none but the rows, and what a handler has read | `processNotification` | notifications are served concurrently, out of order; three or four statements in no transaction | history explains the status; status and publication agree |
| RabbitMQ | tasks, unacknowledged deliveries | deliver, ack, requeue | redelivery while the old handler runs; loss on restart | no unfinished submission is forgotten |
| `VerificationAgentController` and the worker's `VerificationService` | handlers, POSTs on their way, one directory for contract files | take, sign, wipe, write, validate, report, ack | POSTs are not awaited; an error answer ends the process; the directory is shared and outlives it; files are written concurrently | a success is about the files of that very task |
| `WorkerAuthGuard`, throttler | counters, keys | let a POST pass or refuse it | a refusal takes the worker down | nothing is published by it, no status changes |
| Migrations | the schema, the list of applied migrations | `migration:run`, `migration:revert` | operators run and revert them beside a gateway that keeps storing rows | `down` undoes `up`; nothing published, new or processing is lost; what is verified keeps its compiler; the status names the schema |
| `StatusService`, `CompilersController`, configuration | none of their own | read and report | | only the last migration is modelled, see below |

`hazards` in `PROJECT.json` lists what is hard to test in these parts, line by
line, with the properties that watch it.

## Modules

| Module | What it is |
| --- | --- |
| `ScvTypes` | identities, statuses, the columns that may be null |
| `GatewayStore` | the three tables, `update`, `save`, the history |
| `SubmissionApi` | `ContractsService`: the POST of a submission in its awaits, the answers users read |
| `VerificationScheduler` | the cron job, several runs of it |
| `Transport` | the queue, the worker's POSTs and how far their handlers got |
| `VerificationSupervisor` | `processNotification` with `confirmSubmission` |
| `VerificationWorker` | handlers, worker processes, their directory, crashes, lost connections |
| `VerificationPipeline` | composes the above; broker, faults, next-state relation, fairness |
| `VerifiedRegistry` | abstract specification: claims are made, genuine ones may be published, the first one for a contract stays |
| `PipelineProperties` | the invariants, safety, liveness, the refinement |
| `MCPipeline` | instances for TLC |
| `PipelineProofs` | the inductive invariant |
| `RegistryProofs` | handlers are kept apart, verdicts are sound, the pipeline implements the registry |
| `OutcomeProofs` | what the history explains, what is published; while the gateway holds |
| `SchedulingProofs` | what holds where runs of the cron job do not overlap |
| `TrackingProofs` | nothing is lost where only workers fail |
| `SourceIntake` | `ContractsController.submit` up to the call of `ContractsService.submit` |
| `SourceIntakeProperties` | the entry file's tree, defined without order, stack or marks |
| `SourceIntakeProofs` | the traversal is exact, for any files |
| `PublishedSources` | extends the intake: the kept files in the worker's directory, the compiler's three runs, the published rows, the two reads |
| `PublishedSourcesProperties` | what readers may rely on |
| `MCPublishedSources` | the uploads and places TLC tries |
| `PublishedSourcesProofs` | readers get what was compiled, for any uploads and places |
| `DatabaseMigrations` | the five migrations, the commands, and the gateway's statements beside them |
| `MigrationProperties` | what migrations must keep |
| `MCMigrations` | three submissions, two contracts |
| `MigrationProofs` | every command leaves the schema of its list, for any rows |

A definition whose comment starts with "Seeded bug" is not used by any
specification. Each is a way the definition it precedes could plausibly be
wrong; put in its place, it violates the property that `PROJECT.json` pairs it
with, which shows that the property looks at that code.

## How state and actions correspond to the code

**One action per await.** Node runs a handler without interruption between two
awaits, so a handler is a state machine with one action per awaited call:
`SubmitCheck`/`SubmitStore`; `CronFires`, `EmitTask`, `RecordPending`,
`SaveLoad`, `SaveWrite`; `FindSubmission`, `Update...`, `ConfirmRead`,
`StoreContract`, `UndoSuccess`, `SaveHistory`; `TakeTask`, `ClearDirectory`,
`WriteFiles`, `Report`, `Ack`. What the handler has read so far is in its record
(`runs`, `requests`, `handlers`), so it may be stale when it is used.

* `mqClient.emit` is not awaited: the task goes to `outbox`, the client's
  buffer, and `PublishTask` moves it to `queue`. A gateway crash loses the buffer.
* `repository.save(entity)` is a SELECT (`SaveLoad`) and an UPDATE of the columns
  in which the entity differs from the selected row (`SaveWrite`); the entity is
  the one `find` returned at the start of the run, plus what the loop assigned.
* The job is started every 30 seconds whether or not the last run is over. `Runs`
  has as many elements as runs may overlap.
* `fail_retry` is a status the scheduler looks for (with `retryAfter` equal to
  this very instant) and nothing ever sets; it stays in the guard.
* `retryAfter`, `result`, `compiler`, ... are known only as filled or null: the
  set `filled` of a row. That is what the properties tell apart.
* `genuine` of a submission: its sources compile to the bytecode of its
  contract. Only `MayValidate` looks at it, and only if the directory holds that
  task's files and no others; of any other content nothing is assumed.
* The worker's POSTs are not awaited. `TakeTask` and `Report` start one
  (`Transport.Post`) and go on; its handler in the gateway runs concurrently, in
  any order with the others. An error answer is an unhandled error of the
  observable and ends the worker process (`NotifyError`); docker restarts it, the
  broker requeues what it held.
* A worker whose key cannot sign (`Misconfigured`) returns early and leaves its
  delivery unacknowledged; with `prefetchCount` 1 it gets no other: `wedged`.
* A lost connection requeues the deliveries of a process while its handlers go
  on. Their later acks do nothing.
* `findOneOrFail` in `processNotification` always finds the row, since a
  notification is about a submission that exists (`NotificationsInv`); the
  `default` branch that throws on an unknown status is reached by no worker. They
  have no action.
* A broker restart loses the tasks: the queue is durable, the messages are sent
  without `persistent`.
* In the intake a file is its name, size, validity of its name, and the names on
  its include lines. A line without quotes names a file that nobody has.

* In `PublishedSources` a file's content is its index in the upload, and a place on
  the worker's disk holds the set of contents it has bytes of. `writeFile`
  truncates (`OpenFile`) and then writes from the start (`WriteContent`): where
  two writes share a place, what is longer stays behind what is written last. All
  kept files are written concurrently, in any order. `path.resolve` is the function
  `LocationOf`, so `a/./b.aes` may share a place with `a/b.aes`. The validator joins a
  name to a sample root, the worker resolves it against `/usr/src/contracts/`: a name
  that starts with a slash passes the one and leaves the directory in the other.
  `Inside` are the places in the directory, which `rm -rf` empties; what is
  written elsewhere stays for all later tasks.
* The compiler runs three times, for the ACI, the validation and the init parameters,
  and each run has read what was there then (`compiled`). The first leaves its output
  in the directory as `_result.json` (`ResultFile`). No upload is written there: the
  validator asks every name to end in `.aes`.
* `Promise.all` ends with the first write that fails, the others go on:
  `earlier` are the places such writes of an earlier task may still touch.
* Between the compiler and the published rows lies the pipeline; `Publish` is what
  is left of it here. Source files are copied row by row and read in no order:
  `find` by path is any of the files of that path.
* In `DatabaseMigrations` the schema is a set of columns, each with its type and
  constraint; a migration says which tables and columns it drops, alters and
  adds. `Refused` is PostgreSQL's: a NOT NULL column without default beside rows, a
  status that the new enum lacks. A command is one transaction: it commits or leaves
  no trace. A DDL statement locks its table to the end, which lets a command be one step.
* The `down` of `AutoDetectCompiler` is not one step. Its UPDATEs lock only the rows they
  fill, and each SET NOT NULL comes a statement later: `FillContracts`, `AlterContracts`,
  `FillSubmissions`, `AlterSubmissions`, with the gateway's statements in between. A
  row stored meanwhile with a NULL compiler refuses the ALTER, and all of it is rolled
  back (`RevertFails`). Others see the fill when it is committed; until then an
  UPDATE of a filled row waits, and an INSERT into a table that is locked.
* A SELECT or INSERT of the gateway names all columns of its entity (`Usable`), an UPDATE
  those it sets (`SetColumns`): it may still go through where `AutoDetectCompiler` is
  reverted.

**Faults** are actions of `VerificationPipeline` counted by `faultCount`; a
configuration lists which kinds happen and how many:

| Kind | What it is |
| --- | --- |
| `workerCrash` | the process dies, POSTs it started are still served |
| `postLost` | it dies and some of them never left |
| `connectionLost` | between a worker and the broker |
| `brokerRestart` | queued tasks are lost, connections too |
| `postRejected` | throttler, guard or network refuse a POST |
| `storeError` | one statement of the gateway fails, and its catch or the caller's sees it |
| `gatewayCrash` | every handler, run and buffer of the gateway is gone |

## Runs

Each line says what the run asks and what its answer shows. Runs of `MCPipeline`
unless noted.

| Run | Instance | Checks | Shows |
| --- | --- | --- | --- |
| `two_submissions` | two submissions of one contract, each genuine or not; one worker process with two handlers; no faults | `SuccessIsPublished`, `TaskIsUnique`, `TasksComeOneByOne`, `SandboxInv`, `ImplementsRegistry` | whoever is first is published, the other is told `fail`; prefetch 1 keeps the two handlers apart though both exist, so the directory never mixes |
| `all_faults` | one submission, any one of the seven faults | `TypeOK`, `PipelineInv`, `PublishedHasCompiler`, `FailIsExplained`, `ImplementsRegistry` | the inductive invariant TLAPS proves, the registry, and what users read of a published contract and of a fail |
| `redelivery` | a worker with two handlers and one that cannot sign; one crash or lost connection | `UnfinishedIsTracked`, `HistoryExplainsStatus`, `TaskIsUnique` | redelivery beside the old handler and a task swallowed by the early return neither lose nor double it |
| `overlapping_runs` | two runs of the cron job at a time | `SuccessIsPublished`, `HistoryExplainsStatus` | a task emitted twice and a stale `save` do not part status, publication and history |
| `scheduling` | two submissions, failing statements and gateway crashes (two), no worker that can sign | `NewIsScheduled` | what a crash leaves `new` in the middle of a batch is taken up by a later run |
| `verdicts` | one crash or lost connection of the worker | `VerdictIsRecorded` | every submission gets a verdict on record |
| `published_sources` (`MCPublishedSources`) | uploads of two files, one with up to two include lines and one with up to one, and of the entry file with two include lines and two more files with up to one; odd ones for the validator and the recaptcha; leftovers on the disk, at most one write of an earlier task | `TypeOK`, `TraversalInv`, `KeptIsEntryTree`, `PostIsAnswered`, `FilesTypeOK`, `DirectoryInv`, `ReadersGetWhatWasCompiled`, `NothingCompiledIsHidden`, `EntryFileIsFlagged` | the traversal finds the tree and ends; through every order of the writes, every restart and the three runs of the compiler, readers get the files the compiler saw, under the conditions below |
| `migrations` (`MCMigrations`) | three submissions of two contracts; commands in any order, the latest revert statement by statement | `TypeOK`, `SchemaIsTheListedOne`, `StatusTellsSchema`, `RunFailsOnlyWhenStranded`, `VerifiedKeepsCompiler`, `PublishedSurvives`, `UnfinishedSurvives` | every `down` undoes its `up`; the entities and the last migration agree; reverts that would lose published sources or new or processing submissions are refused; no fill ends up in a verified row; there is one way to get stuck, and it is named |
| `published_not_reported`, `stale_save`, `crash_while_confirming`, `overlapping_handlers` | the least instance that shows it | one claim each | the disagreements below |

Under which faults a property can hold was found out with TLC, and each run
states it by its `Faults`:

* `PipelineInv` and the types: all of them.
* `ImplementsRegistry`, `SandboxInv`: all, as long as no two handlers of one
  process overlap. A lost connection or a broker restart may make them overlap;
  `all_faults` has one handler per process, so all seven kinds happen there,
  and `overlapping_handlers` shows what happens with two.
* `SuccessIsPublished`: not under `storeError` and `gatewayCrash` (the catch that
  takes a success back may itself fail).
* `HistoryExplainsStatus`: likewise, the record is a statement of its own.
* `UnfinishedIsTracked`, `VerdictIsRecorded`: `workerCrash` and
  `connectionLost`. A POST that is lost or refused, a broker restart or a gateway
  crash loses the only trace of an unfinished submission, as nothing reschedules.
* `PublishedHasCompiler`, `FailIsExplained`, `TaskIsUnique`: one run of the cron
  job at a time.
* What is said of the files from the directory to the readers (`DirectoryInv` and the
  three below): where no write of an earlier task is left running (`Undisturbed`);
  nothing in the code waits for these.
  * `ReadersGetWhatWasCompiled`: of each file that shares its place with no other
    stored file (`Alone`). The validator admits two files of one place, also two of one
    name: of these the compiler sees one, or a mixture, and readers get both.
  * `NothingCompiledIsHidden`: in the directory, shared places or not, and outside
    where a published file was written. Elsewhere outside the compiler may find what an
    earlier task left: a submission that includes such a file without uploading it
    may compile on that worker, and is published without it.
  * `EntryFileIsFlagged`: where no stored file of another name has the entry's
    place. Two uploads with the entry's name are both flagged, and what the
    compiler took is of them; it is exactly one flag if it is one upload.
* `UnfinishedSurvives`: new and processing submissions always, as no enum of an
  earlier schema has these statuses; pending ones, whose tasks are queued, down to the
  revert of `Verification`. The reverts below drop the column, then the tables, and
  nothing refuses that.
* `RunFailsOnlyWhenStranded` says that it can happen: an operator who reverts
  `AutoDetectCompiler` and `Verification` beside submissions, none of them new,
  processing or published, cannot run `Verification` again until they are gone.
* That the latest migration can be reverted whatever rows there are is not claimed:
  a submission stored between the UPDATE and the ALTER makes the command fail, and
  the operator has to repeat it.
* `PostIsAnswered`: as long as uploaded files with names of the standard library
  do not include each other in a circle (`NoLibraryCircle`); the traversal does
  not mark those names.

## Where the code and its documents disagree

Four runs expect a violation. Each checks one sentence of the repository.

* `overlapping_handlers`, `PublishedIsVerified`: "If verified successfuly, the
  source code will be stored and made publicly available." The handlers of a
  worker process share `/usr/src/contracts/`. After a connection to the broker
  broke, the next task is delivered while the old handler runs; each wipes and
  writes the directory the other compiles in. A success may then be about the
  other task's files, and sources that were never verified are published.
* `crash_while_confirming`, `SuccessIsPublished`: same sentence. The status is
  updated to `success` before the contract is inserted, in no transaction. A
  gateway that dies in between leaves a success that is never published.
* `published_not_reported`, `PublishedIsReported`: "Check progress and/or results
  of a contract verification." The worker awaits neither the `processing` POST
  nor the verdict's; if the gateway handles the first after the second, a
  published submission says `processing` for good.
* `stale_save`, `FailIsExplained`: "Error message details if status is FAIL". Two
  overlapping runs hold two entities of one row; the later `save` clears
  `result`, which a fail has filled meanwhile.

Not a run, as there is no code to run: `monitorVerificationExecution`, whose comment
says "reschedule submissions if they timed out", is empty. So a submission whose
verdict was lost with its worker stays `processing`; `verdicts` has no such fault.

Nor is there a run for file names that start with a slash: the validator calls what it
accepts "relative" paths, and `/a.aes` passes. `NothingCompiledIsHidden` leaves out what
follows from that (see above), and `hazards` lists it.

## Bounds

* **Submissions, contracts.** Submissions interact only through the row of their
  contract, the worker's directory and the batch of a run: two submissions of
  one contract have all three. With one submission, faults and redeliveries are
  affordable.
* **Requests.** Slots for the POSTs under way, two. The `processing` POST and the
  verdict of a task are the two that race; a third would be one of another
  delivery, which `two_submissions` and `redelivery` reach by reusing slots. With
  all slots taken a worker waits: that removes behaviours and adds none.
  Slots are interchangeable (`SlotSymmetry`), the handlers of one worker too.
* **Runs.** One, or two where overlap is the question; nothing tells a third from
  the second.
* **Handlers.** One per process suffices unless deliveries may overlap, two for that.
* **`MaxFaults`.** One, two in `scheduling` (a crash that interrupts the recovery
  from a failed statement). The proofs have no such bound.
* **Files.** Five names: the entry file, another, one more path to the place of that
  one, one of the standard library, one that starts with a slash; three files, so that
  two may share a name or a place and a circle may pass through the library file.
  One of three files is longer than the others. A first file may name any of the
  five on its second include line, uploaded or not.
  `EarlierWrites` is the bound on writes left by an earlier task: one, at the
  shared place. What is on the disk when the task comes is one of four
  `Leftovers`: nothing, something everywhere, and two in between.
* **Migrations.** Two submissions of one contract and one of another: a table may have
  rows with and without a compiler, published and not. Nothing else is bounded,
  the list of migrations is finite.
* `CHECK_DEADLOCK FALSE` where the system may stop: a pipeline with every submission
  settled, an upload that was refused or published. The operator of `migrations`
  always has a command, so its deadlocks are checked.

## Fairness

`FairSpec` of the pipeline asks for weak fairness of each submission's POST once it
is being served (`ApiStep` with `intake[s] # None`) and of `PublishTask`, of each run
(`RunStep`, which includes the start of the cron job), of each POST (`NotifyStep`,
`ErrorStep`) and of each handler (`WorkerStep`). The code justifies it: Node's
event loop serves every settled promise, `@Cron` fires every 30 seconds, the
broker delivers what it holds to a consumer with room, commands of the compiler
end, docker restarts a process that died. Nobody has to submit and no fault has
to happen. No strong fairness is assumed, and none between the two POSTs of a task.
In `SourceIntake` the handler is synchronous but for one HTTP request, which ends.

## Proofs

TLAPS proves, for every value of the constants (any number of submissions,
contracts, workers, handlers, runs, POSTs and faults):

* `PipelineInvariant`, `TypeCorrect` (`PipelineProofs`): `Spec => []PipelineInv`.
  `TypeOK` alone is not inductive: `SaveHistory` writes the `prevStatus` its
  handler read, so `NotificationsInv` must say it was read; that one needs the
  submission to be stored, which `TasksInv` must say of tasks; that one needs
  `RunsInv` for what the scheduler emits; and `IntakeInv` keeps a second POST from
  replacing a row. There is one lemma per action, and frame lemmas for the
  parts an action cannot disturb.
* `PrefetchSerialises` (`RegistryProofs`): if neither `connectionLost` nor
  `brokerRestart` is among the faults, `TasksComeOneByOne`. Inductive is
  `DeliveriesInv`: every handler at work owns its delivery, and a process has one.
* `VerdictsAreSound`: `Spec /\ []TasksComeOneByOne => []SandboxInv`. A handler
  that is alone finds in the directory what it put there, since it wiped it first,
  so it validates its own files; and a notification of a success keeps the
  submission it is about. The hypothesis is the one `overlapping_handlers` breaks.
* `PipelineImplementsRegistry`: under the same hypothesis every step is a step
  of `VerifiedRegistry` or a stutter: `SubmitStore` is `Submit`, `StoreContract`
  that is not refused is `Publish`, the rest leaves claims and registry alone.
* `RegistryWhileConnectionsHold`: the last three together, with an assumption on
  `Faults` only.
* `HistoryTheorem`, `SuccessTheorem` (`OutcomeProofs`): `HistoryExplainsStatus` and
  `SuccessIsPublished`, if neither `storeError` nor `gatewayCrash` is among the faults
  (`GatewayHolds`); workers, their POSTs and the broker may fail in every way. The
  hypothesis is the one `crash_while_confirming` breaks. Both need that the entity
  of a run in `save` is pending and recorded as such (`ScheduledInv`): of a run that
  overlaps another, `save` may write a row back that has a verdict, and then
  the status it leaves must already be explained. `SuccessInv` says of each row what
  the property says of the API's answer.
* `CompilerTheorem`, `FailTheorem` (`SchedulingProofs`): `PublishedHasCompiler` and
  `FailIsExplained` under every fault, where the runs of the cron job do not overlap
  (`OneRun`); `stale_save` shows two that do. The columns (`ColumnsInv`) are filled
  by the UPDATE that sets the status and nothing clears them but `save`, so what
  is needed is that `save` finds its row as the run read it: no row in
  a run's batch becomes pending by another hand (`StaleInv`).
* `UniqueTheorem`: `TaskIsUnique`, where runs do not overlap and the gateway
  holds. `UniqueInv` adds that a row a run may find has no task, nor
  has one in a batch; a run between the emit and the end of `save` is the
  exception (`BeingScheduled`). Each step outside the scheduler moves tasks and
  makes none (`TasksMove`).
* `TrackedTheorem` (`TrackingProofs`): `UnfinishedIsTracked`, where only
  `workerCrash` and `connectionLost` happen (`OnlyWorkersFail`), for any number of
  overlapping runs and handlers. Every other kind of fault can drop the last trace
  of a submission: that is the code's lack of a rescheduler, listed as a hazard.
  `TrackedInv` follows a submission from the emit on (`Begun`) and adds that a handler
  that has reported left a verdict behind, which is why its ack loses nothing, and
  that the handler of a verdict will record a verdict.
* `TraversalInvariant`, `TraversalIsExact` (`SourceIntakeProofs`): for any uploads,
  what is stored are the files of the entry file's tree. The invariant needs
  the library files that were followed, which the code has no variable for, so it
  asks for their existence; when the stack is empty, these and the marked
  ones are a closed set, and the tree is the least such set.
* `FilesRefineIntake` (`PublishedSourcesProofs`): `FilesSpec => Spec`, so the theorems
  about the intake hold of the composition.
* `DirectoryIsTheTasks`: `DirectoryInv`, which is inductive with `FilesTypeOK` and what
  holds of the intake (`FilesInv`): nothing is being written when the directory is
  cleared; from then on only this task's writes put anything in the places that were
  emptied, by the `rm` or by truncating (`Emptied`), and the first run of the compiler
  its result, at a place of no valid name; `Promise.all` keeps the compiler waiting for
  all writes, so its three runs read the same. From it follow `ReadersTheorem`,
  `NothingHidden` and `EntryTheorem`, under the conditions named above, which the
  formulas state. `EntryTheorem` also needs the validator's check for the entry file
  and the traversal's invariant: an entry with the name of a library file has a place
  in the directory, which is empty, any other is kept.
* `MigrationInvariant` (`MigrationProofs`), for any set of submissions and contracts:
  the schema is the one that belongs to the number of migrations listed, given column by
  column for each table (`IsSchema`), and the rows fit it (`RowsFit`). There is one lemma
  per `up` and per `down`, each from what the migration does to each table (`Does`,
  `Merged`), and one for the gateway's statements, which name columns
  that only Verification brings (`UsableFrom`). A transaction of several migrations
  is five turns (`TurnKeeps`). The rows are needed as much as the schema: what is
  published has its files, and these are what refuses to revert Verification; and
  before Verification no status is `new` or `processing`.
* Beside it goes `RevertInv`: while `AutoDetectCompiler` is being reverted, the rows
  its UPDATEs have filled are NULL to the others and stay so, as they are locked.
  With that `VerifiedKeepsCompiler` is inductive: a verified row has its compiler, so it
  is none of those the COMMIT writes the fill to (`CompilersTheorem`).
* From these follow `SchemaTheorem`, `StatusTheorem`, `MigrationTypeCorrect`,
  `RunTheorem` (both directions: `migration:run` is refused there, and nowhere
  else), and of what a command may never do `PublishedTheorem` and
  `UnfinishedTheorem`.

Assumptions on constants are the named ones of the modules: `NoneAssumption`
and its like say that `None` is none of the identities, which workers handlers
run in, which kinds of fault there are. TLC evaluates them on every run.

With these every invariant and every action property a passing run checks is a theorem, and
each hypothesis about faults or runs is one that the runs that claim the property meet.

Only model-checked: the liveness properties (`NewIsScheduled`, `VerdictIsRecorded`,
`PostIsAnswered`), since the prover has no rules for fairness over `ENABLED`.

## What is not modelled

* Of `StatusService` only the last migration is modelled: whether the queue and the
  middleware answer is what the client libraries saw, and nothing depends on it.
  `CompilersController` returns a constant; configuration reads the environment;
  the recaptcha test page.
* `synchronize`, which lets TypeORM change the schema by itself, is a development
  setting; indices and the names of constraints.
* Cryptography: which signatures `WorkerAuthGuard` accepts. A POST that it refuses
  is the fault `postRejected`.
* The throttler's windows: how requests are counted is in the library, `AppModule`
  only lists lengths and limits. A POST that it refuses is the fault `postRejected`.
* The ACI and the init call parameters, which nothing looks at; the bytes of the
  zip archive, whose entries are those of the list.
* The middleware request of `ContractsService.submit` fails or answers; what it
  answers is the bytecode that `genuine` is about.

## Plan

Done: the pipeline (`GatewayStore`, `SubmissionApi`, `VerificationScheduler`,
`Transport`, `VerificationSupervisor`, `VerificationWorker`, their composition with
faults), the registry and its refinement, the intake, the way of the files to the
readers, the migrations; the proofs above.

Next: an abstract specification of one submission's life (`new`, scheduled, verdict) that
the pipeline implements where its POSTs are served in order, checked by TLC and
then proved step by step as the registry is; and the weakest faults under which
`TaskIsUnique` holds, which now excludes every failing statement of the gateway
although only those of the cron job can lead to a second task.
