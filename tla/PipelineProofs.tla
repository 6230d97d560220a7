--------------------------- MODULE PipelineProofs ---------------------------
(***************************************************************************)
(* The invariant of the pipeline holds in every behaviour, for any number  *)
(* of submissions, contracts, runs, workers, handlers and slots and under  *)
(* any faults.  RegistryProofs builds on it.                               *)
(*                                                                         *)
(* What a step does to the rows of contract_submissions is said once, by   *)
(* RowsKept, and the parts of the invariant that a step leaves alone but   *)
(* for the rows they mention are carried over by the frame lemmas.         *)
(***************************************************************************)
EXTENDS PipelineProperties, TLAPS

USE DEF workerVars

\* The step loses no row and changes no claim.
RowsKept ==
    \A s \in SubmissionIds : Stored(s) =>
        /\ contractSubmissions'[s] # None
        /\ contractSubmissions'[s].contractId = contractSubmissions[s].contractId
        /\ contractSubmissions'[s].genuine = contractSubmissions[s].genuine

\* The step adds no row.
NoNewRow == \A s \in SubmissionIds : ~Stored(s) => contractSubmissions'[s] = None

-----------------------------------------------------------------------------
(* Frame lemmas.                                                           *)

\* POSTs being served still have no row.
LEMMA IntakeFrame ==
    ASSUME IntakeInv, NoNewRow, UNCHANGED intake
    PROVE  IntakeInv'
BY DEF IntakeInv, NoNewRow, Stored

\* Tasks that did not move are still about rows that exist.
LEMMA TasksFrame ==
    ASSUME TypeOK, TasksInv, RowsKept, UNCHANGED <<outbox, queue, handlers>>
    PROVE  TasksInv'
BY DEF TypeOK, WorkerTypeOK, Handler, TasksInv, RowsKept, Stored

\* Runs that did not move still hold entities of rows that exist.
LEMMA RunsFrame ==
    ASSUME RunsInv, RowsKept, UNCHANGED runs
    PROVE  RunsInv'
BY DEF RunsInv, RowsKept, Stored

\* Notifications that did not move are still about the same claims.
LEMMA NotificationsFrame ==
    ASSUME TypeOK, NotificationsInv, RowsKept, UNCHANGED requests
    PROVE  NotificationsInv'
BY DEF TypeOK, TransportTypeOK, Notification, NotificationsInv, RowsKept, Stored

\* A step that leaves the table alone keeps and adds nothing.
LEMMA RowsUnchanged ==
    ASSUME UNCHANGED contractSubmissions
    PROVE  RowsKept /\ NoNewRow
BY DEF RowsKept, NoNewRow, Stored

\* repository.update of a row that exists keeps the claims and the type.
LEMMA UpdateKeepsRows ==
    ASSUME TypeOK, NEW s \in SubmissionIds, Stored(s),
           NEW status \in VerificationStatus, NEW columns \in SUBSET NullableColumns,
           UpdateSubmission(s, status, columns)
    PROVE  /\ contractSubmissions' \in [SubmissionIds -> Submission \cup {None}]
           /\ RowsKept
           /\ NoNewRow
<1> DEFINE row == contractSubmissions[s]
           newRow == [row EXCEPT !.status = status, !.filled = @ \cup columns]
<1>1. contractSubmissions' = [contractSubmissions EXCEPT ![s] = newRow]
  BY DEF UpdateSubmission, TypeOK, StoreTypeOK
<1>2. row \in Submission
  BY DEF TypeOK, StoreTypeOK, Stored
<1>3. /\ newRow \in Submission
      /\ newRow.contractId = row.contractId
      /\ newRow.genuine = row.genuine
  BY <1>2 DEF Submission
<1>. HIDE DEF newRow
<1>. QED
  BY <1>1, <1>2, <1>3, NoneAssumption DEF TypeOK, StoreTypeOK, RowsKept, NoNewRow, Stored

\* So does the UPDATE of save.
LEMMA SaveKeepsRows ==
    ASSUME TypeOK, NEW s \in SubmissionIds, Stored(s),
           NEW entity \in Submission, NEW loaded \in Submission,
           SaveSubmission(s, entity, loaded)
    PROVE  /\ contractSubmissions' \in [SubmissionIds -> Submission \cup {None}]
           /\ RowsKept
           /\ NoNewRow
<1> DEFINE row == contractSubmissions[s]
           changed == ChangedColumns(entity, loaded)
           newRow == [row EXCEPT
               !.status = IF entity.status = loaded.status THEN @ ELSE entity.status,
               !.filled = (@ \ changed) \cup (entity.filled \cap changed)]
<1>1. contractSubmissions' = [contractSubmissions EXCEPT ![s] = newRow]
  BY DEF SaveSubmission, TypeOK, StoreTypeOK
<1>2. row \in Submission
  BY DEF TypeOK, StoreTypeOK, Stored
<1>3. /\ newRow \in Submission
      /\ newRow.contractId = row.contractId
      /\ newRow.genuine = row.genuine
  BY <1>2 DEF Submission
<1>. HIDE DEF newRow
<1>. QED
  BY <1>1, <1>2, <1>3, NoneAssumption DEF TypeOK, StoreTypeOK, RowsKept, NoNewRow, Stored

-----------------------------------------------------------------------------
(* The steps of the API and of the broker.                                 *)

\* A POST that begins, ends in a new row or ends in an error.
LEMMA ApiStepKeepsInv ==
    ASSUME PipelineInv, NEW s \in SubmissionIds, ApiStep(s)
    PROVE  PipelineInv'
<1>. USE DEF PipelineInv
<1>1. UNCHANGED <<contracts, history, schedulerVars, transportVars, workerVars, faultCount>>
  BY DEF ApiStep, SettlePost, SubmitCheck, SubmitStore, SubmitReject, storeVars
<1>2. CASE SubmitStore(s)
  <2> DEFINE newRow == [contractId |-> intake[s].contractId, genuine |-> intake[s].genuine,
                        status |-> "new", filled |-> {}]
  <2>1. /\ intake[s] \in Claim
        /\ ~Stored(s)
    BY <1>2 DEF SubmitStore, TypeOK, IntakeTypeOK, IntakeInv
  <2>2. newRow \in Submission
    BY <2>1 DEF Claim, Submission, VerificationStatus
  <2>3. /\ contractSubmissions' = [contractSubmissions EXCEPT ![s] = newRow]
        /\ intake' = [intake EXCEPT ![s] = None]
    BY <1>2 DEF SubmitStore
  <2>. HIDE DEF newRow
  <2>4. RowsKept
    BY <2>1, <2>3 DEF RowsKept, Stored, TypeOK, StoreTypeOK
  <2>5. TypeOK'
    BY <1>1, <2>2, <2>3
    DEF TypeOK, StoreTypeOK, IntakeTypeOK, SchedulerTypeOK, TransportTypeOK, WorkerTypeOK,
        schedulerVars, transportVars
  <2>6. IntakeInv'
    BY <2>3 DEF IntakeInv, Stored, TypeOK, StoreTypeOK, IntakeTypeOK
  <2>7. TasksInv' /\ RunsInv' /\ NotificationsInv'
    BY <1>1, <2>4, TasksFrame, RunsFrame, NotificationsFrame DEF schedulerVars, transportVars
  <2>. QED
    BY <2>5, <2>6, <2>7
<1>3. CASE ~SubmitStore(s)
  <2>1. UNCHANGED contractSubmissions
    BY <1>3 DEF ApiStep, SettlePost, SubmitCheck, SubmitReject, storeVars
  <2>2. RowsKept
    BY <2>1, RowsUnchanged
  <2>3. intake' \in [SubmissionIds -> Claim \cup {None}]
    BY <1>3 DEF ApiStep, SettlePost, SubmitCheck, SubmitReject, TypeOK, IntakeTypeOK, Claim
  <2>4. TypeOK'
    BY <1>1, <2>1, <2>3
    DEF TypeOK, StoreTypeOK, IntakeTypeOK, SchedulerTypeOK, TransportTypeOK, WorkerTypeOK,
        schedulerVars, transportVars
  <2>5. IntakeInv'
    BY <1>3, <2>1 DEF ApiStep, SettlePost, SubmitCheck, SubmitReject,
                      IntakeInv, Stored, TypeOK, IntakeTypeOK
  <2>6. TasksInv' /\ RunsInv' /\ NotificationsInv'
    BY <1>1, <2>2, TasksFrame, RunsFrame, NotificationsFrame DEF schedulerVars, transportVars
  <2>. QED
    BY <2>4, <2>5, <2>6
<1>. QED
  BY <1>2, <1>3

\* A task moves from the gateway's buffer to the broker's queue.
LEMMA PublishTaskKeepsInv ==
    ASSUME PipelineInv, NEW s \in SubmissionIds, PublishTask(s)
    PROVE  PipelineInv'
<1>. USE DEF PipelineInv
<1>1. /\ UNCHANGED <<contractSubmissions, contracts, history, intake, runs, requests,
                     workerVars, faultCount>>
      /\ outbox[s] > 0
      /\ outbox' = [outbox EXCEPT ![s] = @ - 1]
      /\ queue' = [queue EXCEPT ![s] = @ + 1]
  BY DEF PublishTask, storeVars
<1>2. RowsKept /\ NoNewRow
  BY <1>1, RowsUnchanged
<1>3. /\ outbox' \in [SubmissionIds -> Nat]
      /\ queue' \in [SubmissionIds -> Nat]
  BY <1>1 DEF TypeOK, SchedulerTypeOK, TransportTypeOK
<1>4. TypeOK'
  BY <1>1, <1>3
  DEF TypeOK, StoreTypeOK, IntakeTypeOK, SchedulerTypeOK, TransportTypeOK, WorkerTypeOK
<1>5. TasksInv'
  BY <1>1 DEF TasksInv, Stored, TypeOK, SchedulerTypeOK, TransportTypeOK
<1>6. IntakeInv' /\ RunsInv' /\ NotificationsInv'
  BY <1>1, <1>2, IntakeFrame, RunsFrame, NotificationsFrame
<1>. QED
  BY <1>4, <1>5, <1>6

-----------------------------------------------------------------------------
(* The steps of the scheduler.                                             *)

\* A step that only moves runs, within their type and invariant, keeps the rest.
LEMMA RunsOnlyKeepInv ==
    ASSUME PipelineInv,
           runs' \in [Runs -> Run],
           RunsInv',
           UNCHANGED <<contractSubmissions, contracts, intake, outbox, transportVars,
                       workerVars>>,
           history' \subseteq VerificationRecord,
           faultCount' \in Nat
    PROVE  PipelineInv'
<1>1. RowsKept /\ NoNewRow
  BY RowsUnchanged
<1>2. TypeOK'
  BY DEF PipelineInv, TypeOK, StoreTypeOK, IntakeTypeOK, SchedulerTypeOK, TransportTypeOK,
         WorkerTypeOK, transportVars
<1>3. IntakeInv' /\ TasksInv' /\ NotificationsInv'
  BY <1>1, IntakeFrame, TasksFrame, NotificationsFrame DEF PipelineInv, transportVars
<1>. QED
  BY <1>2, <1>3 DEF PipelineInv

\* An idle run is one.
LEMMA IdleRunType == IdleRun \in Run
BY DEF IdleRun, Run

\* The cron job starts with the rows that are due.
LEMMA CronFiresKeepsInv ==
    ASSUME PipelineInv, NEW r \in Runs, RunStep(r), CronFires(r)
    PROVE  PipelineInv'
<1>. USE DEF PipelineInv
<1>1. PICK due \in SUBSET InStatus("fail_retry") :
        runs' = [runs EXCEPT ![r] =
          [IdleRun EXCEPT
              !.pc = "emit",
              !.batch = [s \in SubmissionIds |->
                           IF s \in DueSubmissions(due)
                           THEN contractSubmissions[s] ELSE None]]]
  BY DEF CronFires
<1>2. \A s \in DueSubmissions(due) : Stored(s)
  BY DEF DueSubmissions, InStatus
<1>3. runs' \in [Runs -> Run]
  BY <1>1 DEF TypeOK, StoreTypeOK, SchedulerTypeOK, IdleRun, Run
<1>4. RunsInv'
  BY <1>1, <1>2 DEF RunsInv, TypeOK, SchedulerTypeOK, IdleRun, Stored, CronFires, storeVars
<1>. QED
  BY <1>3, <1>4, RunsOnlyKeepInv
  DEF RunStep, CronFires, storeVars, TypeOK, StoreTypeOK

\* A task enters the buffer: it is one of the batch, hence of a row.
LEMMA EmitTaskKeepsInv ==
    ASSUME PipelineInv, NEW r \in Runs, RunStep(r), EmitTask(r)
    PROVE  PipelineInv'
<1>. USE DEF PipelineInv
<1>1. PICK s \in SubmissionIds :
        /\ runs[r].batch[s] # None
        /\ outbox' = [outbox EXCEPT ![s] = @ + 1]
        /\ runs' = [runs EXCEPT ![r].pc = "record", ![r].current = s]
  BY DEF EmitTask
<1>2. UNCHANGED <<contractSubmissions, contracts, history, intake, transportVars,
                  workerVars, faultCount>>
  BY DEF EmitTask, RunStep, storeVars
<1>3. RowsKept /\ NoNewRow
  BY <1>2, RowsUnchanged
<1> DEFINE newRun == [runs[r] EXCEPT !.pc = "record", !.current = s]
<1>4. /\ newRun \in Run
      /\ newRun.pc = "record"
      /\ newRun.current = s
      /\ newRun.batch = runs[r].batch
  BY DEF TypeOK, SchedulerTypeOK, Run
<1>5. /\ runs' = [runs EXCEPT ![r] = newRun]
      /\ runs' \in [Runs -> Run]
  BY <1>1, <1>4 DEF TypeOK, SchedulerTypeOK
<1>6. outbox' \in [SubmissionIds -> Nat]
  BY <1>1 DEF TypeOK, SchedulerTypeOK
<1>. HIDE DEF newRun
<1>7. RunsInv'
  BY <1>1, <1>2, <1>4, <1>5, NoneAssumption DEF RunsInv, Stored, TypeOK, SchedulerTypeOK
<1>8. TasksInv'
  BY <1>1, <1>2 DEF RunsInv, TasksInv, Stored, TypeOK, SchedulerTypeOK, transportVars
<1>9. TypeOK'
  BY <1>2, <1>5, <1>6
  DEF TypeOK, StoreTypeOK, IntakeTypeOK, SchedulerTypeOK, TransportTypeOK, WorkerTypeOK,
      transportVars
<1>. QED
  BY <1>2, <1>3, <1>7, <1>8, <1>9, IntakeFrame, NotificationsFrame DEF transportVars

\* The history record of the transition to pending.
LEMMA RecordPendingKeepsInv ==
    ASSUME PipelineInv, NEW r \in Runs, RunStep(r), RecordPending(r)
    PROVE  PipelineInv'
<1>. USE DEF PipelineInv
<1> DEFINE s == runs[r].current
<1>1. /\ s \in SubmissionIds
      /\ runs[r] \in Run
      /\ runs[r].batch[s] \in Submission
  BY DEF RecordPending, RunsInv, TypeOK, SchedulerTypeOK, Run
<1>2. runs' = [runs EXCEPT ![r].pc = "load", ![r].batch[s].status = "pending"]
  BY DEF RecordPending
<1>3. [runs[r].batch[s] EXCEPT !.status = "pending"] \in Submission
  BY <1>1 DEF Submission, VerificationStatus
<1>4. runs' \in [Runs -> Run]
  BY <1>1, <1>2, <1>3 DEF TypeOK, SchedulerTypeOK, Run
<1>5. history' \subseteq VerificationRecord
  BY <1>1 DEF RecordPending, RecordTransition, VerificationRecord, Submission,
              VerificationStatus, TypeOK, StoreTypeOK
<1>6. RunsInv'
  BY <1>1, <1>2, <1>3, NoneAssumption
  DEF RecordPending, RunsInv, TypeOK, SchedulerTypeOK, Run, Stored
<1>. QED
  BY <1>4, <1>5, <1>6, RunsOnlyKeepInv DEF RunStep, RecordPending, TypeOK

\* The SELECT of save finds the row.
LEMMA SaveLoadKeepsInv ==
    ASSUME PipelineInv, NEW r \in Runs, RunStep(r), SaveLoad(r)
    PROVE  PipelineInv'
<1>. USE DEF PipelineInv
<1> DEFINE s == runs[r].current
<1>1. /\ s \in SubmissionIds
      /\ Stored(s)
      /\ contractSubmissions[s] \in Submission
  BY DEF SaveLoad, RunsInv, TypeOK, SchedulerTypeOK, StoreTypeOK, Run, Stored
<1>2. runs' = [runs EXCEPT ![r].pc = "write", ![r].loaded = contractSubmissions[s]]
  BY DEF SaveLoad
<1>3. runs' \in [Runs -> Run]
  BY <1>1, <1>2 DEF TypeOK, SchedulerTypeOK, Run
<1>4. RunsInv'
  BY <1>1, <1>2 DEF SaveLoad, RunsInv, TypeOK, SchedulerTypeOK, Run, Stored, storeVars
<1>. QED
  BY <1>3, <1>4, RunsOnlyKeepInv DEF RunStep, SaveLoad, storeVars, TypeOK, StoreTypeOK

\* The UPDATE of save, and the loop's next turn.
LEMMA SaveWriteKeepsInv ==
    ASSUME PipelineInv, NEW r \in Runs, RunStep(r), SaveWrite(r)
    PROVE  PipelineInv'
<1>. USE DEF PipelineInv
<1> DEFINE s == runs[r].current
<1>1. /\ runs[r] \in Run
      /\ s \in SubmissionIds
      /\ runs[r].batch[s] \in Submission
      /\ runs[r].loaded \in Submission
      /\ Stored(s)
  BY DEF SaveWrite, RunsInv, TypeOK, SchedulerTypeOK, Run
<1>2. /\ SaveSubmission(s, runs[r].batch[s], runs[r].loaded)
      /\ runs' = [runs EXCEPT ![r] = NextInBatch(runs[r])]
      /\ UNCHANGED <<contracts, history, outbox, intake, transportVars, workerVars, faultCount>>
  BY DEF SaveWrite, RunStep, TypeOK, SchedulerTypeOK
<1>3. /\ contractSubmissions' \in [SubmissionIds -> Submission \cup {None}]
      /\ RowsKept
      /\ NoNewRow
  BY <1>1, <1>2, SaveKeepsRows
<1>4. /\ NextInBatch(runs[r]) \in Run
      /\ NextInBatch(runs[r]).pc \in {"emit", "idle"}
      /\ \A t \in SubmissionIds :
           NextInBatch(runs[r]).batch[t] # None => runs[r].batch[t] # None
  BY <1>1, IdleRunType DEF NextInBatch, Run, IdleRun
<1>5. runs' \in [Runs -> Run]
  BY <1>2, <1>4 DEF TypeOK, SchedulerTypeOK
<1>6. RunsInv'
  BY <1>2, <1>3, <1>4 DEF RunsInv, RowsKept, Stored, TypeOK, SchedulerTypeOK
<1>7. TypeOK'
  BY <1>2, <1>3, <1>5
  DEF TypeOK, StoreTypeOK, IntakeTypeOK, SchedulerTypeOK, TransportTypeOK, WorkerTypeOK,
      transportVars
<1>8. IntakeInv' /\ TasksInv' /\ NotificationsInv'
  BY <1>2, <1>3, IntakeFrame, TasksFrame, NotificationsFrame DEF transportVars
<1>. QED
  BY <1>6, <1>7, <1>8

\* Every step of a run.
LEMMA RunStepKeepsInv ==
    ASSUME PipelineInv, NEW r \in Runs, RunStep(r)
    PROVE  PipelineInv'
BY CronFiresKeepsInv, EmitTaskKeepsInv, RecordPendingKeepsInv, SaveLoadKeepsInv,
   SaveWriteKeepsInv
DEF RunStep

-----------------------------------------------------------------------------
(* The steps of the notification handler.                                  *)

\* A step that moves one notification, to nothing or to one that is well formed,
\* and changes at most statuses and columns of rows, keeps the invariant.
LEMMA NotificationMoves ==
    ASSUME PipelineInv, NEW q \in Requests, NEW n \in Notification \cup {None},
           requests' = [requests EXCEPT ![q] = n],
           n # None =>
               /\ Stored(n.submission)
               /\ n.stage \in {"found", "confirm", "store", "undo", "record"} =>
                    n.prevStatus # None
               /\ n.stage \in {"confirm", "store", "undo", "record"} =>
                    n.newStatus # None
               /\ n.stage \in {"confirm", "store", "undo"} => n.status = "success",
           contractSubmissions' \in [SubmissionIds -> Submission \cup {None}],
           RowsKept, NoNewRow,
           contracts' \in [ContractIds -> Contract \cup {None}],
           history' \subseteq VerificationRecord,
           UNCHANGED <<intake, schedulerVars, queue, workerVars>>,
           faultCount' \in Nat
    PROVE  PipelineInv'
<1>1. TypeOK'
  BY DEF PipelineInv, TypeOK, StoreTypeOK, IntakeTypeOK, SchedulerTypeOK, TransportTypeOK,
         WorkerTypeOK, schedulerVars
<1>2. IntakeInv' /\ TasksInv' /\ RunsInv'
  BY IntakeFrame, TasksFrame, RunsFrame DEF PipelineInv, schedulerVars
<1>3. NotificationsInv'
  <2>1. \A p \in Requests : requests'[p] = IF p = q THEN n ELSE requests[p]
    BY DEF PipelineInv, TypeOK, TransportTypeOK
  <2>2. \A p \in Requests : requests'[p] # None => requests'[p].submission \in SubmissionIds
    BY <1>1 DEF TypeOK, TransportTypeOK, Notification
  <2>. QED
    BY <2>1, <2>2 DEF PipelineInv, NotificationsInv, RowsKept, Stored
<1>. QED
  BY <1>1, <1>2, <1>3 DEF PipelineInv

\* A notification in its slot, with its parts in their sets.
LEMMA NotificationInSlot ==
    ASSUME TypeOK, NEW q \in Requests, requests[q] # None
    PROVE  /\ requests[q] \in Notification
           /\ requests[q].submission \in SubmissionIds
BY DEF TypeOK, TransportTypeOK, Notification

\* findOneOrFail notes the status of the row.
LEMMA FindSubmissionKeepsInv ==
    ASSUME PipelineInv, NEW q \in Requests, FindSubmission(q),
           UNCHANGED <<intake, schedulerVars, workerVars, faultCount>>
    PROVE  PipelineInv'
<1>. USE DEF PipelineInv
<1> DEFINE n == [requests[q] EXCEPT !.stage = "found",
                                    !.prevStatus = StatusOf(requests[q].submission)]
<1>1. /\ requests[q] \in Notification
      /\ requests[q] # None
      /\ requests[q].submission \in SubmissionIds
      /\ StatusOf(requests[q].submission) \in VerificationStatus
  BY NotificationInSlot
  DEF FindSubmission, InStage, Stored, StatusOf, TypeOK, StoreTypeOK, Submission
<1>2. /\ n \in Notification
      /\ n.stage = "found"
      /\ n.prevStatus # None
      /\ n.submission = requests[q].submission
      /\ n.status = requests[q].status
  BY <1>1, NoneAssumption DEF Notification, Stages
<1>3. requests' = [requests EXCEPT ![q] = n]
  BY <1>1 DEF FindSubmission, TypeOK, TransportTypeOK, Notification
<1>4. RowsKept /\ NoNewRow
  BY RowsUnchanged DEF FindSubmission, storeVars
<1>. HIDE DEF n
<1>5. Stored(n.submission)
  BY <1>1, <1>2 DEF NotificationsInv
<1>. QED
  BY <1>2, <1>3, <1>4, <1>5, NotificationMoves
  DEF FindSubmission, storeVars, TypeOK, StoreTypeOK

\* A step of the handler that writes the status of the row.
LEMMA HandlerUpdateKeepsInv ==
    ASSUME PipelineInv, NEW q \in Requests, requests[q] # None,
           requests[q].prevStatus # None,
           NEW status \in VerificationStatus, NEW columns \in SUBSET NullableColumns,
           NEW stage \in {"record", "confirm"},
           stage = "confirm" => requests[q].status = "success",
           UpdateSubmission(requests[q].submission, status, columns),
           requests' = [requests EXCEPT ![q].stage = stage, ![q].newStatus = status],
           UNCHANGED <<contracts, history, queue, intake, schedulerVars, workerVars, faultCount>>
    PROVE  PipelineInv'
<1>. USE DEF PipelineInv
<1> DEFINE n == [requests[q] EXCEPT !.stage = stage, !.newStatus = status]
<1>1. /\ requests[q] \in Notification
      /\ requests[q].submission \in SubmissionIds
      /\ Stored(requests[q].submission)
  BY NotificationInSlot DEF NotificationsInv
<1>2. /\ n \in Notification
      /\ n.stage = stage
      /\ n.newStatus # None
      /\ n.prevStatus = requests[q].prevStatus
      /\ n.submission = requests[q].submission
      /\ n.status = requests[q].status
  BY <1>1, NoneAssumption DEF Notification, Stages
<1>3. requests' = [requests EXCEPT ![q] = n]
  BY <1>1 DEF TypeOK, TransportTypeOK, Notification
<1>4. /\ contractSubmissions' \in [SubmissionIds -> Submission \cup {None}]
      /\ RowsKept
      /\ NoNewRow
  BY <1>1, UpdateKeepsRows
<1>. HIDE DEF n
<1>5. Stored(n.submission)
  BY <1>1, <1>2 DEF NotificationsInv
<1>. QED
  BY <1>2, <1>3, <1>4, <1>5, NotificationMoves DEF TypeOK, StoreTypeOK

\* The three branches of the switch.
LEMMA UpdateStatusKeepsInv ==
    ASSUME PipelineInv, NEW q \in Requests,
           UpdateProcessing(q) \/ UpdateFail(q) \/ UpdateSuccess(q),
           UNCHANGED <<intake, schedulerVars, workerVars, faultCount>>
    PROVE  PipelineInv'
<1>1. requests[q] # None /\ requests[q].prevStatus # None
  BY DEF PipelineInv, NotificationsInv, UpdateProcessing, UpdateFail, UpdateSuccess,
         UpdateStatus, InStage
<1>2. CASE UpdateProcessing(q)
  BY <1>1, <1>2, HandlerUpdateKeepsInv
  DEF UpdateProcessing, UpdateStatus, VerificationStatus, NullableColumns
<1>3. CASE UpdateFail(q)
  BY <1>1, <1>3, HandlerUpdateKeepsInv
  DEF UpdateFail, UpdateStatus, VerificationStatus, NullableColumns
<1>4. CASE UpdateSuccess(q)
  BY <1>1, <1>4, HandlerUpdateKeepsInv
  DEF UpdateSuccess, UpdateStatus, VerificationStatus, NullableColumns
<1>. QED
  BY <1>2, <1>3, <1>4

\* The catch of the success branch.
LEMMA UndoSuccessKeepsInv ==
    ASSUME PipelineInv, NEW q \in Requests, UndoSuccess(q),
           UNCHANGED <<intake, schedulerVars, workerVars, faultCount>>
    PROVE  PipelineInv'
<1>1. requests[q] # None /\ requests[q].prevStatus # None
  BY DEF PipelineInv, NotificationsInv, UndoSuccess, InStage
<1>. QED
  BY <1>1, HandlerUpdateKeepsInv DEF UndoSuccess, VerificationStatus, NullableColumns

\* confirmSubmission decides where its handler goes on.
LEMMA ConfirmReadKeepsInv ==
    ASSUME PipelineInv, NEW q \in Requests, ConfirmRead(q),
           UNCHANGED <<intake, schedulerVars, workerVars, faultCount>>
    PROVE  PipelineInv'
<1>. USE DEF PipelineInv
<1>1. /\ requests[q] \in Notification
      /\ requests[q] # None
      /\ requests[q].stage = "confirm"
  BY NotificationInSlot DEF ConfirmRead, InStage
<1>2. PICK stage \in {"store", "undo"}, compiler \in BOOLEAN :
        requests' = [requests EXCEPT ![q].stage = stage, ![q].compiler = compiler]
  BY DEF ConfirmRead
<1> DEFINE n == [requests[q] EXCEPT !.stage = stage, !.compiler = compiler]
<1>3. /\ n \in Notification
      /\ n.stage = stage
      /\ n.prevStatus = requests[q].prevStatus
      /\ n.newStatus = requests[q].newStatus
      /\ n.submission = requests[q].submission
      /\ n.status = requests[q].status
  BY <1>1 DEF Notification, Stages
<1>4. requests' = [requests EXCEPT ![q] = n]
  BY <1>1, <1>2 DEF TypeOK, TransportTypeOK, Notification
<1>5. RowsKept /\ NoNewRow
  BY RowsUnchanged DEF ConfirmRead, storeVars
<1>. HIDE DEF n
<1>6. /\ Stored(n.submission)
      /\ n.status = "success"
      /\ n.prevStatus # None
      /\ n.newStatus # None
  BY <1>1, <1>3 DEF NotificationsInv
<1>. QED
  BY <1>3, <1>4, <1>5, <1>6, NotificationMoves
  DEF ConfirmRead, storeVars, TypeOK, StoreTypeOK

\* A handler that goes on to a stage of its own, and the rows stay.
LEMMA StageMoves ==
    ASSUME PipelineInv, NEW q \in Requests, requests[q] # None,
           NEW stage \in {"record", "undo", "failed"},
           NEW newStatus \in VerificationStatus \cup {None},
           stage # "failed" => /\ newStatus # None
                               /\ requests[q].prevStatus # None
                               /\ requests[q].status = "success",
           requests' = [requests EXCEPT ![q] =
               [@ EXCEPT !.stage = stage, !.newStatus = newStatus]],
           UNCHANGED <<contractSubmissions, history, queue, intake, schedulerVars, workerVars>>,
           contracts' \in [ContractIds -> Contract \cup {None}],
           faultCount' \in Nat
    PROVE  PipelineInv'
<1>. USE DEF PipelineInv
<1> DEFINE n == [requests[q] EXCEPT !.stage = stage, !.newStatus = newStatus]
<1>1. requests[q] \in Notification
  BY NotificationInSlot
<1>2. /\ n \in Notification
      /\ n.stage = stage
      /\ n.newStatus = newStatus
      /\ n.prevStatus = requests[q].prevStatus
      /\ n.submission = requests[q].submission
      /\ n.status = requests[q].status
  BY <1>1 DEF Notification, Stages
<1>3. requests' = [requests EXCEPT ![q] = n]
  OBVIOUS
<1>4. RowsKept /\ NoNewRow
  BY RowsUnchanged
<1>. HIDE DEF n
<1>5. Stored(n.submission)
  BY <1>1, <1>2 DEF NotificationsInv
<1>6. /\ n.stage \in {"found", "confirm", "store", "undo", "record"} => n.prevStatus # None
      /\ n.stage \in {"confirm", "store", "undo", "record"} => n.newStatus # None
      /\ n.stage \in {"confirm", "store", "undo"} => n.status = "success"
  BY <1>2
<1>7. /\ contractSubmissions' \in [SubmissionIds -> Submission \cup {None}]
      /\ history' \subseteq VerificationRecord
  BY DEF TypeOK, StoreTypeOK
<1>. QED
  BY <1>2, <1>3, <1>4, <1>5, <1>6, <1>7, NotificationMoves

\* The insert, and the refusal of a second row.
LEMMA StoreContractKeepsInv ==
    ASSUME PipelineInv, NEW q \in Requests, StoreContract(q),
           UNCHANGED <<intake, schedulerVars, workerVars, faultCount>>
    PROVE  PipelineInv'
<1>. USE DEF PipelineInv
<1> DEFINE n == requests[q]
           s == n.submission
           c == contractSubmissions[s].contractId
<1>1. /\ n \in Notification
      /\ n # None
      /\ n.stage = "store"
      /\ s \in SubmissionIds
  BY NotificationInSlot DEF StoreContract, InStage
<1>2. /\ c \in ContractIds
      /\ n.status = "success"
      /\ n.prevStatus # None
      /\ n.newStatus \in VerificationStatus
  BY <1>1 DEF NotificationsInv, Stored, TypeOK, StoreTypeOK, Submission, Notification
<1>3. PICK stage \in {"record", "undo"} : requests' = [requests EXCEPT ![q].stage = stage]
  BY DEF StoreContract
<1>4. requests' = [requests EXCEPT ![q] =
                     [@ EXCEPT !.stage = stage, !.newStatus = n.newStatus]]
  <2>1. [n EXCEPT !.stage = stage] = [n EXCEPT !.stage = stage, !.newStatus = n.newStatus]
    BY <1>1 DEF Notification
  <2>. QED
    BY <1>3, <2>1
<1>5. contracts' \in [ContractIds -> Contract \cup {None}]
  <2>1. [submission |-> s, compiler |-> n.compiler] \in Contract
    BY <1>1 DEF Contract, Notification
  <2>2. \/ contracts' = [contracts EXCEPT ![c] =
                           [submission |-> s, compiler |-> n.compiler]]
        \/ UNCHANGED contracts
    BY DEF StoreContract
  <2>. QED
    BY <1>2, <2>1, <2>2 DEF TypeOK, StoreTypeOK
<1>6. faultCount' \in Nat
  BY DEF TypeOK
<1>. QED
  BY <1>1, <1>2, <1>4, <1>5, <1>6, StageMoves, NoneAssumption DEF StoreContract

\* The history record of the handler, and its end.
LEMMA SaveHistoryKeepsInv ==
    ASSUME PipelineInv, NEW q \in Requests, SaveHistory(q),
           UNCHANGED <<intake, schedulerVars, workerVars, faultCount>>
    PROVE  PipelineInv'
<1>. USE DEF PipelineInv
<1>1. /\ requests[q] \in Notification
      /\ requests[q].submission \in SubmissionIds
      /\ requests[q].prevStatus \in VerificationStatus
      /\ requests[q].newStatus \in VerificationStatus
  BY NotificationInSlot DEF SaveHistory, InStage, NotificationsInv, Notification
<1>2. history' \subseteq VerificationRecord
  BY <1>1 DEF SaveHistory, RecordTransition, VerificationRecord, TypeOK, StoreTypeOK
<1>3. RowsKept /\ NoNewRow
  BY RowsUnchanged DEF SaveHistory
<1>. QED
  BY <1>2, <1>3, NotificationMoves DEF SaveHistory, TypeOK, StoreTypeOK

\* A notification that is answered with an error.
LEMMA FailedKeepsInv ==
    ASSUME PipelineInv, NEW q \in Requests, requests[q] # None,
           requests' = [requests EXCEPT ![q] = Failed(@)],
           UNCHANGED <<storeVars, queue, intake, schedulerVars, workerVars>>,
           faultCount' \in Nat
    PROVE  PipelineInv'
<1>1. CASE requests[q].worker = None
  <2>1. requests' = [requests EXCEPT ![q] = None]
    BY <1>1 DEF Failed
  <2>2. RowsKept /\ NoNewRow
    BY RowsUnchanged DEF storeVars
  <2>. QED
    BY <2>1, <2>2, NotificationMoves DEF PipelineInv, storeVars, TypeOK, StoreTypeOK
<1>2. CASE requests[q].worker # None
  <2> DEFINE status == requests[q].newStatus
  <2>1. /\ requests[q] \in Notification
        /\ status \in VerificationStatus \cup {None}
    BY NotificationInSlot DEF PipelineInv, Notification
  <2>2. requests' = [requests EXCEPT ![q] =
                       [@ EXCEPT !.stage = "failed", !.newStatus = status]]
    <3>1. Failed(requests[q]) =
            [requests[q] EXCEPT !.stage = "failed", !.newStatus = status]
      BY <1>2, <2>1 DEF Failed, Notification
    <3>. QED
      BY <3>1
  <2>3. contracts' \in [ContractIds -> Contract \cup {None}]
    BY DEF PipelineInv, TypeOK, StoreTypeOK, storeVars
  <2>. HIDE DEF status
  <2>. QED
    BY <2>1, <2>2, <2>3, StageMoves DEF storeVars
<1>. QED
  BY <1>1, <1>2

\* A statement of the handler fails.
LEMMA StatementFailsKeepsInv ==
    ASSUME PipelineInv, NEW q \in Requests, StatementFails(q),
           UNCHANGED <<intake, schedulerVars, workerVars>>, faultCount' \in Nat
    PROVE  PipelineInv'
<1>1. requests[q] # None
  BY DEF StatementFails, InStage
<1>2. CASE InsideTry(q)
  <2>1. /\ requests[q].prevStatus # None
        /\ requests[q].status = "success"
    BY <1>1, <1>2 DEF InsideTry, InStage, PipelineInv, NotificationsInv
  <2>2. requests' = [requests EXCEPT ![q] =
                       [@ EXCEPT !.stage = "undo", !.newStatus = "success"]]
    BY <1>2 DEF StatementFails
  <2>3. contracts' \in [ContractIds -> Contract \cup {None}]
    BY DEF PipelineInv, TypeOK, StoreTypeOK, StatementFails, storeVars
  <2>4. "success" \in VerificationStatus /\ "success" # None
    BY NoneAssumption DEF VerificationStatus
  <2>. QED
    BY <1>1, <2>1, <2>2, <2>3, <2>4, StageMoves DEF StatementFails, storeVars
<1>3. CASE ~InsideTry(q)
  BY <1>1, <1>3, FailedKeepsInv DEF StatementFails
<1>. QED
  BY <1>2, <1>3

\* Every step of the handler.
LEMMA NotifyStepKeepsInv ==
    ASSUME PipelineInv, NEW q \in Requests, NotifyStep(q)
    PROVE  PipelineInv'
BY FindSubmissionKeepsInv, UpdateStatusKeepsInv, ConfirmReadKeepsInv,
   StoreContractKeepsInv, UndoSuccessKeepsInv, SaveHistoryKeepsInv
DEF NotifyStep, HandleNotification

-----------------------------------------------------------------------------
(* The steps of the workers.                                               *)

\* A step outside the gateway keeps what the gateway has.
LEMMA WorkerSideKeepsInv ==
    ASSUME PipelineInv,
           queue' \in [SubmissionIds -> Nat],
           handlers' \in [Handlers -> Handler],
           directory' \in [Workers -> SUBSET SubmissionIds],
           requests' \in [Requests -> Notification \cup {None}],
           TasksInv', NotificationsInv',
           UNCHANGED <<storeVars, intake, schedulerVars>>,
           faultCount' \in Nat
    PROVE  PipelineInv'
<1>1. RowsKept /\ NoNewRow
  BY RowsUnchanged DEF storeVars
<1>2. TypeOK'
  BY DEF PipelineInv, TypeOK, StoreTypeOK, IntakeTypeOK, SchedulerTypeOK, TransportTypeOK,
         WorkerTypeOK, storeVars, schedulerVars
<1>3. IntakeInv' /\ RunsInv'
  BY <1>1, IntakeFrame, RunsFrame DEF PipelineInv, schedulerVars
<1>. QED
  BY <1>2, <1>3 DEF PipelineInv

\* A POST about a stored submission.
LEMMA PostKeepsNotifications ==
    ASSUME PipelineInv, NEW q \in Requests, NEW w \in Workers, NEW s \in SubmissionIds,
           NEW status \in NotificationStatus,
           Stored(s),
           Post(q, w, s, status), UNCHANGED contractSubmissions
    PROVE  /\ requests' \in [Requests -> Notification \cup {None}]
           /\ NotificationsInv'
<1> DEFINE n == [stage |-> "sent", submission |-> s, status |-> status, worker |-> w,
                 prevStatus |-> None, newStatus |-> None, compiler |-> FALSE]
<1>1. /\ n \in Notification
      /\ n.stage = "sent"
      /\ n.submission = s
      /\ n.status = status
  BY DEF Notification, Stages
<1>2. requests' = [requests EXCEPT ![q] = n]
  BY DEF Post
<1>. HIDE DEF n
<1>3. requests' \in [Requests -> Notification \cup {None}]
  BY <1>1, <1>2 DEF PipelineInv, TypeOK, TransportTypeOK
<1>4. NotificationsInv'
  BY <1>1, <1>2 DEF PipelineInv, TypeOK, TransportTypeOK, NotificationsInv, Stored
<1>. QED
  BY <1>3, <1>4

\* A task is delivered to a handler.
LEMMA TakeTaskKeepsInv ==
    ASSUME PipelineInv, NEW h \in Handlers, TakeTask(h) \/ TakeTaskUnsigned(h),
           UNCHANGED <<intake, schedulerVars, faultCount>>
    PROVE  PipelineInv'
<1>. USE DEF PipelineInv
<1>1. PICK s \in SubmissionIds, pc \in {"started", "wedged"} :
        /\ queue[s] > 0
        /\ queue' = [queue EXCEPT ![s] = @ - 1]
        /\ handlers' = [handlers EXCEPT ![h] = [pc |-> pc, task |-> s, held |-> TRUE]]
        /\ \/ \E q \in Requests : Post(q, WorkerOf[h], s, "processing")
           \/ UNCHANGED requests
  BY DEF TakeTask, TakeTaskUnsigned
<1>2. UNCHANGED <<storeVars, directory>>
  BY DEF TakeTask, TakeTaskUnsigned
<1>3. Stored(s)
  BY <1>1 DEF TasksInv
<1>4. queue' \in [SubmissionIds -> Nat]
  BY <1>1 DEF TypeOK, TransportTypeOK
<1>5. handlers' \in [Handlers -> Handler]
  BY <1>1 DEF TypeOK, WorkerTypeOK, Handler
<1>6. TasksInv'
  <2>1. ASSUME NEW t \in SubmissionIds, outbox'[t] > 0 \/ queue'[t] > 0
        PROVE  contractSubmissions'[t] # None
    <3>1. outbox[t] > 0 \/ queue[t] > 0
      BY <1>1, <2>1 DEF TypeOK, TransportTypeOK, schedulerVars
    <3>. QED
      BY <1>2, <3>1 DEF TasksInv, Stored, storeVars
  <2>2. ASSUME NEW g \in Handlers
        PROVE  /\ handlers'[g].pc # "idle" => handlers'[g].task # None
               /\ handlers'[g].task # None => contractSubmissions'[handlers'[g].task] # None
    BY <1>1, <1>2, <1>3, NoneAssumption DEF TasksInv, TypeOK, WorkerTypeOK, Stored, storeVars
  <2>. QED
    BY <2>1, <2>2 DEF TasksInv, Stored
<1>7. requests' \in [Requests -> Notification \cup {None}] /\ NotificationsInv'
  <2>1. CASE \E q \in Requests : Post(q, WorkerOf[h], s, "processing")
    BY <1>2, <1>3, <2>1, PostKeepsNotifications, WorkerAssumption
    DEF NotificationStatus, storeVars
  <2>2. CASE UNCHANGED requests
    BY <1>2, <2>2, RowsUnchanged, NotificationsFrame DEF TypeOK, TransportTypeOK, storeVars
  <2>. QED
    BY <1>1, <2>1, <2>2
<1>8. faultCount' \in Nat /\ directory' \in [Workers -> SUBSET SubmissionIds]
  BY <1>2 DEF TypeOK, WorkerTypeOK
<1>. QED
  BY <1>2, <1>4, <1>5, <1>6, <1>7, <1>8, WorkerSideKeepsInv

\* The directory is cleared, or the task's files are written.
LEMMA SandboxStepKeepsInv ==
    ASSUME PipelineInv, NEW h \in Handlers, ClearDirectory(h) \/ WriteFiles(h),
           UNCHANGED <<intake, schedulerVars, faultCount>>
    PROVE  PipelineInv'
<1>. USE DEF PipelineInv
<1>1. PICK pc \in {"cleared", "written"} :
        /\ handlers' = [handlers EXCEPT ![h].pc = pc]
        /\ handlers[h].pc # "idle"
  BY DEF ClearDirectory, WriteFiles
<1>2. UNCHANGED <<storeVars, transportVars>>
  BY DEF ClearDirectory, WriteFiles
<1>3. handlers' \in [Handlers -> Handler]
  BY <1>1 DEF TypeOK, WorkerTypeOK, Handler
<1>4. \A g \in Handlers : handlers'[g].task = handlers[g].task /\
                          (handlers'[g].pc # "idle" => handlers[g].pc # "idle")
  BY <1>1 DEF TypeOK, WorkerTypeOK, Handler
<1>5. TasksInv'
  BY <1>2, <1>4 DEF TasksInv, Stored, storeVars, transportVars, schedulerVars
<1>6. handlers[h].task \in SubmissionIds
  BY <1>1 DEF TasksInv, TypeOK, WorkerTypeOK, Handler
<1>7. directory' \in [Workers -> SUBSET SubmissionIds]
  BY <1>6, WorkerAssumption DEF ClearDirectory, WriteFiles, TypeOK, WorkerTypeOK
<1>8. NotificationsInv'
  BY <1>2, RowsUnchanged, NotificationsFrame DEF storeVars, transportVars
<1>9. /\ queue' \in [SubmissionIds -> Nat]
      /\ requests' \in [Requests -> Notification \cup {None}]
      /\ faultCount' \in Nat
  BY <1>2 DEF TypeOK, TransportTypeOK, transportVars
<1>. QED
  BY <1>2, <1>3, <1>5, <1>7, <1>8, <1>9, WorkerSideKeepsInv

\* The verdict is posted.
LEMMA ReportKeepsInv ==
    ASSUME PipelineInv, NEW h \in Handlers, Report(h),
           UNCHANGED <<intake, schedulerVars, faultCount>>
    PROVE  PipelineInv'
<1>. USE DEF PipelineInv
<1> DEFINE s == handlers[h].task
<1>1. s \in SubmissionIds /\ Stored(s)
  BY DEF Report, Verifying, TasksInv, TypeOK, WorkerTypeOK, Handler
<1>2. PICK verdict \in PossibleVerdicts(h), q \in Requests : Post(q, WorkerOf[h], s, verdict)
  BY DEF Report
<1>3. verdict \in NotificationStatus
  BY <1>2 DEF PossibleVerdicts, NotificationStatus
<1>4. requests' \in [Requests -> Notification \cup {None}] /\ NotificationsInv'
  BY <1>1, <1>2, <1>3, PostKeepsNotifications, WorkerAssumption DEF Report, storeVars
<1>5. handlers' \in [Handlers -> Handler]
  BY DEF Report, TypeOK, WorkerTypeOK, Handler
<1>6. \A g \in Handlers : handlers'[g].task = handlers[g].task /\
                          (handlers'[g].pc # "idle" => handlers[g].pc # "idle")
  BY DEF Report, Verifying, TypeOK, WorkerTypeOK, Handler
<1>7. TasksInv'
  BY <1>6 DEF Report, TasksInv, Stored, storeVars, schedulerVars
<1>8. /\ queue' \in [SubmissionIds -> Nat]
      /\ directory' \in [Workers -> SUBSET SubmissionIds]
      /\ faultCount' \in Nat
  BY DEF Report, TypeOK, TransportTypeOK, WorkerTypeOK
<1>. QED
  BY <1>4, <1>5, <1>7, <1>8, WorkerSideKeepsInv DEF Report

\* A handler acknowledges and ends.
LEMMA AckKeepsInv ==
    ASSUME PipelineInv, NEW h \in Handlers, Ack(h),
           UNCHANGED <<intake, schedulerVars, faultCount>>
    PROVE  PipelineInv'
<1>. USE DEF PipelineInv
<1>1. handlers' \in [Handlers -> Handler]
  BY DEF Ack, TypeOK, WorkerTypeOK, Handler, IdleHandler
<1>2. TasksInv'
  BY DEF Ack, TasksInv, TypeOK, WorkerTypeOK, IdleHandler, Stored, storeVars, transportVars,
         schedulerVars
<1>3. NotificationsInv'
  BY RowsUnchanged, NotificationsFrame DEF Ack, storeVars, transportVars
<1>4. /\ queue' \in [SubmissionIds -> Nat]
      /\ requests' \in [Requests -> Notification \cup {None}]
      /\ directory' \in [Workers -> SUBSET SubmissionIds]
      /\ faultCount' \in Nat
  BY DEF Ack, TypeOK, TransportTypeOK, WorkerTypeOK, transportVars
<1>. QED
  BY <1>1, <1>2, <1>3, <1>4, WorkerSideKeepsInv DEF Ack

\* Every step of a handler of a worker.
LEMMA WorkerStepKeepsInv ==
    ASSUME PipelineInv, NEW h \in Handlers, WorkerStep(h)
    PROVE  PipelineInv'
BY TakeTaskKeepsInv, SandboxStepKeepsInv, ReportKeepsInv, AckKeepsInv DEF WorkerStep

-----------------------------------------------------------------------------
(* Errors and faults.                                                      *)

\* What is requeued was held by a handler, hence about a row.
LEMMA RequeueKeepsTasks ==
    ASSUME PipelineInv, NEW w, Requeue(w), UNCHANGED <<storeVars, schedulerVars>>,
           handlers' \in [Handlers -> Handler],
           \A h \in Handlers : handlers'[h] = IdleHandler \/
               (handlers'[h].pc = handlers[h].pc /\ handlers'[h].task = handlers[h].task)
    PROVE  /\ queue' \in [SubmissionIds -> Nat]
           /\ TasksInv'
<1>. USE DEF PipelineInv
<1>1. queue' \in [SubmissionIds -> Nat]
  BY DEF Requeue, TypeOK, TransportTypeOK
<1>2. ASSUME NEW s \in SubmissionIds, outbox'[s] > 0 \/ queue'[s] > 0
      PROVE  contractSubmissions'[s] # None
  <2>1. outbox[s] > 0 \/ queue[s] > 0 \/ \E h \in Handlers : Holds(h, s)
    BY <1>2 DEF Requeue, schedulerVars
  <2>. QED
    BY <2>1, NoneAssumption DEF Holds, TasksInv, Stored, storeVars
<1>3. ASSUME NEW h \in Handlers
      PROVE  /\ handlers'[h].pc # "idle" => handlers'[h].task # None
             /\ handlers'[h].task # None => contractSubmissions'[handlers'[h].task] # None
  BY <1>3 DEF IdleHandler, TasksInv, Stored, storeVars
<1>. QED
  BY <1>1, <1>2, <1>3 DEF TasksInv, Stored

\* A worker process dies.
LEMMA CrashLosingKeepsInv ==
    ASSUME PipelineInv, NEW w, NEW lost, CrashLosing(w, lost),
           UNCHANGED <<intake, schedulerVars>>, faultCount' \in Nat
    PROVE  PipelineInv'
<1>. USE DEF PipelineInv
<1>1. /\ handlers' \in [Handlers -> Handler]
      /\ \A h \in Handlers : handlers'[h] = IdleHandler \/ handlers'[h] = handlers[h]
  BY DEF CrashLosing, TypeOK, WorkerTypeOK, Handler, IdleHandler
<1>2. queue' \in [SubmissionIds -> Nat] /\ TasksInv'
  BY <1>1, RequeueKeepsTasks DEF CrashLosing
<1>3. ASSUME NEW q \in Requests
      PROVE  \/ requests'[q] = None
             \/ requests[q] # None /\ requests'[q] = requests[q]
             \/ requests[q] # None /\ requests'[q] = [requests[q] EXCEPT !.worker = None]
  BY DEF CrashLosing
<1>4. ASSUME NEW q \in Requests
      PROVE  requests'[q] \in Notification \cup {None}
  BY <1>3, NotificationInSlot DEF Notification
<1>5. requests' \in [Requests -> Notification \cup {None}]
  BY <1>4 DEF CrashLosing
<1>6. ASSUME NEW q \in Requests, requests'[q] # None
      PROVE  /\ requests[q] # None
             /\ requests'[q].submission = requests[q].submission
             /\ requests'[q].status = requests[q].status
             /\ requests'[q].stage = requests[q].stage
             /\ requests'[q].prevStatus = requests[q].prevStatus
             /\ requests'[q].newStatus = requests[q].newStatus
  BY <1>3, <1>6, NotificationInSlot DEF Notification
<1>7. NotificationsInv'
  BY <1>6 DEF CrashLosing, NotificationsInv, Stored, storeVars
<1>. QED
  BY <1>1, <1>2, <1>5, <1>7, WorkerSideKeepsInv DEF CrashLosing, TypeOK, WorkerTypeOK

\* An error answer ends its worker.
LEMMA ErrorStepKeepsInv ==
    ASSUME PipelineInv, NEW q \in Requests, ErrorStep(q)
    PROVE  PipelineInv'
<1>1. faultCount' \in Nat
  BY DEF PipelineInv, TypeOK, ErrorStep
<1>. QED
  BY <1>1, CrashLosingKeepsInv DEF ErrorStep, NotifyError

\* Connections between workers and the broker break.
LEMMA ConnectionLostKeepsInv ==
    ASSUME PipelineInv, NEW w \in Workers, ConnectionLost(w),
           UNCHANGED <<intake, schedulerVars>>, faultCount' \in Nat
    PROVE  PipelineInv'
<1>. USE DEF PipelineInv
<1>1. /\ handlers' \in [Handlers -> Handler]
      /\ \A h \in Handlers : handlers'[h] = IdleHandler \/
           (handlers'[h].pc = handlers[h].pc /\ handlers'[h].task = handlers[h].task)
  BY DEF ConnectionLost, TypeOK, WorkerTypeOK, Handler, IdleHandler
<1>2. queue' \in [SubmissionIds -> Nat] /\ TasksInv'
  BY <1>1, RequeueKeepsTasks DEF ConnectionLost
<1>3. NotificationsInv'
  BY RowsUnchanged, NotificationsFrame DEF ConnectionLost, storeVars
<1>4. requests' \in [Requests -> Notification \cup {None}]
  BY DEF ConnectionLost, TypeOK, TransportTypeOK
<1>. QED
  BY <1>1, <1>2, <1>3, <1>4, WorkerSideKeepsInv DEF ConnectionLost, TypeOK, WorkerTypeOK

\* The broker loses its messages and its connections.
LEMMA BrokerRestartKeepsInv ==
    ASSUME PipelineInv, BrokerRestart, faultCount' \in Nat
    PROVE  PipelineInv'
<1>. USE DEF PipelineInv
<1>1. /\ handlers' \in [Handlers -> Handler]
      /\ \A h \in Handlers : handlers'[h] = IdleHandler \/
           (handlers'[h].pc = handlers[h].pc /\ handlers'[h].task = handlers[h].task)
  BY DEF BrokerRestart, TypeOK, WorkerTypeOK, Handler, IdleHandler
<1>2. queue' \in [SubmissionIds -> Nat]
  BY DEF BrokerRestart
<1>3. TasksInv'
  <2>1. ASSUME NEW s \in SubmissionIds, outbox'[s] > 0 \/ queue'[s] > 0
        PROVE  contractSubmissions'[s] # None
    BY <2>1 DEF BrokerRestart, TasksInv, Stored, storeVars, schedulerVars
  <2>2. ASSUME NEW h \in Handlers
        PROVE  /\ handlers'[h].pc # "idle" => handlers'[h].task # None
               /\ handlers'[h].task # None => contractSubmissions'[handlers'[h].task] # None
    BY <1>1 DEF BrokerRestart, IdleHandler, TasksInv, Stored, storeVars
  <2>. QED
    BY <2>1, <2>2 DEF TasksInv, Stored
<1>4. NotificationsInv'
  BY RowsUnchanged, NotificationsFrame DEF BrokerRestart, storeVars
<1>5. requests' \in [Requests -> Notification \cup {None}]
  BY DEF BrokerRestart, TypeOK, TransportTypeOK
<1>. QED
  BY <1>1, <1>2, <1>3, <1>4, <1>5, WorkerSideKeepsInv DEF BrokerRestart, TypeOK, WorkerTypeOK

\* A statement of the gateway fails: of a run, or of a handler.
LEMMA StoreFaultKeepsInv ==
    ASSUME PipelineInv, StoreFault, faultCount' \in Nat
    PROVE  PipelineInv'
<1>. USE DEF PipelineInv
<1>1. ASSUME NEW r \in Runs, RunAborts(r), UNCHANGED <<intake, transportVars, workerVars>>
      PROVE  PipelineInv'
  <2>1. runs' = [runs EXCEPT ![r] = IdleRun] /\ runs' \in [Runs -> Run]
    BY <1>1, IdleRunType DEF RunAborts, TypeOK, SchedulerTypeOK
  <2>2. UNCHANGED <<contractSubmissions, contracts, outbox>>
        /\ history' \subseteq VerificationRecord
    BY <1>1 DEF RunAborts, storeVars, TypeOK, StoreTypeOK
  <2>3. RunsInv'
    BY <2>1, <2>2 DEF RunsInv, IdleRun, Stored, TypeOK, SchedulerTypeOK
  <2>. QED
    BY <1>1, <2>1, <2>2, <2>3, RunsOnlyKeepInv
<1>. QED
  BY <1>1, StatementFailsKeepsInv DEF StoreFault

\* The gateway process dies.
LEMMA GatewayCrashKeepsInv ==
    ASSUME PipelineInv, GatewayCrash, faultCount' \in Nat
    PROVE  PipelineInv'
<1>. USE DEF PipelineInv
<1>1. RowsKept /\ NoNewRow
  BY RowsUnchanged DEF GatewayCrash, storeVars
<1>2. ASSUME NEW q \in Requests
      PROVE  \/ requests'[q] = None
             \/ requests[q] # None /\ requests'[q] = requests[q]
             \/ requests[q] # None /\ requests'[q] = [requests[q] EXCEPT !.stage = "failed"]
  BY DEF GatewayCrash, Failed
<1>3. ASSUME NEW q \in Requests
      PROVE  requests'[q] \in Notification \cup {None}
  BY <1>2, NotificationInSlot DEF Notification, Stages
<1>4. requests' \in [Requests -> Notification \cup {None}]
  BY <1>3 DEF GatewayCrash
<1>5. NotificationsInv'
  <2>1. ASSUME NEW q \in Requests, requests'[q] # None
        PROVE  /\ requests[q] # None
               /\ requests'[q].submission = requests[q].submission
               /\ requests'[q].status = requests[q].status
               /\ \/ requests'[q].stage = "failed"
                  \/ requests'[q] = requests[q]
    BY <1>2, <2>1, NotificationInSlot DEF Notification
  <2>. QED
    BY <2>1 DEF GatewayCrash, NotificationsInv, Stored, storeVars
<1>6. TypeOK'
  BY <1>4, IdleRunType
  DEF GatewayCrash, TypeOK, StoreTypeOK, IntakeTypeOK, SchedulerTypeOK, TransportTypeOK,
      WorkerTypeOK, storeVars
<1>7. IntakeInv' /\ TasksInv' /\ RunsInv'
  BY DEF GatewayCrash, IntakeInv, TasksInv, RunsInv, Stored, IdleRun, storeVars
<1>. QED
  BY <1>5, <1>6, <1>7

\* Every fault.
LEMMA FaultStepKeepsInv ==
    ASSUME PipelineInv, FaultStep
    PROVE  PipelineInv'
<1>1. faultCount' \in Nat
  BY DEF FaultStep, PipelineInv, TypeOK
<1>2. CASE WorkerFault
  BY <1>1, <1>2, CrashLosingKeepsInv, ConnectionLostKeepsInv DEF WorkerFault, WorkerCrash
<1>3. CASE BrokerRestart
  BY <1>1, <1>3, BrokerRestartKeepsInv
<1>4. CASE NetworkFault
  <2>1. PICK q \in Requests : RejectNotification(q)
    BY <1>4 DEF NetworkFault
  <2>. QED
    BY <1>1, <1>4, <2>1, FailedKeepsInv DEF NetworkFault, RejectNotification, InStage
<1>5. CASE StoreFault
  BY <1>1, <1>5, StoreFaultKeepsInv
<1>6. CASE GatewayCrash
  BY <1>1, <1>6, GatewayCrashKeepsInv
<1>. QED
  BY <1>2, <1>3, <1>4, <1>5, <1>6 DEF FaultStep

-----------------------------------------------------------------------------
(* The invariant.                                                          *)

\* It holds at the start.
LEMMA InitInv == Init => PipelineInv
<1>. SUFFICES ASSUME Init
              PROVE  PipelineInv
  OBVIOUS
<1>. USE DEF Init, StoreInit, IntakeInit, SchedulerInit, TransportInit, WorkerInit
<1>1. TypeOK
  BY IdleRunType
  DEF TypeOK, StoreTypeOK, IntakeTypeOK, SchedulerTypeOK, TransportTypeOK, WorkerTypeOK,
      IdleHandler, Handler
<1>2. IntakeInv /\ TasksInv /\ RunsInv /\ NotificationsInv
  BY DEF IntakeInv, TasksInv, RunsInv, NotificationsInv, IdleRun, IdleHandler
<1>. QED
  BY <1>1, <1>2 DEF PipelineInv

\* A step that changes nothing keeps it.
LEMMA StutterKeepsInv ==
    ASSUME PipelineInv, UNCHANGED vars
    PROVE  PipelineInv'
<1>1. RowsKept /\ NoNewRow
  BY RowsUnchanged DEF vars, storeVars
<1>2. TypeOK'
  BY DEF PipelineInv, TypeOK, StoreTypeOK, IntakeTypeOK, SchedulerTypeOK, TransportTypeOK,
         WorkerTypeOK, vars, storeVars, schedulerVars, transportVars
<1>3. IntakeInv' /\ TasksInv' /\ RunsInv' /\ NotificationsInv'
  BY <1>1, IntakeFrame, TasksFrame, RunsFrame, NotificationsFrame
  DEF PipelineInv, vars, schedulerVars, transportVars
<1>. QED
  BY <1>2, <1>3 DEF PipelineInv

\* Every step keeps the invariant.
LEMMA StepKeepsInv ==
    ASSUME PipelineInv, [Next]_vars
    PROVE  PipelineInv'
<1>1. CASE \E s \in SubmissionIds : ApiStep(s) \/ PublishTask(s)
  BY <1>1, ApiStepKeepsInv, PublishTaskKeepsInv
<1>2. CASE \E r \in Runs : RunStep(r)
  BY <1>2, RunStepKeepsInv
<1>3. CASE \E q \in Requests : NotifyStep(q) \/ ErrorStep(q)
  BY <1>3, NotifyStepKeepsInv, ErrorStepKeepsInv
<1>4. CASE \E h \in Handlers : WorkerStep(h)
  BY <1>4, WorkerStepKeepsInv
<1>5. CASE FaultStep
  BY <1>5, FaultStepKeepsInv
<1>6. CASE UNCHANGED vars
  BY <1>6, StutterKeepsInv
<1>. QED
  BY <1>1, <1>2, <1>3, <1>4, <1>5, <1>6 DEF Next

\* Whatever a task, a run's entity or a notification is about is stored, and what a
\* handler or a run is about to write it has read: PipelineInv is inductive.
THEOREM PipelineInvariant == Spec => []PipelineInv
<1>1. Init => PipelineInv
  BY InitInv
<1>2. PipelineInv /\ [Next]_vars => PipelineInv'
  BY StepKeepsInv
<1>. QED
  BY <1>1, <1>2, PTL DEF Spec

\* Every variable keeps its type, whatever the constants are.
THEOREM TypeCorrect == Spec => []TypeOK
<1>1. PipelineInv => TypeOK
  BY DEF PipelineInv
<1>. QED
  BY <1>1, PipelineInvariant, PTL
=============================================================================
