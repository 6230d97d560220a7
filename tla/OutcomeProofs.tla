---------------------------- MODULE OutcomeProofs ----------------------------
(***************************************************************************)
(* Why what users are told is explained by the history and backed by what  *)
(* is published: UPDATE, confirmSubmission, the catch and the history      *)
(* record are statements of their own, and handlers of other notifications *)
(* and runs of the cron job come between them.                             *)
(*                                                                         *)
(* The first part says once what the steps do to rows, runs and handlers;  *)
(* SchedulingProofs and TrackingProofs cite it too.                        *)
(***************************************************************************)
EXTENDS RegistryProofs

USE DEF workerVars

\* No statement of the gateway fails and its process does not die.
GatewayHolds == Faults \cap {"storeError", "gatewayCrash"} = {}

\* The handler of notification q has read its row and not yet answered.
Serving(q) ==
    requests[q] # None /\ requests[q].stage \in {"found", "confirm", "store", "undo", "record"}

-----------------------------------------------------------------------------
(* What steps outside the scheduler and the notification handler do.       *)

\* The steps of users, broker and workers, errors and faults.
Elsewhere ==
    \/ \E s \in SubmissionIds : ApiStep(s) \/ PublishTask(s)
    \/ \E q \in Requests : ErrorStep(q)
    \/ \E h \in Handlers : WorkerStep(h)
    \/ FaultStep
    \/ UNCHANGED vars

\* Rows that exist keep status and columns, others appear as new.
StatusesKept ==
    \A s \in SubmissionIds : contractSubmissions'[s] # None =>
        IF Stored(s) THEN contractSubmissions'[s] = contractSubmissions[s]
        ELSE contractSubmissions'[s].status = "new"

\* No handler in the gateway moves, begins or ends.
ServingKept ==
    \A q \in Requests : Serving(q) \/ Serving(q)' =>
        /\ Serving(q) /\ Serving(q)'
        /\ requests'[q].stage = requests[q].stage
        /\ requests'[q].submission = requests[q].submission
        /\ requests'[q].status = requests[q].status
        /\ requests'[q].newStatus = requests[q].newStatus
        /\ requests'[q].compiler = requests[q].compiler

\* They touch a row only by inserting it.
LEMMA ElsewhereKeepsStatuses ==
    ASSUME PipelineInv, Elsewhere
    PROVE  StatusesKept /\ UNCHANGED <<contracts, history>>
<1>1. CASE \E s \in SubmissionIds : SubmitStore(s)
  BY <1>1 DEF SubmitStore, StatusesKept, PipelineInv, IntakeInv, TypeOK, StoreTypeOK, Stored
<1>2. CASE ~\E s \in SubmissionIds : SubmitStore(s)
  <2>1. UNCHANGED storeVars
    BY <1>2
    DEF Elsewhere, ApiStep, SettlePost, SubmitCheck, SubmitReject, PublishTask, ErrorStep,
        NotifyError, WorkerStep, TakeTask, TakeTaskUnsigned, Report, ClearDirectory, WriteFiles,
        Ack, FaultStep, WorkerFault, WorkerCrash, CrashLosing, ConnectionLost, BrokerRestart,
        NetworkFault, StoreFault, RunAborts, StatementFails, GatewayCrash, vars
  <2>. QED
    BY <2>1 DEF StatusesKept, Stored, storeVars
<1>. QED
  BY <1>1, <1>2 DEF SubmitStore

\* A worker that dies takes POSTs with it that have not arrived, and no other.
LEMMA CrashKeepsServing ==
    ASSUME PipelineInv, NEW w, NEW lost \in LosablePosts(w), CrashLosing(w, lost)
    PROVE  ServingKept
<1>1. lost \subseteq SentBy(w)
  BY DEF LosablePosts
<1>2. ASSUME NEW q \in Requests
      PROVE  \/ ~Serving(q) /\ ~Serving(q)'
             \/ requests[q] # None /\ requests'[q] = requests[q]
             \/ requests[q] # None /\ requests'[q] = [requests[q] EXCEPT !.worker = None]
  BY <1>1 DEF CrashLosing, SentBy, InStage, Serving
<1>3. ASSUME NEW q \in Requests, requests[q] # None
      PROVE  requests[q] \in Notification /\ [requests[q] EXCEPT !.worker = None] \in Notification
  BY <1>3, NotificationInSlot DEF PipelineInv, Notification
<1>. QED
  BY <1>2, <1>3, TransportAssumption DEF ServingKept, Serving, Notification

\* A worker's POST waits for its handler.
LEMMA PostKeepsServing ==
    ASSUME PipelineInv, NEW q \in Requests, NEW w, NEW s, NEW status, Post(q, w, s, status)
    PROVE  ServingKept
BY DEF Post, ServingKept, Serving, PipelineInv, TypeOK, TransportTypeOK

\* While the gateway holds they leave its runs and handlers alone.
LEMMA ElsewhereKeepsServing ==
    ASSUME PipelineInv, GatewayHolds, Elsewhere
    PROVE  ServingKept /\ UNCHANGED runs
<1>. USE DEF PipelineInv
<1>1. ASSUME UNCHANGED requests
      PROVE  ServingKept
  BY <1>1 DEF ServingKept, Serving
<1>2. CASE \E s \in SubmissionIds : ApiStep(s) \/ PublishTask(s)
  BY <1>1, <1>2 DEF ApiStep, PublishTask, schedulerVars, transportVars
<1>3. CASE \E q \in Requests : ErrorStep(q)
  BY <1>3, CrashKeepsServing DEF ErrorStep, NotifyError, schedulerVars
<1>4. CASE \E h \in Handlers : WorkerStep(h)
  <2>1. PICK h \in Handlers : WorkerStep(h)
    BY <1>4
  <2>2. CASE TakeTask(h) \/ Report(h)
    <3>1. PICK q, s, status : q \in Requests /\ Post(q, WorkerOf[h], s, status)
      BY <2>2 DEF TakeTask, Report
    <3>. QED
      BY <2>1, <3>1, PostKeepsServing DEF WorkerStep, schedulerVars
  <2>3. CASE TakeTaskUnsigned(h) \/ ClearDirectory(h) \/ WriteFiles(h) \/ Ack(h)
    <3>1. UNCHANGED requests
      BY <2>3 DEF TakeTaskUnsigned, ClearDirectory, WriteFiles, Ack, transportVars
    <3>. QED
      BY <1>1, <2>1, <3>1 DEF WorkerStep, schedulerVars
  <2>. QED
    BY <2>1, <2>2, <2>3 DEF WorkerStep, schedulerVars
<1>5. CASE FaultStep
  <2>1. CASE WorkerFault
    BY <1>1, <2>1, CrashKeepsServing DEF WorkerFault, WorkerCrash, ConnectionLost, schedulerVars
  <2>2. CASE BrokerRestart
    BY <1>1, <2>2 DEF BrokerRestart, schedulerVars
  <2>3. CASE NetworkFault
    <3>1. PICK q \in Requests : RejectNotification(q)
      BY <2>3 DEF NetworkFault
    <3>2. ServingKept
      BY <3>1, NotificationInSlot
      DEF RejectNotification, InStage, Failed, ServingKept, Serving, TypeOK, TransportTypeOK,
          Notification
    <3>. QED
      BY <2>3, <3>2 DEF NetworkFault, schedulerVars
  <2>. QED
    BY <1>5, <2>1, <2>2, <2>3 DEF FaultStep, StoreFault, GatewayCrash, GatewayHolds
<1>6. CASE UNCHANGED vars
  BY <1>1, <1>6 DEF vars, transportVars, schedulerVars
<1>. QED
  BY <1>2, <1>3, <1>4, <1>5, <1>6 DEF Elsewhere

-----------------------------------------------------------------------------
(* What the notification handler does.                                     *)

\* The handler of q is about a row, keeps to its notification and to its slot.
LEMMA HandlerScope ==
    ASSUME PipelineInv, NEW q \in Requests, NotifyStep(q)
    PROVE  /\ requests[q] # None
           /\ requests[q] \in Notification
           /\ requests[q].submission \in SubmissionIds
           /\ Stored(requests[q].submission)
           /\ \A p \in Requests : p # q => requests'[p] = requests[p]
           /\ requests'[q] # None =>
                /\ requests'[q].submission = requests[q].submission
                /\ requests'[q].status = requests[q].status
           /\ UNCHANGED runs
<1>1. requests[q] # None
  BY DEF NotifyStep, HandleNotification, FindSubmission, UpdateProcessing, UpdateFail,
         UpdateSuccess, UpdateStatus, ConfirmRead, StoreContract, UndoSuccess, SaveHistory, InStage
<1>2. /\ requests[q] \in Notification
      /\ requests[q].submission \in SubmissionIds
      /\ Stored(requests[q].submission)
  BY <1>1, NotificationInSlot DEF PipelineInv, NotificationsInv
<1>3. \A p \in Requests : p # q => requests'[p] = requests[p]
  BY DEF NotifyStep, HandleNotification, FindSubmission, UpdateProcessing, UpdateFail,
         UpdateSuccess, UpdateStatus, ConfirmRead, StoreContract, UndoSuccess, SaveHistory,
         PipelineInv, TypeOK, TransportTypeOK
<1>4. requests'[q] # None =>
        /\ requests'[q].submission = requests[q].submission
        /\ requests'[q].status = requests[q].status
  <2>1. CASE FindSubmission(q)
    BY <1>2, <2>1 DEF FindSubmission, PipelineInv, TypeOK, TransportTypeOK, Notification
  <2>2. CASE UpdateProcessing(q) \/ UpdateFail(q) \/ UpdateSuccess(q)
    BY <1>2, <2>2
    DEF UpdateProcessing, UpdateFail, UpdateSuccess, UpdateStatus, PipelineInv, TypeOK,
        TransportTypeOK, Notification
  <2>3. CASE ConfirmRead(q) \/ StoreContract(q) \/ UndoSuccess(q) \/ SaveHistory(q)
    BY <1>2, <2>3
    DEF ConfirmRead, StoreContract, UndoSuccess, SaveHistory, PipelineInv, TypeOK,
        TransportTypeOK, Notification
  <2>. QED
    BY <2>1, <2>2, <2>3 DEF NotifyStep, HandleNotification
<1>. QED
  BY <1>1, <1>2, <1>3, <1>4 DEF NotifyStep, schedulerVars

\* The branches of the switch, and the catch, write the status they go on with.
LEMMA HandlerWrites ==
    ASSUME PipelineInv, NEW q \in Requests, NotifyStep(q),
           UpdateProcessing(q) \/ UpdateFail(q) \/ UpdateSuccess(q) \/ UndoSuccess(q),
           NEW s \in SubmissionIds, s = requests[q].submission
    PROVE  /\ requests'[q] # None
           /\ requests'[q].newStatus = contractSubmissions'[s].status
           /\ \/ /\ contractSubmissions'[s].status = "processing"
                 /\ requests[q].status = "processing"
                 /\ requests'[q].stage = "record"
              \/ /\ contractSubmissions'[s].status = "fail"
                 /\ requests[q].status \in Verdicts
                 /\ requests'[q].stage = "record"
                 /\ "result" \in contractSubmissions'[s].filled
              \/ /\ contractSubmissions'[s].status = "success"
                 /\ requests[q].status = "success"
                 /\ requests'[q].stage = "confirm"
                 /\ "compiler" \in contractSubmissions'[s].filled
           /\ \A t \in SubmissionIds : t # s => contractSubmissions'[t] = contractSubmissions[t]
           /\ UNCHANGED <<contracts, history>>
<1>. USE DEF PipelineInv
<1>1. /\ requests[q] \in Notification
      /\ contractSubmissions[s] \in Submission
  BY HandlerScope DEF TypeOK, StoreTypeOK, Stored
<1>2. PICK status \in {"processing", "fail", "success"}, stage \in {"record", "confirm"},
           columns \in SUBSET NullableColumns :
        /\ UpdateSubmission(s, status, columns)
        /\ requests' = [requests EXCEPT ![q].stage = stage, ![q].newStatus = status]
        /\ UNCHANGED <<contracts, history>>
        /\ \/ /\ status = "processing" /\ stage = "record" /\ requests[q].status = "processing"
           \/ /\ status = "fail" /\ stage = "record" /\ "result" \in columns
              /\ requests[q].status \in {"fail", "success"}
           \/ /\ status = "success" /\ stage = "confirm" /\ "compiler" \in columns
              /\ requests[q].status = "success"
  <2>1. CASE UpdateProcessing(q)
    BY <2>1 DEF UpdateProcessing, UpdateStatus, NullableColumns
  <2>2. CASE UpdateFail(q)
    BY <2>2 DEF UpdateFail, UpdateStatus, NullableColumns
  <2>3. CASE UpdateSuccess(q)
    BY <2>3 DEF UpdateSuccess, UpdateStatus, NullableColumns
  <2>4. CASE UndoSuccess(q)
    BY <2>4 DEF UndoSuccess, InStage, NotificationsInv, NullableColumns
  <2>. QED
    BY <2>1, <2>2, <2>3, <2>4
<1>3. /\ requests'[q] # None
      /\ requests'[q].newStatus = status
      /\ requests'[q].stage = stage
  <2> DEFINE n == [requests[q] EXCEPT !.stage = stage, !.newStatus = status]
  <2>1. n \in Notification /\ n.newStatus = status /\ n.stage = stage
    BY <1>1 DEF Notification, Stages, VerificationStatus
  <2>2. requests'[q] = n
    BY <1>2 DEF TypeOK, TransportTypeOK
  <2>. QED
    BY <2>1, <2>2, TransportAssumption
<1>4. /\ contractSubmissions'[s].status = status
      /\ columns \subseteq contractSubmissions'[s].filled
      /\ \A t \in SubmissionIds : t # s => contractSubmissions'[t] = contractSubmissions[t]
  BY <1>1, <1>2 DEF UpdateSubmission, TypeOK, StoreTypeOK, Submission
<1>. QED
  BY <1>2, <1>3, <1>4 DEF Verdicts

\* The other steps of the handler leave the rows alone.
LEMMA HandlerReads ==
    ASSUME PipelineInv, NEW q \in Requests, NotifyStep(q),
           FindSubmission(q) \/ ConfirmRead(q) \/ StoreContract(q)
    PROVE  /\ UNCHANGED <<contractSubmissions, history>>
           /\ ~StoreContract(q) => UNCHANGED contracts
           /\ requests'[q] # None
           /\ requests'[q].newStatus = requests[q].newStatus
           /\ FindSubmission(q) => requests[q].stage = "sent" /\ requests'[q].stage = "found"
           /\ ConfirmRead(q) =>
                /\ requests[q].stage = "confirm"
                /\ requests'[q].stage \in {"store", "undo"}
           /\ StoreContract(q) =>
                /\ requests[q].stage = "store"
                /\ requests'[q].stage \in {"record", "undo"}
<1>. USE DEF PipelineInv
<1>1. /\ requests[q] \in Notification
      /\ requests[q].submission \in SubmissionIds
      /\ Stored(requests[q].submission)
  BY HandlerScope
<1>2. PICK stage \in Stages, prevStatus \in VerificationStatus \cup {None}, compiler \in BOOLEAN :
        /\ requests'[q] = [requests[q] EXCEPT !.stage = stage, !.prevStatus = prevStatus,
                                              !.compiler = compiler]
        /\ FindSubmission(q) => requests[q].stage = "sent" /\ stage = "found"
        /\ ConfirmRead(q) => requests[q].stage = "confirm" /\ stage \in {"store", "undo"}
        /\ StoreContract(q) => requests[q].stage = "store" /\ stage \in {"record", "undo"}
  <2>1. CASE FindSubmission(q)
    <3>1. StatusOf(requests[q].submission) \in VerificationStatus
      BY <1>1 DEF StatusOf, Stored, TypeOK, StoreTypeOK, Submission
    <3>2. requests'[q] = [requests[q] EXCEPT !.stage = "found",
                            !.prevStatus = StatusOf(requests[q].submission),
                            !.compiler = requests[q].compiler]
      BY <1>1, <2>1 DEF FindSubmission, TypeOK, TransportTypeOK, Notification
    <3>. QED
      BY <1>1, <2>1, <3>1, <3>2
      DEF FindSubmission, ConfirmRead, StoreContract, InStage, Notification, Stages
  <2>2. CASE ConfirmRead(q)
    <3>1. PICK stage \in {"store", "undo"}, compiler \in BOOLEAN :
            requests' = [requests EXCEPT ![q].stage = stage, ![q].compiler = compiler]
      BY <2>2 DEF ConfirmRead
    <3>2. requests'[q] = [requests[q] EXCEPT !.stage = stage,
                            !.prevStatus = requests[q].prevStatus, !.compiler = compiler]
      BY <1>1, <3>1 DEF TypeOK, TransportTypeOK, Notification
    <3>. QED
      BY <1>1, <2>2, <3>2
      DEF FindSubmission, ConfirmRead, StoreContract, InStage, Notification, Stages
  <2>3. CASE StoreContract(q)
    <3>1. PICK stage \in {"record", "undo"} : requests' = [requests EXCEPT ![q].stage = stage]
      BY <2>3 DEF StoreContract
    <3>2. requests'[q] = [requests[q] EXCEPT !.stage = stage,
                            !.prevStatus = requests[q].prevStatus,
                            !.compiler = requests[q].compiler]
      BY <1>1, <3>1 DEF TypeOK, TransportTypeOK, Notification
    <3>. QED
      BY <1>1, <2>3, <3>2
      DEF FindSubmission, ConfirmRead, StoreContract, InStage, Notification, Stages
  <2>. QED
    BY <2>1, <2>2, <2>3
<1>3. /\ requests'[q] \in Notification
      /\ requests'[q].stage = stage
      /\ requests'[q].newStatus = requests[q].newStatus
  BY <1>1, <1>2 DEF Notification
<1>. QED
  BY <1>2, <1>3, TransportAssumption DEF FindSubmission, ConfirmRead, StoreContract, storeVars

-----------------------------------------------------------------------------
(* What the scheduler does.                                                *)

\* A run that is about to save its entity has recorded that it becomes pending.
ScheduledInv ==
    \A r \in Runs : runs[r].pc \in {"load", "write"} =>
        /\ runs[r].batch[runs[r].current].status = "pending"
        /\ HasRecord(runs[r].current, {"pending"})

\* Outside the scheduler, runs go on as they are or are over.
LEMMA ElsewhereKeepsRuns ==
    ASSUME Elsewhere, TypeOK
    PROVE  \A r \in Runs : runs'[r] = runs[r] \/ runs'[r] = IdleRun
BY DEF Elsewhere, ApiStep, PublishTask, ErrorStep, WorkerStep, FaultStep, WorkerFault,
       BrokerRestart, NetworkFault, StoreFault, RunAborts, GatewayCrash, vars, schedulerVars,
       TypeOK, SchedulerTypeOK

\* Records stay, whatever happens.
LEMMA HistoryGrows ==
    ASSUME PipelineInv, [Next]_vars
    PROVE  history \subseteq history'
<1>1. CASE \E r \in Runs : RunStep(r)
  BY <1>1 DEF RunStep, CronFires, EmitTask, RecordPending, SaveLoad, SaveWrite,
              RecordTransition, storeVars
<1>2. CASE \E q \in Requests : NotifyStep(q)
  BY <1>2
  DEF NotifyStep, HandleNotification, FindSubmission, UpdateProcessing, UpdateFail,
      UpdateSuccess, UpdateStatus, ConfirmRead, StoreContract, UndoSuccess, SaveHistory,
      RecordTransition, storeVars
<1>3. CASE Elsewhere
  BY <1>3, ElsewhereKeepsStatuses
<1>. QED
  BY <1>1, <1>2, <1>3 DEF Next, Elsewhere

\* The steps of a run that write: the record of the one it will save.
LEMMA RunKeepsScheduled ==
    ASSUME PipelineInv, ScheduledInv, NEW r \in Runs, RunStep(r)
    PROVE  ScheduledInv'
<1>. USE DEF PipelineInv
<1>1. \A p \in Runs : p # r => runs'[p] = runs[p]
  BY DEF RunStep, CronFires, EmitTask, RecordPending, SaveLoad, SaveWrite, TypeOK,
         SchedulerTypeOK
<1>2. history \subseteq history'
  BY HistoryGrows DEF Next
<1>3. ASSUME runs'[r].pc \in {"load", "write"}
      PROVE  /\ runs'[r].batch[runs'[r].current].status = "pending"
             /\ HasRecord(runs[r].current, {"pending"})'
  <2> DEFINE s == runs[r].current
  <2>1. CASE CronFires(r) \/ EmitTask(r)
    <3>1. CASE CronFires(r)
      <4>1. PICK batch : runs' = [runs EXCEPT ![r] = [IdleRun EXCEPT !.pc = "emit",
                                                                    !.batch = batch]]
        BY <3>1 DEF CronFires
      <4>. QED
        BY <1>3, <4>1 DEF IdleRun, TypeOK, SchedulerTypeOK
    <3>2. CASE EmitTask(r)
      BY <1>3, <3>2 DEF EmitTask, TypeOK, SchedulerTypeOK, Run
    <3>. QED
      BY <2>1, <3>1, <3>2
  <2>2. CASE RecordPending(r)
    <3>1. /\ s \in SubmissionIds
          /\ runs[r] \in Run
          /\ runs[r].batch[s] \in Submission
      BY <2>2 DEF RecordPending, RunsInv, TypeOK, SchedulerTypeOK, Run
    <3>2. runs' = [runs EXCEPT ![r].pc = "load", ![r].batch[s].status = "pending"]
      BY <2>2 DEF RecordPending
    <3>3. runs'[r].current = s /\ runs'[r].batch[s].status = "pending"
      BY <3>1, <3>2 DEF TypeOK, SchedulerTypeOK, Run, Submission
    <3>4. PICK record : record.submissionId = s /\ record.newStatus = "pending"
                        /\ record \in history'
      BY <2>2 DEF RecordPending, RecordTransition
    <3>. QED
      BY <3>3, <3>4 DEF HasRecord
  <2>3. CASE SaveLoad(r)
    <3>1. runs'[r].current = s /\ runs'[r].batch = runs[r].batch /\ runs[r].pc = "load"
      BY <2>3 DEF SaveLoad, TypeOK, SchedulerTypeOK, Run
    <3>. QED
      BY <1>2, <3>1 DEF ScheduledInv, HasRecord
  <2>4. CASE SaveWrite(r)
    BY <1>3, <2>4 DEF SaveWrite, NextInBatch, IdleRun, TypeOK, SchedulerTypeOK, Run
  <2>. QED
    BY <2>1, <2>2, <2>3, <2>4 DEF RunStep
<1>. QED
  BY <1>1, <1>2, <1>3 DEF ScheduledInv, HasRecord

\* Every step keeps it.
LEMMA ScheduledStep ==
    ASSUME PipelineInv, ScheduledInv, [Next]_vars
    PROVE  ScheduledInv'
<1>1. history \subseteq history'
  BY HistoryGrows
<1>2. CASE \A r \in Runs : runs'[r] = runs[r] \/ runs'[r] = IdleRun
  BY <1>1, <1>2 DEF ScheduledInv, HasRecord, IdleRun
<1>3. CASE \E q \in Requests : NotifyStep(q)
  BY <1>2, <1>3 DEF NotifyStep, schedulerVars
<1>4. CASE Elsewhere
  BY <1>2, <1>4, ElsewhereKeepsRuns DEF PipelineInv
<1>. QED
  BY <1>3, <1>4, RunKeepsScheduled DEF Next, Elsewhere

\* No run is about to save at the start.
LEMMA ScheduledInit == Init => ScheduledInv
BY DEF Init, SchedulerInit, IdleRun, ScheduledInv

\* A run changes one row, at the end of save: to pending, or it leaves the status
\* as it is because it was pending when save looked.
LEMMA RunWrites ==
    ASSUME PipelineInv, ScheduledInv, NEW r \in Runs, RunStep(r), NEW s \in SubmissionIds
    PROVE  /\ UNCHANGED <<contracts, requests>>
           /\ ~Stored(s) => contractSubmissions'[s] = None
           /\ Stored(s) => contractSubmissions'[s] = contractSubmissions[s] \/
                /\ SaveWrite(r) /\ s = runs[r].current
                /\ \/ contractSubmissions'[s].status = "pending"
                   \/ /\ contractSubmissions'[s].status = contractSubmissions[s].status
                      /\ runs[r].loaded.status = "pending"
<1>1. UNCHANGED <<contracts, requests>> /\ NoNewRow
  BY RunQuiet DEF RunStep, transportVars
<1>2. CASE SaveWrite(r)
  <2> DEFINE c == runs[r].current
             changed == ChangedColumns(runs[r].batch[c], runs[r].loaded)
             status == IF runs[r].batch[c].status = runs[r].loaded.status
                       THEN contractSubmissions[c].status ELSE runs[r].batch[c].status
             newRow == [contractSubmissions[c] EXCEPT
                          !.status = status,
                          !.filled = (@ \ changed) \cup (runs[r].batch[c].filled \cap changed)]
  <2>1. /\ c \in SubmissionIds
        /\ contractSubmissions[c] \in Submission
        /\ runs[r].batch[c].status = "pending"
    BY <1>2 DEF SaveWrite, PipelineInv, RunsInv, ScheduledInv, TypeOK, SchedulerTypeOK,
                StoreTypeOK, Run, Stored
  <2>2. contractSubmissions' = [contractSubmissions EXCEPT ![c] = newRow]
    BY <1>2 DEF SaveWrite, SaveSubmission, PipelineInv, TypeOK, StoreTypeOK
  <2>3. newRow.status = status
    BY <2>1 DEF Submission
  <2>. HIDE DEF newRow
  <2>. QED
    BY <1>1, <1>2, <2>1, <2>2, <2>3 DEF PipelineInv, TypeOK, StoreTypeOK, NoNewRow
<1>3. CASE ~SaveWrite(r)
  BY <1>1, <1>3 DEF RunStep, CronFires, EmitTask, RecordPending, SaveLoad, storeVars, NoNewRow
<1>. QED
  BY <1>2, <1>3

-----------------------------------------------------------------------------
(* The history explains the status.                                        *)

\* A status that was explained stays so if what was to be recorded still is, or
\* has been.
LEMMA ExplainedFrame ==
    ASSUME HistoryExplainsStatus, history \subseteq history',
           NEW s \in SubmissionIds, Stored(s),
           contractSubmissions'[s].status = contractSubmissions[s].status,
           contractSubmissions'[s].status # "new",
           \A q \in Requests, status \in {contractSubmissions[s].status} :
               (/\ requests[q] # None
                /\ requests[q].submission = s
                /\ requests[q].stage \in {"confirm", "store", "undo", "record"}
                /\ requests[q].newStatus = status) =>
                   HasRecord(s, {status})' \/ WillRecord(s, status)'
    PROVE  HasRecord(s, {StatusOf(s)})' \/ WillRecord(s, StatusOf(s))'
<1>1. HasRecord(s, {StatusOf(s)}) \/ WillRecord(s, StatusOf(s))
  BY DEF HistoryExplainsStatus, StatusOf
<1>2. CASE HasRecord(s, {StatusOf(s)})
  BY <1>2 DEF HasRecord, StatusOf
<1>3. CASE WillRecord(s, StatusOf(s))
  <2>1. PICK q \in Requests :
          /\ requests[q] # None
          /\ requests[q].submission = s
          /\ requests[q].stage \in {"confirm", "store", "undo", "record"}
          /\ requests[q].newStatus = contractSubmissions[s].status
    BY <1>3 DEF WillRecord, StatusOf
  <2>2. \/ HasRecord(s, {contractSubmissions[s].status})'
        \/ WillRecord(s, contractSubmissions[s].status)'
    BY <2>1
  <2>. QED
    BY <2>2 DEF HasRecord, WillRecord, StatusOf
<1>. QED
  BY <1>1, <1>2, <1>3

\* Outside the scheduler and the handlers nothing that was to be recorded is lost.
LEMMA ElsewhereKeepsHistory ==
    ASSUME PipelineInv, HistoryExplainsStatus, GatewayHolds, Elsewhere
    PROVE  HistoryExplainsStatus'
<1>. SUFFICES ASSUME NEW s \in SubmissionIds,
                     contractSubmissions'[s] # None, contractSubmissions'[s].status # "new"
              PROVE  HasRecord(s, {StatusOf(s)})' \/ WillRecord(s, StatusOf(s))'
  BY DEF HistoryExplainsStatus, Stored, StatusOf
<1>1. /\ Stored(s)
      /\ contractSubmissions'[s].status = contractSubmissions[s].status
      /\ history' = history
  BY ElsewhereKeepsStatuses DEF StatusesKept
<1>2. ServingKept
  BY ElsewhereKeepsServing
<1>3. ASSUME NEW q \in Requests, NEW status,
             requests[q] # None, requests[q].submission = s,
             requests[q].stage \in {"confirm", "store", "undo", "record"},
             requests[q].newStatus = status
      PROVE  WillRecord(s, status)'
  BY <1>2, <1>3 DEF ServingKept, Serving, WillRecord
<1>. QED
  BY <1>1, <1>3, ExplainedFrame

\* A run saves what it has recorded.
LEMMA RunKeepsHistory ==
    ASSUME PipelineInv, ScheduledInv, HistoryExplainsStatus, NEW r \in Runs, RunStep(r)
    PROVE  HistoryExplainsStatus'
<1>. SUFFICES ASSUME NEW s \in SubmissionIds,
                     contractSubmissions'[s] # None, contractSubmissions'[s].status # "new"
              PROVE  HasRecord(s, {StatusOf(s)})' \/ WillRecord(s, StatusOf(s))'
  BY DEF HistoryExplainsStatus, Stored, StatusOf
<1>1. history \subseteq history'
  BY HistoryGrows DEF Next
<1>2. Stored(s) /\ UNCHANGED requests
  BY RunWrites
<1>3. CASE contractSubmissions'[s].status = contractSubmissions[s].status
  <2>1. ASSUME NEW q \in Requests, NEW status,
               requests[q] # None, requests[q].submission = s,
               requests[q].stage \in {"confirm", "store", "undo", "record"},
               requests[q].newStatus = status
        PROVE  WillRecord(s, status)'
    BY <1>2, <2>1 DEF WillRecord
  <2>. QED
    BY <1>1, <1>2, <1>3, <2>1, ExplainedFrame
<1>4. CASE contractSubmissions'[s].status # contractSubmissions[s].status
  <2>1. /\ contractSubmissions'[s].status = "pending"
        /\ HasRecord(s, {"pending"})
    BY <1>2, <1>4, RunWrites DEF SaveWrite, ScheduledInv
  <2>. QED
    BY <1>1, <2>1 DEF HasRecord, StatusOf
<1>. QED
  BY <1>3, <1>4

\* A handler goes on to record what it wrote.
LEMMA HandlerKeepsHistory ==
    ASSUME PipelineInv, HistoryExplainsStatus, NEW q \in Requests, NotifyStep(q)
    PROVE  HistoryExplainsStatus'
<1>. SUFFICES ASSUME NEW s \in SubmissionIds,
                     contractSubmissions'[s] # None, contractSubmissions'[s].status # "new"
              PROVE  HasRecord(s, {StatusOf(s)})' \/ WillRecord(s, StatusOf(s))'
  BY DEF HistoryExplainsStatus, Stored, StatusOf
<1>1. history \subseteq history'
  BY HistoryGrows DEF Next
<1>2. ASSUME NEW p \in Requests, p # q, NEW status,
             requests[p] # None, requests[p].submission = s,
             requests[p].stage \in {"confirm", "store", "undo", "record"},
             requests[p].newStatus = status
      PROVE  WillRecord(s, status)'
  BY <1>2, HandlerScope DEF WillRecord
<1>3. CASE UpdateProcessing(q) \/ UpdateFail(q) \/ UpdateSuccess(q) \/ UndoSuccess(q)
  <2>1. CASE s = requests[q].submission
    <3>1. /\ requests'[q] # None
          /\ requests'[q].submission = s
          /\ requests'[q].newStatus = contractSubmissions'[s].status
          /\ requests'[q].stage \in {"record", "confirm"}
      BY <1>3, <2>1, HandlerWrites, HandlerScope
    <3>. QED
      BY <3>1 DEF WillRecord, StatusOf
  <2>2. CASE s # requests[q].submission
    <3>1. contractSubmissions'[s] = contractSubmissions[s]
      BY <1>3, <2>2, HandlerScope, HandlerWrites
    <3>2. Stored(s)
      BY <3>1 DEF Stored
    <3>. QED
      BY <1>1, <1>2, <2>2, <3>1, <3>2, ExplainedFrame
  <2>. QED
    BY <2>1, <2>2
<1>4. CASE FindSubmission(q) \/ ConfirmRead(q) \/ StoreContract(q)
  <2>1. /\ UNCHANGED contractSubmissions
        /\ Stored(s)
    BY <1>4, HandlerReads DEF Stored
  <2>2. ASSUME NEW status, requests[q].submission = s,
               requests[q].stage \in {"confirm", "store", "undo", "record"},
               requests[q].newStatus = status
        PROVE  WillRecord(s, status)'
    <3>1. /\ requests'[q] # None
          /\ requests'[q].submission = s
          /\ requests'[q].newStatus = status
          /\ requests'[q].stage \in {"store", "undo", "record"}
      BY <1>4, <2>2, HandlerReads, HandlerScope
    <3>. QED
      BY <3>1 DEF WillRecord
  <2>. QED
    BY <1>1, <1>2, <2>1, <2>2, ExplainedFrame
<1>5. CASE SaveHistory(q)
  <2>1. /\ UNCHANGED contractSubmissions
        /\ Stored(s)
    BY <1>5 DEF SaveHistory, Stored
  <2>2. ASSUME NEW status, requests[q].submission = s, requests[q].newStatus = status
        PROVE  HasRecord(s, {status})'
    <3> DEFINE record == [submissionId |-> s, prevStatus |-> requests[q].prevStatus,
                          newStatus |-> status]
    <3>1. history' = history \cup {record}
      BY <1>5, <2>2 DEF SaveHistory, RecordTransition
    <3>2. record \in history' /\ record.submissionId = s /\ record.newStatus \in {status}
      BY <3>1
    <3>. HIDE DEF record
    <3>. QED
      BY <3>2 DEF HasRecord
  <2>. QED
    BY <1>1, <1>2, <2>1, <2>2, ExplainedFrame
<1>. QED
  BY <1>3, <1>4, <1>5 DEF NotifyStep, HandleNotification

\* Whatever status a row has left `new' for, somebody recorded the transition into
\* it or is about to: through every interleaving of notifications and runs, every
\* crash, lost POST and redelivery, as long as the gateway itself does not fail.
THEOREM HistoryTheorem ==
    ASSUME GatewayHolds
    PROVE  Spec => []HistoryExplainsStatus
<1>1. Init => HistoryExplainsStatus
  BY DEF Init, StoreInit, HistoryExplainsStatus, Stored
<1>2. PipelineInv /\ ScheduledInv /\ HistoryExplainsStatus /\ [Next]_vars
        => HistoryExplainsStatus'
  BY ElsewhereKeepsHistory, RunKeepsHistory, HandlerKeepsHistory DEF Next, Elsewhere
<1>3. PipelineInv /\ ScheduledInv /\ [Next]_vars => ScheduledInv'
  BY ScheduledStep
<1>. QED
  BY <1>1, <1>2, <1>3, ScheduledInit, PipelineInvariant, PTL DEF Spec

-----------------------------------------------------------------------------
(* A success is published.                                                 *)

\* The sources of s are published for its contract.
Published(s) ==
    contracts[ContractOf(s)] # None /\ contracts[ContractOf(s)].submission = s

\* SuccessIsPublished without the operators of the API.
SuccessInv ==
    \A s \in SubmissionIds :
        (Stored(s) /\ StatusOf(s) = "success" /\ ~Confirming(s)) => Published(s)

\* They say the same.
LEMMA SuccessMeans == SuccessInv <=> SuccessIsPublished
<1>1. ASSUME NEW s \in SubmissionIds
      PROVE  (\E contract \in GetVerifiedContracts({ContractOf(s)}) : contract.submission = s)
             <=> Published(s)
  BY DEF GetVerifiedContracts, Published
<1>2. ASSUME NEW s \in SubmissionIds, Stored(s)
      PROVE  ReportedStatus(s) = StatusOf(s)
  BY <1>2 DEF ReportedStatus, CheckSubmissionStatus, ContractOf
<1>. QED
  BY <1>1, <1>2 DEF SuccessIsPublished, SuccessInv

\* What is published stays published.
LEMMA PublishedStays ==
    ASSUME PipelineInv, [Next]_vars, NEW s \in SubmissionIds, Stored(s), Published(s)
    PROVE  Published(s)'
<1>1. contractSubmissions'[s].contractId = contractSubmissions[s].contractId
  BY StepKeepsRows DEF RowsKept
<1>2. \A c \in ContractIds : contracts[c] # None => contracts'[c] = contracts[c]
  <2>1. CASE \E q \in Requests : NotifyStep(q) /\ StoreContract(q)
    BY <2>1 DEF StoreContract, PipelineInv, TypeOK, StoreTypeOK
  <2>2. CASE ~\E q \in Requests : NotifyStep(q) /\ StoreContract(q)
    BY <2>2, HandlerQuiet, RunQuiet, ElsewhereKeepsStatuses DEF Next, Elsewhere, NotifyStep
  <2>. QED
    BY <2>1, <2>2
<1>3. ContractOf(s) \in ContractIds
  BY DEF ContractOf, Stored, PipelineInv, TypeOK, StoreTypeOK, Submission
<1>. QED
  BY <1>1, <1>2, <1>3 DEF Published, ContractOf

\* A handler leaves the success branch by publishing or by taking the success back.
LEMMA HandlerKeepsSuccess ==
    ASSUME PipelineInv, SuccessInv, NEW q \in Requests, NotifyStep(q)
    PROVE  SuccessInv'
<1>. SUFFICES ASSUME NEW s \in SubmissionIds,
                     contractSubmissions'[s] # None,
                     contractSubmissions'[s].status = "success",
                     ~Confirming(s)'
              PROVE  Published(s)'
  BY DEF SuccessInv, Stored, StatusOf
<1>1. CASE requests[q].submission # s
  <2>1. contractSubmissions'[s] = contractSubmissions[s]
    BY <1>1, HandlerScope, HandlerWrites, HandlerReads
    DEF NotifyStep, HandleNotification, SaveHistory
  <2>2. ~Confirming(s)
    BY <1>1, HandlerScope DEF Confirming
  <2>3. Stored(s) /\ Published(s)
    BY <2>1, <2>2 DEF SuccessInv, Stored, StatusOf
  <2>. QED
    BY <2>3, PublishedStays DEF Next
<1>2. CASE requests[q].submission = s
  <2>1. ASSUME UNCHANGED contractSubmissions,
               requests[q].stage \notin {"confirm", "store", "undo"}
        PROVE  Published(s)'
    <3>1. ~Confirming(s)
      BY <1>2, <2>1, HandlerScope DEF Confirming
    <3>2. Stored(s) /\ Published(s)
      BY <2>1, <3>1 DEF SuccessInv, Stored, StatusOf
    <3>. QED
      BY <3>2, PublishedStays DEF Next
  <2>2. CASE UpdateProcessing(q) \/ UpdateFail(q) \/ UpdateSuccess(q) \/ UndoSuccess(q)
    <3>1. /\ requests'[q] # None
          /\ requests'[q].submission = s
          /\ requests'[q].stage = "confirm"
      BY <1>2, <2>2, HandlerWrites, HandlerScope
    <3>. QED
      BY <3>1 DEF Confirming
  <2>3. CASE ConfirmRead(q)
    <3>1. /\ requests'[q] # None
          /\ requests'[q].submission = s
          /\ requests'[q].stage \in {"store", "undo"}
      BY <1>2, <2>3, HandlerReads, HandlerScope
    <3>. QED
      BY <3>1 DEF Confirming
  <2>4. CASE StoreContract(q)
    <3>1. requests'[q].stage = "record"
      BY <1>2, <2>4, HandlerReads, HandlerScope DEF Confirming
    <3>2. /\ s \in SubmissionIds /\ Stored(s)
          /\ contractSubmissions[s].contractId \in ContractIds
          /\ UNCHANGED contractSubmissions
      BY <1>2, <2>4, HandlerScope
      DEF StoreContract, Stored, PipelineInv, TypeOK, StoreTypeOK, Submission
    <3>3. contracts' = [contracts EXCEPT ![contractSubmissions[s].contractId] =
                          [submission |-> s, compiler |-> requests[q].compiler]]
      <4>1. requests' = [requests EXCEPT ![q].stage = "undo"] => requests'[q].stage = "undo"
        BY HandlerScope DEF PipelineInv, TypeOK, TransportTypeOK, Notification
      <4>. QED
        BY <1>2, <2>4, <3>1, <4>1 DEF StoreContract
    <3>4. [submission |-> s, compiler |-> requests[q].compiler] # None
      BY HandlerScope, NoneAssumption DEF Contract, Notification
    <3>. QED
      BY <3>2, <3>3, <3>4 DEF Published, ContractOf, PipelineInv, TypeOK, StoreTypeOK
  <2>5. CASE FindSubmission(q) \/ SaveHistory(q)
    BY <2>1, <2>5 DEF FindSubmission, SaveHistory, InStage, storeVars
  <2>. QED
    BY <2>2, <2>3, <2>4, <2>5 DEF NotifyStep, HandleNotification
<1>. QED
  BY <1>1, <1>2

\* The other steps make no row a success and end no handler.
LEMMA OthersKeepSuccess ==
    ASSUME PipelineInv, ScheduledInv, SuccessInv,
           \/ \E r \in Runs : RunStep(r)
           \/ GatewayHolds /\ Elsewhere
    PROVE  SuccessInv'
<1>. SUFFICES ASSUME NEW s \in SubmissionIds,
                     contractSubmissions'[s] # None,
                     contractSubmissions'[s].status = "success",
                     ~Confirming(s)'
              PROVE  Published(s)'
  BY DEF SuccessInv, Stored, StatusOf
<1>1. Stored(s) /\ contractSubmissions[s].status = "success"
  <2>1. CASE \E r \in Runs : RunStep(r)
    BY <2>1, RunWrites
  <2>2. CASE GatewayHolds /\ Elsewhere
    BY <2>2, ElsewhereKeepsStatuses DEF StatusesKept
  <2>. QED
    BY <2>1, <2>2
<1>2. ~Confirming(s)
  <2>1. CASE \E r \in Runs : RunStep(r)
    <3>1. UNCHANGED requests
      BY <2>1 DEF RunStep, transportVars
    <3>. QED
      BY <3>1 DEF Confirming
  <2>2. CASE GatewayHolds /\ Elsewhere
    BY <2>2, ElsewhereKeepsServing DEF ServingKept, Serving, Confirming
  <2>. QED
    BY <2>1, <2>2
<1>3. Published(s)
  BY <1>1, <1>2 DEF SuccessInv, StatusOf
<1>. QED
  BY <1>1, <1>3, PublishedStays DEF Next, Elsewhere

\* A user who is told `success' finds the sources of that very submission published,
\* except while the handler that wrote the status is still at work: whatever
\* notifications and runs do in between and whatever workers and the broker do, as
\* long as the gateway itself does not fail.
THEOREM SuccessTheorem ==
    ASSUME GatewayHolds
    PROVE  Spec => []SuccessIsPublished
<1>1. Init => SuccessInv
  BY DEF Init, StoreInit, Stored, SuccessInv
<1>2. PipelineInv /\ ScheduledInv /\ SuccessInv /\ [Next]_vars => SuccessInv'
  BY HandlerKeepsSuccess, OthersKeepSuccess DEF Next, Elsewhere
<1>3. PipelineInv /\ ScheduledInv /\ [Next]_vars => ScheduledInv'
  BY ScheduledStep
<1>. QED
  BY <1>1, <1>2, <1>3, SuccessMeans, ScheduledInit, PipelineInvariant, PTL DEF Spec
=============================================================================
