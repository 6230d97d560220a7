--------------------------- MODULE RegistryProofs ---------------------------
(***************************************************************************)
(* Why only genuine sources are ever published.  As long as no connection  *)
(* to the broker breaks, prefetchCount 1 and the late ack keep the handlers *)
(* of a process apart (DeliveriesInv).  Handlers that are kept apart find   *)
(* in the shared directory what they put there, so a success is about       *)
(* genuine sources (SandboxInv).  Then every step of the pipeline is a step *)
(* of the abstract registry, or none.                                       *)
(***************************************************************************)
EXTENDS PipelineProofs

USE DEF workerVars

\* No connection between a worker and the broker breaks.
ConnectionsHold == Faults \cap {"connectionLost", "brokerRestart"} = {}

-----------------------------------------------------------------------------
(* Deliveries.                                                             *)

\* Steps that end handlers or leave them where they are keep deliveries apart.
LEMMA DeliveriesFrame ==
    ASSUME DeliveriesInv,
           \A h \in Handlers : handlers'[h] = IdleHandler \/
               (handlers'[h].held = handlers[h].held /\
                (handlers'[h].pc # "idle" => handlers[h].pc # "idle"))
    PROVE  DeliveriesInv'
BY DEF DeliveriesInv, IdleHandler

\* A delivery goes to a process that has none.
LEMMA TakeTaskKeepsDeliveries ==
    ASSUME TypeOK, DeliveriesInv, NEW h \in Handlers, TakeTask(h) \/ TakeTaskUnsigned(h)
    PROVE  DeliveriesInv'
<1>1. PICK s \in SubmissionIds, pc \in {"started", "wedged"} :
        handlers' = [handlers EXCEPT ![h] = [pc |-> pc, task |-> s, held |-> TRUE]]
  BY DEF TakeTask, TakeTaskUnsigned
<1>2. MayReceive(WorkerOf[h])
  BY DEF TakeTask, TakeTaskUnsigned
<1>. QED
  BY <1>1, <1>2 DEF DeliveriesInv, MayReceive, TypeOK, WorkerTypeOK

\* Every step keeps deliveries apart while connections hold.
LEMMA DeliveriesStep ==
    ASSUME TypeOK, DeliveriesInv, ConnectionsHold, [Next]_vars
    PROVE  DeliveriesInv'
<1>1. CASE \E s \in SubmissionIds : ApiStep(s) \/ PublishTask(s)
  BY <1>1, DeliveriesFrame DEF ApiStep, PublishTask
<1>2. CASE \E r \in Runs : RunStep(r)
  BY <1>2, DeliveriesFrame DEF RunStep
<1>3. CASE \E q \in Requests : NotifyStep(q)
  BY <1>3, DeliveriesFrame DEF NotifyStep
<1>4. ASSUME NEW w, NEW lost, CrashLosing(w, lost)
      PROVE  DeliveriesInv'
  BY <1>4, DeliveriesFrame DEF CrashLosing
<1>5. CASE \E q \in Requests : ErrorStep(q)
  BY <1>4, <1>5 DEF ErrorStep, NotifyError
<1>6. CASE \E h \in Handlers : WorkerStep(h)
  <2>1. PICK h \in Handlers : WorkerStep(h)
    BY <1>6
  <2>2. CASE TakeTask(h) \/ TakeTaskUnsigned(h)
    BY <2>2, TakeTaskKeepsDeliveries
  <2>3. CASE ClearDirectory(h) \/ WriteFiles(h) \/ Report(h) \/ Ack(h)
    BY <2>3, DeliveriesFrame
    DEF ClearDirectory, WriteFiles, Report, Ack, Verifying, TypeOK, WorkerTypeOK, Handler
  <2>. QED
    BY <2>1, <2>2, <2>3 DEF WorkerStep
<1>7. CASE FaultStep
  <2>1. \/ \E w \in Workers : \E lost \in LosablePosts(w) : WorkerCrash(w, lost)
        \/ UNCHANGED handlers
    BY <1>7
    DEF FaultStep, WorkerFault, ConnectionsHold, BrokerRestart, NetworkFault, StoreFault,
        GatewayCrash
  <2>. QED
    BY <1>4, <2>1, DeliveriesFrame DEF WorkerCrash
<1>8. CASE UNCHANGED vars
  BY <1>8, DeliveriesFrame DEF vars
<1>. QED
  BY <1>1, <1>2, <1>3, <1>5, <1>6, <1>7, <1>8 DEF Next

\* The prefetch limit serialises the handlers of a process: no two are at work in
\* its directory at a time, as long as no connection to the broker breaks.
THEOREM PrefetchSerialises ==
    ASSUME ConnectionsHold
    PROVE  Spec => []TasksComeOneByOne
<1>1. Init => DeliveriesInv
  BY DEF Init, WorkerInit, IdleHandler, DeliveriesInv
<1>2. TypeOK /\ DeliveriesInv /\ [Next]_vars => DeliveriesInv'
  BY DeliveriesStep
<1>3. DeliveriesInv => TasksComeOneByOne
  BY DEF DeliveriesInv, TasksComeOneByOne, Verifying
<1>. QED
  BY <1>1, <1>2, <1>3, TypeCorrect, PTL DEF Spec

-----------------------------------------------------------------------------
(* What a step does to rows and to published contracts.                    *)

\* The other steps of the handler are quiet.
LEMMA HandlerQuiet ==
    ASSUME PipelineInv, NEW q \in Requests, HandleNotification(q), ~StoreContract(q)
    PROVE  RowsKept /\ NoNewRow /\ UNCHANGED contracts
<1>1. requests[q] # None =>
        /\ requests[q].submission \in SubmissionIds
        /\ Stored(requests[q].submission)
  BY NotificationInSlot DEF PipelineInv, NotificationsInv
<1>2. CASE UpdateProcessing(q) \/ UpdateFail(q) \/ UpdateSuccess(q)
  BY <1>1, <1>2, UpdateKeepsRows
  DEF PipelineInv, UpdateProcessing, UpdateFail, UpdateSuccess, UpdateStatus, InStage,
      VerificationStatus, NullableColumns
<1>3. CASE UndoSuccess(q)
  BY <1>1, <1>3, UpdateKeepsRows
  DEF PipelineInv, UndoSuccess, InStage, VerificationStatus, NullableColumns
<1>4. CASE FindSubmission(q) \/ ConfirmRead(q) \/ SaveHistory(q)
  BY <1>4, RowsUnchanged DEF FindSubmission, ConfirmRead, SaveHistory, storeVars
<1>. QED
  BY <1>2, <1>3, <1>4 DEF HandleNotification

\* So is every step of a run: save changes no claim.
LEMMA RunQuiet ==
    ASSUME PipelineInv, NEW r \in Runs, RunStep(r)
    PROVE  RowsKept /\ NoNewRow /\ UNCHANGED contracts
<1>1. CASE SaveWrite(r)
  <2> DEFINE s == runs[r].current
  <2>1. /\ s \in SubmissionIds
        /\ Stored(s)
        /\ runs[r].batch[s] \in Submission
        /\ runs[r].loaded \in Submission
    BY <1>1 DEF SaveWrite, PipelineInv, RunsInv, TypeOK, SchedulerTypeOK, Run
  <2>2. SaveSubmission(s, runs[r].batch[s], runs[r].loaded) /\ UNCHANGED contracts
    BY <1>1 DEF SaveWrite
  <2>. QED
    BY <2>1, <2>2, SaveKeepsRows DEF PipelineInv
<1>2. CASE ~SaveWrite(r)
  BY <1>2, RowsUnchanged
  DEF RunStep, CronFires, EmitTask, RecordPending, SaveLoad, storeVars
<1>. QED
  BY <1>1, <1>2

\* Workers, the broker, errors and faults write no table.
LEMMA OutsideQuiet ==
    ASSUME \/ \E s \in SubmissionIds : PublishTask(s)
           \/ \E q \in Requests : ErrorStep(q)
           \/ \E h \in Handlers : WorkerStep(h)
           \/ FaultStep
           \/ UNCHANGED vars
    PROVE  RowsKept /\ NoNewRow /\ UNCHANGED contracts
<1>1. UNCHANGED storeVars
  BY DEF PublishTask, ErrorStep, NotifyError, WorkerStep, TakeTask, TakeTaskUnsigned, Report,
         ClearDirectory, WriteFiles, Ack, FaultStep, WorkerFault, WorkerCrash, CrashLosing, ConnectionLost,
         BrokerRestart, NetworkFault, StoreFault, RunAborts, StatementFails, GatewayCrash, vars
<1>. QED
  BY <1>1, RowsUnchanged DEF storeVars

\* No step loses a row or changes a claim.
LEMMA StepKeepsRows ==
    ASSUME PipelineInv, [Next]_vars
    PROVE  RowsKept
<1>1. ASSUME NEW s \in SubmissionIds, ApiStep(s)
      PROVE  RowsKept
  <2>1. CASE SubmitStore(s)
    BY <2>1 DEF SubmitStore, PipelineInv, TypeOK, StoreTypeOK, IntakeInv, RowsKept, Stored
  <2>2. CASE ~SubmitStore(s)
    BY <1>1, <2>2, RowsUnchanged DEF ApiStep, SettlePost, SubmitCheck, SubmitReject, storeVars
  <2>. QED
    BY <2>1, <2>2
<1>2. ASSUME NEW q \in Requests, NotifyStep(q)
      PROVE  RowsKept
  <2>1. CASE StoreContract(q)
    BY <2>1, RowsUnchanged DEF StoreContract
  <2>. QED
    BY <1>2, <2>1, HandlerQuiet DEF NotifyStep
<1>. QED
  BY <1>1, <1>2, RunQuiet, OutsideQuiet DEF Next

-----------------------------------------------------------------------------
(* The directory and the verdicts.                                         *)

\* No notification of a success is new.
NoNewSuccess ==
    \A q \in Requests :
        (requests'[q] # None /\ requests'[q].status = "success") =>
            /\ requests[q] # None
            /\ requests[q].status = "success"
            /\ requests'[q].submission = requests[q].submission

\* No handler got further with its directory, and no directory was touched.
DirectoriesKept ==
    /\ UNCHANGED directory
    /\ \A h \in Handlers : handlers'[h].pc \in {"cleared", "written"} =>
           handlers'[h].pc = handlers[h].pc /\ handlers'[h].task = handlers[h].task

\* Such steps keep the invariant.
LEMMA SandboxFrame ==
    ASSUME PipelineInv, SandboxInv, RowsKept, NoNewSuccess, DirectoriesKept
    PROVE  SandboxInv'
<1>1. ASSUME NEW q \in Requests, requests'[q] # None, requests'[q].status = "success"
      PROVE  contractSubmissions'[requests'[q].submission].genuine
  <2>1. /\ requests[q] # None
        /\ requests[q].status = "success"
        /\ requests'[q].submission = requests[q].submission
    BY <1>1 DEF NoNewSuccess
  <2>2. /\ requests[q].submission \in SubmissionIds
        /\ Stored(requests[q].submission)
        /\ contractSubmissions[requests[q].submission].genuine
    BY <2>1, NotificationInSlot DEF PipelineInv, NotificationsInv, SandboxInv
  <2>. QED
    BY <2>1, <2>2 DEF RowsKept
<1>. QED
  BY <1>1 DEF SandboxInv, DirectoriesKept

\* Steps that move one notification on, or out, report nothing new.
LEMMA MovedOn ==
    ASSUME TypeOK, NEW q \in Requests, requests[q] # None, NEW n,
           requests' = [requests EXCEPT ![q] = n],
           n = None \/ (n.status = requests[q].status /\ n.submission = requests[q].submission)
    PROVE  NoNewSuccess
BY DEF NoNewSuccess, TypeOK, TransportTypeOK

\* The steps of a notification's handler.
LEMMA HandlerReportsNothing ==
    ASSUME TypeOK, NEW q \in Requests, HandleNotification(q)
    PROVE  NoNewSuccess
<1>1. requests[q] # None /\ requests[q] \in Notification
  BY NotificationInSlot
  DEF HandleNotification, FindSubmission, UpdateProcessing, UpdateFail, UpdateSuccess,
      UpdateStatus, ConfirmRead, StoreContract, UndoSuccess, SaveHistory, InStage
<1>2. PICK n :
        /\ requests' = [requests EXCEPT ![q] = n]
        /\ n = None \/ (n.status = requests[q].status /\ n.submission = requests[q].submission)
  <2>1. CASE FindSubmission(q)
    <3> DEFINE n == [requests[q] EXCEPT !.stage = "found",
                                        !.prevStatus = StatusOf(requests[q].submission)]
    <3>1. requests' = [requests EXCEPT ![q] = n]
      BY <2>1 DEF FindSubmission, TypeOK, TransportTypeOK
    <3>2. n.status = requests[q].status /\ n.submission = requests[q].submission
      BY <1>1 DEF Notification
    <3>. QED
      BY <3>1, <3>2
  <2>2. CASE UpdateProcessing(q) \/ UpdateFail(q) \/ UpdateSuccess(q)
    <3>1. PICK status \in VerificationStatus, stage \in Stages :
            requests' = [requests EXCEPT ![q].stage = stage, ![q].newStatus = status]
      BY <2>2 DEF UpdateProcessing, UpdateFail, UpdateSuccess, UpdateStatus,
                  VerificationStatus, Stages
    <3> DEFINE n == [requests[q] EXCEPT !.stage = stage, !.newStatus = status]
    <3>2. requests' = [requests EXCEPT ![q] = n]
      BY <3>1 DEF TypeOK, TransportTypeOK
    <3>3. n.status = requests[q].status /\ n.submission = requests[q].submission
      BY <1>1 DEF Notification
    <3>. QED
      BY <3>2, <3>3
  <2>3. CASE ConfirmRead(q)
    <3>1. PICK stage, compiler :
            requests' = [requests EXCEPT ![q].stage = stage, ![q].compiler = compiler]
      BY <2>3 DEF ConfirmRead
    <3> DEFINE n == [requests[q] EXCEPT !.stage = stage, !.compiler = compiler]
    <3>2. requests' = [requests EXCEPT ![q] = n]
      BY <3>1 DEF TypeOK, TransportTypeOK
    <3>3. n.status = requests[q].status /\ n.submission = requests[q].submission
      BY <1>1 DEF Notification
    <3>. QED
      BY <3>2, <3>3
  <2>4. CASE StoreContract(q)
    <3>1. PICK stage \in Stages : requests' = [requests EXCEPT ![q].stage = stage]
      BY <2>4 DEF StoreContract, Stages
    <3> DEFINE n == [requests[q] EXCEPT !.stage = stage]
    <3>2. requests' = [requests EXCEPT ![q] = n]
      BY <3>1 DEF TypeOK, TransportTypeOK
    <3>3. n.status = requests[q].status /\ n.submission = requests[q].submission
      BY <1>1 DEF Notification
    <3>. QED
      BY <3>2, <3>3
  <2>5. CASE UndoSuccess(q)
    <3> DEFINE n == [requests[q] EXCEPT !.stage = "record", !.newStatus = "fail"]
    <3>1. requests' = [requests EXCEPT ![q] = n]
      BY <2>5 DEF UndoSuccess, TypeOK, TransportTypeOK
    <3>2. n.status = requests[q].status /\ n.submission = requests[q].submission
      BY <1>1 DEF Notification
    <3>. QED
      BY <3>1, <3>2
  <2>6. CASE SaveHistory(q)
    BY <2>6 DEF SaveHistory
  <2>. QED
    BY <2>1, <2>2, <2>3, <2>4, <2>5, <2>6 DEF HandleNotification
<1>. QED
  BY <1>1, <1>2, MovedOn

\* Errors, crashes and refusals report nothing new.
LEMMA FaultsReportNothing ==
    ASSUME TypeOK,
           \A q \in Requests :
               \/ requests'[q] = None
               \/ requests'[q] = requests[q]
               \/ requests[q] # None /\ requests'[q] = Failed(requests[q])
               \/ requests[q] # None /\ requests'[q] = [requests[q] EXCEPT !.worker = None]
               \/ requests[q] # None /\
                  requests'[q] = [requests[q] EXCEPT !.stage = "undo", !.newStatus = "success"]
    PROVE  NoNewSuccess
<1>. SUFFICES ASSUME NEW q \in Requests, requests'[q] # None, requests'[q].status = "success"
              PROVE  /\ requests[q] # None
                     /\ requests[q].status = "success"
                     /\ requests'[q].submission = requests[q].submission
  BY DEF NoNewSuccess
<1>1. CASE requests'[q] = requests[q]
  BY <1>1
<1>2. CASE requests'[q] # requests[q]
  <2>1. requests[q] # None /\ requests[q] \in Notification
    BY <1>2, NotificationInSlot
  <2>. QED
    BY <1>2, <2>1 DEF Failed, Notification
<1>. QED
  BY <1>1, <1>2

\* A process that dies keeps the invariant.
LEMMA CrashKeepsSandbox ==
    ASSUME PipelineInv, SandboxInv, NEW w, NEW lost, CrashLosing(w, lost)
    PROVE  SandboxInv'
<1>1. NoNewSuccess
  BY FaultsReportNothing DEF CrashLosing, PipelineInv
<1>2. DirectoriesKept
  BY DEF CrashLosing, DirectoriesKept, IdleHandler
<1>. QED
  BY <1>1, <1>2, SandboxFrame, RowsUnchanged DEF CrashLosing, storeVars

\* A step outside the tables and the directories that reports nothing new.
LEMMA FaultFrame ==
    ASSUME PipelineInv, SandboxInv, UNCHANGED <<storeVars, directory>>, NoNewSuccess,
           \A h \in Handlers : handlers'[h] = IdleHandler \/
               (handlers'[h].pc = handlers[h].pc /\ handlers'[h].task = handlers[h].task)
    PROVE  SandboxInv'
<1>1. DirectoriesKept
  BY DEF DirectoriesKept, IdleHandler
<1>. QED
  BY <1>1, SandboxFrame, RowsUnchanged DEF storeVars

\* So does every fault.
LEMMA FaultKeepsSandbox ==
    ASSUME PipelineInv, SandboxInv, FaultStep
    PROVE  SandboxInv'
<1>. USE DEF PipelineInv
<1>1. CASE WorkerFault
  <2>1. ASSUME NEW w \in Workers, ConnectionLost(w)
        PROVE  SandboxInv'
    <3>1. NoNewSuccess
      BY <2>1 DEF ConnectionLost, NoNewSuccess
    <3>2. \A h \in Handlers : handlers'[h] = IdleHandler \/
            (handlers'[h].pc = handlers[h].pc /\ handlers'[h].task = handlers[h].task)
      BY <2>1 DEF ConnectionLost, TypeOK, WorkerTypeOK, Handler
    <3>. QED
      BY <2>1, <3>1, <3>2, FaultFrame DEF ConnectionLost
  <2>. QED
    BY <1>1, <2>1, CrashKeepsSandbox DEF WorkerFault, WorkerCrash
<1>2. CASE BrokerRestart
  <2>1. NoNewSuccess
    BY <1>2 DEF BrokerRestart, NoNewSuccess
  <2>2. \A h \in Handlers : handlers'[h] = IdleHandler \/
          (handlers'[h].pc = handlers[h].pc /\ handlers'[h].task = handlers[h].task)
    BY <1>2 DEF BrokerRestart, TypeOK, WorkerTypeOK, Handler
  <2>. QED
    BY <1>2, <2>1, <2>2, FaultFrame DEF BrokerRestart
<1>3. CASE NetworkFault
  <2>1. PICK q \in Requests : RejectNotification(q)
    BY <1>3 DEF NetworkFault
  <2>2. NoNewSuccess
    BY <2>1, FaultsReportNothing
    DEF RejectNotification, InStage, TypeOK, TransportTypeOK
  <2>. QED
    BY <1>3, <2>2, FaultFrame DEF NetworkFault
<1>4. CASE StoreFault
  <2>1. CASE \E r \in Runs : RunAborts(r) /\ UNCHANGED <<transportVars, workerVars>>
    <3>1. NoNewSuccess
      BY <2>1 DEF NoNewSuccess, transportVars
    <3>. QED
      BY <2>1, <3>1, FaultFrame DEF RunAborts
  <2>2. CASE \E q \in Requests : StatementFails(q) /\ UNCHANGED workerVars
    <3>1. NoNewSuccess
      BY <2>2, FaultsReportNothing
      DEF StatementFails, InStage, TypeOK, TransportTypeOK
    <3>. QED
      BY <2>2, <3>1, FaultFrame DEF StatementFails
  <2>. QED
    BY <1>4, <2>1, <2>2 DEF StoreFault
<1>5. CASE GatewayCrash
  <2>1. NoNewSuccess
    BY <1>5, FaultsReportNothing DEF GatewayCrash
  <2>. QED
    BY <1>5, <2>1, FaultFrame DEF GatewayCrash
<1>. QED
  BY <1>1, <1>2, <1>3, <1>4, <1>5 DEF FaultStep

\* A handler that is alone in its process finds in the directory what it put there.
LEMMA WorkerStepKeepsSandbox ==
    ASSUME PipelineInv, SandboxInv, TasksComeOneByOne, NEW h \in Handlers, WorkerStep(h)
    PROVE  SandboxInv'
<1>. USE DEF PipelineInv
<1>1. UNCHANGED storeVars
  BY DEF WorkerStep, TakeTask, TakeTaskUnsigned, ClearDirectory, WriteFiles, Report, Ack
<1>2. RowsKept
  BY <1>1, RowsUnchanged DEF storeVars
<1>3. CASE TakeTask(h) \/ TakeTaskUnsigned(h) \/ Ack(h)
  <2>1. DirectoriesKept
    BY <1>3 DEF TakeTask, TakeTaskUnsigned, Ack, DirectoriesKept, IdleHandler, TypeOK,
                WorkerTypeOK
  <2>2. NoNewSuccess
    BY <1>3 DEF TakeTask, TakeTaskUnsigned, Ack, Post, NoNewSuccess, transportVars, TypeOK,
                TransportTypeOK
  <2>. QED
    BY <1>2, <2>1, <2>2, SandboxFrame
<1>4. CASE ClearDirectory(h) \/ WriteFiles(h)
  <2>1. ASSUME NEW g \in Handlers, g # h, handlers'[g].pc \in {"cleared", "written"}
        PROVE  /\ handlers'[g] = handlers[g]
               /\ WorkerOf[g] # WorkerOf[h]
    BY <1>4, <2>1 DEF ClearDirectory, WriteFiles, TasksComeOneByOne, Verifying, TypeOK,
                      WorkerTypeOK
  <2>2. \A w \in Workers : w # WorkerOf[h] => directory'[w] = directory[w]
    BY <1>4 DEF ClearDirectory, WriteFiles, TypeOK, WorkerTypeOK
  <2>3. /\ handlers'[h].pc = "cleared" => directory'[WorkerOf[h]] = {}
        /\ handlers'[h].pc = "written" => directory'[WorkerOf[h]] = {handlers'[h].task}
    BY <1>4, WorkerAssumption
    DEF ClearDirectory, WriteFiles, SandboxInv, TypeOK, WorkerTypeOK, Handler
  <2>4. UNCHANGED <<requests, contractSubmissions>>
    BY <1>4 DEF ClearDirectory, WriteFiles, storeVars, transportVars
  <2>. QED
    BY <2>1, <2>2, <2>3, <2>4, WorkerAssumption DEF SandboxInv
<1>5. CASE Report(h)
  <2> DEFINE s == handlers[h].task
  <2>1. PICK verdict \in PossibleVerdicts(h), q \in Requests :
          Post(q, WorkerOf[h], s, verdict)
    BY <1>5 DEF Report
  <2>2. verdict = "success" => contractSubmissions[s].genuine
    BY <2>1 DEF PossibleVerdicts, MayValidate, SandboxInv
  <2>3. ASSUME NEW p \in Requests, requests'[p] # None, requests'[p].status = "success"
        PROVE  contractSubmissions'[requests'[p].submission].genuine
    BY <1>1, <2>1, <2>2, <2>3 DEF Post, SandboxInv, TypeOK, TransportTypeOK, storeVars
  <2>4. DirectoriesKept
    BY <1>5 DEF Report, DirectoriesKept, TypeOK, WorkerTypeOK
  <2>. QED
    BY <2>3, <2>4 DEF SandboxInv, DirectoriesKept
<1>. QED
  BY <1>3, <1>4, <1>5 DEF WorkerStep

\* Every step keeps the invariant, in a process whose handlers are kept apart.
LEMMA SandboxStep ==
    ASSUME PipelineInv, SandboxInv, TasksComeOneByOne, [Next]_vars
    PROVE  SandboxInv'
<1>1. CASE \E s \in SubmissionIds : ApiStep(s) \/ PublishTask(s)
  <2>1. UNCHANGED <<requests, workerVars>>
    BY <1>1 DEF ApiStep, PublishTask, transportVars
  <2>. QED
    BY <2>1, StepKeepsRows, SandboxFrame DEF NoNewSuccess, DirectoriesKept
<1>2. CASE \E r \in Runs : RunStep(r)
  BY <1>2, StepKeepsRows, SandboxFrame
  DEF RunStep, NoNewSuccess, DirectoriesKept, transportVars
<1>3. CASE \E q \in Requests : NotifyStep(q)
  BY <1>3, StepKeepsRows, HandlerReportsNothing, SandboxFrame
  DEF NotifyStep, DirectoriesKept, PipelineInv
<1>4. CASE \E q \in Requests : ErrorStep(q)
  BY <1>4, CrashKeepsSandbox DEF ErrorStep, NotifyError
<1>5. CASE \E h \in Handlers : WorkerStep(h)
  BY <1>5, WorkerStepKeepsSandbox
<1>6. CASE FaultStep
  BY <1>6, FaultKeepsSandbox
<1>7. CASE UNCHANGED vars
  BY <1>7, StepKeepsRows, SandboxFrame
  DEF vars, NoNewSuccess, DirectoriesKept, transportVars
<1>. QED
  BY <1>1, <1>2, <1>3, <1>4, <1>5, <1>6, <1>7 DEF Next

\* Verdicts are sound: where the tasks of a process come one by one, the directory
\* holds the handler's own files and a success is about genuine sources.
THEOREM VerdictsAreSound == Spec /\ []TasksComeOneByOne => []SandboxInv
<1>1. Init => SandboxInv
  BY DEF Init, WorkerInit, TransportInit, IdleHandler, SandboxInv
<1>2. PipelineInv /\ SandboxInv /\ TasksComeOneByOne /\ [Next]_vars => SandboxInv'
  BY SandboxStep
<1>. QED
  BY <1>1, <1>2, PipelineInvariant, PTL DEF Spec

-----------------------------------------------------------------------------
(* The pipeline implements the abstract registry.                          *)

\* A step that keeps every claim, adds none and publishes nothing is a stutter.
LEMMA QuietStep ==
    ASSUME RowsKept, NoNewRow, UNCHANGED contracts
    PROVE  UNCHANGED Registry!registryVars
<1>1. ASSUME NEW s \in SubmissionIds
      PROVE  (IF contractSubmissions'[s] # None
              THEN [contractId |-> contractSubmissions'[s].contractId,
                    genuine    |-> contractSubmissions'[s].genuine]
              ELSE None)
             = (IF contractSubmissions[s] # None
                THEN [contractId |-> contractSubmissions[s].contractId,
                      genuine    |-> contractSubmissions[s].genuine]
                ELSE None)
  BY DEF RowsKept, NoNewRow, Stored
<1>. QED
  BY <1>1 DEF Registry!registryVars, Stored

\* The insert of a submission is the claim.
LEMMA SubmitStoreClaims ==
    ASSUME PipelineInv, NEW s \in SubmissionIds, SubmitStore(s)
    PROVE  Registry!Submit(s)
<1> DEFINE claim == [contractId |-> intake[s].contractId, genuine |-> intake[s].genuine]
           row == [contractId |-> intake[s].contractId, genuine |-> intake[s].genuine,
                   status |-> "new", filled |-> {}]
<1>1. /\ ~Stored(s)
      /\ intake[s] \in Claim
  BY DEF SubmitStore, PipelineInv, IntakeInv, TypeOK, IntakeTypeOK
<1>2. claim \in Registry!Claim
  BY <1>1 DEF Claim, Registry!Claim
<1>3. row \in Submission /\ row # None
  BY <1>1, NoneAssumption DEF Claim, Submission, VerificationStatus
<1>4. contractSubmissions' = [contractSubmissions EXCEPT ![s] = row]
  BY DEF SubmitStore
<1>5. row.contractId = claim.contractId /\ row.genuine = claim.genuine
  OBVIOUS
<1>6. claim = [contractId |-> row.contractId, genuine |-> row.genuine]
  OBVIOUS
<1>. HIDE DEF row
<1>7. \A t \in SubmissionIds :
        contractSubmissions'[t] = IF t = s THEN row ELSE contractSubmissions[t]
  BY <1>4 DEF PipelineInv, TypeOK, StoreTypeOK
<1>8. UNCHANGED contracts
  BY DEF SubmitStore
<1>. QED
  BY <1>1, <1>2, <1>3, <1>6, <1>7, <1>8 DEF Registry!Submit, Stored

\* The insert of a contract publishes; a refused one does nothing.
LEMMA StoreContractPublishes ==
    ASSUME PipelineInv, SandboxInv, NEW q \in Requests, StoreContract(q),
           NEW s \in SubmissionIds, s = requests[q].submission
    PROVE  Registry!Publish(s) \/ UNCHANGED Registry!registryVars
<1> DEFINE c == contractSubmissions[s].contractId
           contract == [submission |-> s, compiler |-> requests[q].compiler]
<1>1. CASE contracts[c] # None
  BY <1>1, QuietStep, RowsUnchanged DEF StoreContract
<1>2. CASE contracts[c] = None
  <2>1. /\ contracts' = [contracts EXCEPT ![c] = contract]
        /\ UNCHANGED contractSubmissions
    BY <1>2 DEF StoreContract
  <2>2. /\ requests[q] # None
        /\ requests[q] \in Notification
    BY NotificationInSlot DEF StoreContract, InStage, PipelineInv
  <2>3. /\ Stored(s)
        /\ contractSubmissions[s].genuine
        /\ c \in ContractIds
    BY <2>2 DEF StoreContract, InStage, PipelineInv, NotificationsInv, SandboxInv, TypeOK, StoreTypeOK,
                Stored, Submission
  <2>4. contract # None /\ contract.submission = s
    BY <2>2, NoneAssumption DEF Contract, Notification
  <2>. HIDE DEF contract
  <2>5. \A d \in ContractIds :
          contracts'[d] = IF d = c THEN contract ELSE contracts[d]
    BY <2>1, <2>3 DEF PipelineInv, TypeOK, StoreTypeOK
  <2>6. [contractId |-> c, genuine |-> contractSubmissions[s].genuine] # None
    <3>1. contractSubmissions[s].genuine \in BOOLEAN
      BY <2>2, <2>3 DEF PipelineInv, TypeOK, StoreTypeOK, Stored, Submission
    <3>2. [contractId |-> c, genuine |-> contractSubmissions[s].genuine] \in Claim
      BY <2>3, <3>1 DEF Claim
    <3>. QED
      BY <3>2, IntakeAssumption
  <2>7. [d \in ContractIds |->
           IF contracts'[d] = None THEN None ELSE contracts'[d].submission]
        = [[d \in ContractIds |->
              IF contracts[d] = None THEN None ELSE contracts[d].submission]
           EXCEPT ![c] = s]
    <3>1. ASSUME NEW d \in ContractIds
          PROVE  (IF contracts'[d] = None THEN None ELSE contracts'[d].submission)
                 = IF d = c THEN s
                   ELSE IF contracts[d] = None THEN None ELSE contracts[d].submission
      BY <2>4, <2>5
    <3>. QED
      BY <2>3, <3>1
  <2>. QED
    BY <1>2, <2>1, <2>2, <2>3, <2>6, <2>7 DEF Registry!Publish, Stored
<1>. QED
  BY <1>1, <1>2

\* Every step of the pipeline is a step of the registry, or none.
LEMMA RegistryStep ==
    ASSUME PipelineInv, SandboxInv, [Next]_vars
    PROVE  [Registry!Next]_(Registry!registryVars)
<1>1. CASE \E s \in SubmissionIds : ApiStep(s)
  <2>1. PICK s \in SubmissionIds : ApiStep(s)
    BY <1>1
  <2>2. CASE SubmitStore(s)
    BY <2>2, SubmitStoreClaims DEF Registry!Next
  <2>3. CASE ~SubmitStore(s)
    <3>1. UNCHANGED <<contractSubmissions, contracts>>
      BY <2>1, <2>3 DEF ApiStep, SettlePost, SubmitCheck, SubmitReject, storeVars
    <3>. QED
      BY <3>1, RowsUnchanged, QuietStep
  <2>. QED
    BY <2>2, <2>3
<1>2. CASE \E r \in Runs : RunStep(r)
  BY <1>2, RunQuiet, QuietStep
<1>3. CASE \E q \in Requests : NotifyStep(q)
  <2>1. PICK q \in Requests : NotifyStep(q)
    BY <1>3
  <2>2. CASE StoreContract(q)
    <3>1. PICK s \in SubmissionIds : s = requests[q].submission
      BY <2>2, NotificationInSlot DEF StoreContract, InStage, PipelineInv
    <3>2. Registry!Publish(s) \/ UNCHANGED Registry!registryVars
      BY <2>2, <3>1, StoreContractPublishes
    <3>. QED
      BY <3>2 DEF Registry!Next
  <2>3. CASE ~StoreContract(q)
    BY <2>1, <2>3, HandlerQuiet, QuietStep DEF NotifyStep
  <2>. QED
    BY <2>2, <2>3
<1>4. CASE \/ \E s \in SubmissionIds : PublishTask(s)
           \/ \E q \in Requests : ErrorStep(q)
           \/ \E h \in Handlers : WorkerStep(h)
           \/ FaultStep
           \/ UNCHANGED vars
  BY <1>4, OutsideQuiet, QuietStep
<1>. QED
  BY <1>1, <1>2, <1>3, <1>4 DEF Next

\* Nothing but genuine sources is ever published, the first ones published for a
\* contract stay for ever, and claims never change: where the tasks of a process
\* come one by one, the pipeline behaves like the abstract registry, whatever
\* crashes, fails or is reordered.
THEOREM PipelineImplementsRegistry ==
    Spec /\ []TasksComeOneByOne => ImplementsRegistry
<1>1. Init => Registry!Init
  BY DEF Init, StoreInit, Stored, Registry!Init
<1>2. PipelineInv /\ SandboxInv /\ [Next]_vars => [Registry!Next]_(Registry!registryVars)
  BY RegistryStep
<1>. QED
  BY <1>1, <1>2, PipelineInvariant, VerdictsAreSound, PTL
  DEF Spec, ImplementsRegistry, Registry!Spec

\* With prefetchCount 1 they do come one by one while connections hold.
COROLLARY RegistryWhileConnectionsHold ==
    ASSUME ConnectionsHold
    PROVE  Spec => ImplementsRegistry
BY PrefetchSerialises, PipelineImplementsRegistry, PTL
=============================================================================
