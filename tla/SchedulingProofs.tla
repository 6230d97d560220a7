--------------------------- MODULE SchedulingProofs ---------------------------
(***************************************************************************)
(* What holds because the runs of the cron job do not overlap: save loads  *)
(* a row, compares it with an entity that may be minutes old and writes    *)
(* the columns that differ; and the status is all that tells the next run  *)
(* that a task was emitted.                                                *)
(***************************************************************************)
EXTENDS OutcomeProofs

USE DEF workerVars

\* The job takes less than the 30 seconds until it fires again.
OneRun == \A r1, r2 \in Runs : r1 = r2

-----------------------------------------------------------------------------
(* Save never meets a row that is already pending.                         *)

\* No other hand makes a row pending while a run has it in its batch: so save
\* finds a status to change, and writes it.
StaleInv ==
    \A r \in Runs :
        /\ \A s \in SubmissionIds :
             runs[r].batch[s] # None => contractSubmissions[s].status # "pending"
        /\ runs[r].pc = "write" => runs[r].loaded.status # "pending"

\* The run's own steps: the row it makes pending has left its batch.
LEMMA RunKeepsStale ==
    ASSUME OneRun, PipelineInv, ScheduledInv, StaleInv, NEW r \in Runs, RunStep(r)
    PROVE  StaleInv'
<1>. USE DEF PipelineInv
<1>1. CASE CronFires(r)
  <2>1. PICK due \in SUBSET InStatus("fail_retry") :
          runs' = [runs EXCEPT ![r] =
            [IdleRun EXCEPT
                !.pc = "emit",
                !.batch = [s \in SubmissionIds |->
                             IF s \in DueSubmissions(due)
                             THEN contractSubmissions[s] ELSE None]]]
    BY <1>1 DEF CronFires
  <2>2. /\ runs'[r].pc = "emit"
        /\ runs'[r].batch = [s \in SubmissionIds |->
             IF s \in DueSubmissions(due) THEN contractSubmissions[s] ELSE None]
    BY <2>1 DEF TypeOK, SchedulerTypeOK, IdleRun
  <2>3. \A s \in DueSubmissions(due) : contractSubmissions[s].status # "pending"
    BY DEF DueSubmissions, InStatus, StatusOf
  <2>. QED
    BY <1>1, <2>2, <2>3 DEF CronFires, storeVars, OneRun, StaleInv
<1>2. CASE EmitTask(r)
  <2>1. /\ runs'[r].pc = "record"
        /\ runs'[r].batch = runs[r].batch
        /\ UNCHANGED contractSubmissions
    BY <1>2 DEF EmitTask, TypeOK, SchedulerTypeOK, Run, storeVars
  <2>. QED
    BY <2>1 DEF OneRun, StaleInv
<1>3. CASE RecordPending(r)
  <2> DEFINE s == runs[r].current
  <2>1. /\ s \in SubmissionIds
        /\ runs[r] \in Run
        /\ runs[r].batch[s] # None
    BY <1>3 DEF RecordPending, RunsInv, TypeOK, SchedulerTypeOK, Run
  <2>2. /\ runs'[r].pc = "load"
        /\ \A t \in SubmissionIds : runs'[r].batch[t] # None => runs[r].batch[t] # None
    <3>1. runs' = [runs EXCEPT ![r].pc = "load", ![r].batch[s].status = "pending"]
      BY <1>3 DEF RecordPending
    <3>2. /\ runs'[r].pc = "load"
          /\ runs'[r].batch = [runs[r].batch EXCEPT ![s].status = "pending"]
      BY <2>1, <3>1 DEF TypeOK, SchedulerTypeOK, Run
    <3>. QED
      BY <2>1, <3>2 DEF Run
  <2>. QED
    BY <1>3, <2>2 DEF RecordPending, OneRun, StaleInv
<1>4. CASE SaveLoad(r)
  <2> DEFINE s == runs[r].current
  <2>1. s \in SubmissionIds /\ runs[r].batch[s] # None
    BY <1>4 DEF SaveLoad, RunsInv, TypeOK, SchedulerTypeOK, Run
  <2>2. /\ runs'[r].loaded = contractSubmissions[s]
        /\ runs'[r].batch = runs[r].batch
    BY <1>4 DEF SaveLoad, TypeOK, SchedulerTypeOK, Run
  <2>. QED
    BY <1>4, <2>1, <2>2 DEF SaveLoad, storeVars, OneRun, StaleInv
<1>5. CASE SaveWrite(r)
  <2> DEFINE s == runs[r].current
  <2>1. /\ runs'[r].pc # "write"
        /\ \A t \in SubmissionIds :
             runs'[r].batch[t] # None => t # s /\ runs[r].batch[t] # None
    BY <1>5 DEF SaveWrite, NextInBatch, IdleRun, TypeOK, SchedulerTypeOK, Run
  <2>2. \A t \in SubmissionIds : t # s /\ Stored(t) =>
          contractSubmissions'[t] = contractSubmissions[t]
    BY RunWrites
  <2>. QED
    BY <2>1, <2>2 DEF RunsInv, OneRun, StaleInv
<1>. QED
  BY <1>1, <1>2, <1>3, <1>4, <1>5 DEF RunStep

\* Notifications make rows processing, success or fail; nobody else touches them.
LEMMA StaleStep ==
    ASSUME OneRun, PipelineInv, ScheduledInv, StaleInv, [Next]_vars
    PROVE  StaleInv'
<1>. USE DEF PipelineInv
<1>1. CASE \E q \in Requests : NotifyStep(q)
  <2>1. PICK q \in Requests : NotifyStep(q)
    BY <1>1
  <2>2. \A s \in SubmissionIds :
          \/ contractSubmissions'[s] = contractSubmissions[s]
          \/ contractSubmissions'[s].status # "pending"
    BY <2>1, HandlerScope, HandlerWrites, HandlerReads
    DEF NotifyStep, HandleNotification, SaveHistory
  <2>. QED
    BY <2>1, <2>2 DEF NotifyStep, schedulerVars, StaleInv
<1>2. CASE Elsewhere
  <2>1. \A s \in SubmissionIds : Stored(s) =>
          contractSubmissions'[s] = contractSubmissions[s]
    BY <1>2, StepKeepsRows, ElsewhereKeepsStatuses DEF RowsKept, StatusesKept
  <2>. QED
    BY <1>2, <2>1, ElsewhereKeepsRuns DEF RunsInv, IdleRun, StaleInv
<1>. QED
  BY <1>1, <1>2, RunKeepsStale DEF Next, Elsewhere

\* No run has a batch at the start.
LEMMA StaleInit == Init => StaleInv
BY DEF Init, SchedulerInit, IdleRun, StaleInv

\* So all a run does to rows is to make one pending.
LEMMA RunSaves ==
    ASSUME PipelineInv, ScheduledInv, StaleInv, NEW r \in Runs, RunStep(r)
    PROVE  /\ UNCHANGED <<contracts, requests>>
           /\ \A s \in SubmissionIds :
                \/ contractSubmissions'[s] = contractSubmissions[s]
                \/ /\ SaveWrite(r) /\ s = runs[r].current
                   /\ Stored(s)
                   /\ contractSubmissions'[s].status = "pending"
<1>1. UNCHANGED <<contracts, requests>>
  BY RunQuiet DEF RunStep, transportVars
<1>2. ASSUME NEW s \in SubmissionIds
      PROVE  \/ contractSubmissions'[s] = contractSubmissions[s]
             \/ /\ SaveWrite(r) /\ s = runs[r].current
                /\ Stored(s)
                /\ contractSubmissions'[s].status = "pending"
  BY RunWrites DEF StaleInv, SaveWrite, Stored
<1>. QED
  BY <1>1, <1>2

-----------------------------------------------------------------------------
(* The columns that tell a user why, and what is published, are filled.    *)

\* A handler that is about to publish was doing so before.
LEMMA ElsewherePublishesNothing ==
    ASSUME PipelineInv, Elsewhere, NEW q \in Requests, InStage(q, "store")'
    PROVE  InStage(q, "store") /\ requests'[q].compiler = requests[q].compiler
<1>. USE DEF PipelineInv, TypeOK, TransportTypeOK
<1>1. ASSUME requests'[q] = requests[q]
      PROVE  InStage(q, "store") /\ requests'[q].compiler = requests[q].compiler
  BY <1>1 DEF InStage
<1>2. ASSUME NEW w, NEW lost, CrashLosing(w, lost)
      PROVE  InStage(q, "store") /\ requests'[q].compiler = requests[q].compiler
  BY <1>2, NotificationInSlot DEF CrashLosing, InStage, Notification
<1>3. ASSUME NEW p \in Requests, NEW w, NEW s, NEW status, Post(p, w, s, status)
      PROVE  InStage(q, "store") /\ requests'[q].compiler = requests[q].compiler
  BY <1>3 DEF Post, InStage
<1>4. ASSUME NEW p \in Requests, requests[p] # None,
             requests' = [requests EXCEPT ![p] = Failed(requests[p])]
      PROVE  InStage(q, "store") /\ requests'[q].compiler = requests[q].compiler
  BY <1>4, NotificationInSlot DEF Failed, InStage, Notification
<1>5. CASE \E s \in SubmissionIds : ApiStep(s) \/ PublishTask(s)
  BY <1>1, <1>5 DEF ApiStep, PublishTask, transportVars
<1>6. CASE \E p \in Requests : ErrorStep(p)
  BY <1>2, <1>6 DEF ErrorStep, NotifyError
<1>7. CASE \E h \in Handlers : WorkerStep(h)
  BY <1>1, <1>3, <1>7
  DEF WorkerStep, TakeTask, TakeTaskUnsigned, ClearDirectory, WriteFiles, Report, Ack,
      transportVars
<1>8. CASE FaultStep
  <2>1. CASE WorkerFault \/ BrokerRestart
    BY <1>1, <1>2, <2>1 DEF WorkerFault, WorkerCrash, ConnectionLost, BrokerRestart
  <2>2. CASE NetworkFault
    BY <1>4, <2>2 DEF NetworkFault, RejectNotification, InStage
  <2>3. CASE StoreFault
    <3>1. CASE \E p \in Requests : StatementFails(p)
      <4>1. PICK p \in Requests : StatementFails(p)
        BY <3>1
      <4>2. requests[p] # None
        BY <4>1 DEF StatementFails, InStage
      <4>3. CASE InsideTry(p)
        <5>1. /\ requests[p] \in Notification
              /\ requests' = [requests EXCEPT ![p] =
                   [requests[p] EXCEPT !.stage = "undo", !.newStatus = "success"]]
          BY <4>1, <4>2, <4>3, NotificationInSlot DEF StatementFails
        <5>. QED
          BY <1>1, <5>1 DEF InStage, Notification
      <4>4. CASE ~InsideTry(p)
        BY <1>4, <4>1, <4>2, <4>4 DEF StatementFails
      <4>. QED
        BY <4>3, <4>4
    <3>. QED
      BY <1>1, <2>3, <3>1 DEF StoreFault, transportVars
  <2>4. CASE GatewayCrash
    <3>1. \/ requests'[q] = requests[q]
          \/ requests'[q] = Failed(requests[q]) /\ requests[q] # None
      BY <2>4 DEF GatewayCrash, InStage
    <3>. QED
      BY <1>1, <3>1, NotificationInSlot DEF Failed, InStage, Notification
  <2>. QED
    BY <1>8, <2>1, <2>2, <2>3, <2>4 DEF FaultStep
<1>9. CASE UNCHANGED vars
  BY <1>1, <1>9 DEF vars, transportVars
<1>. QED
  BY <1>5, <1>6, <1>7, <1>8, <1>9 DEF Elsewhere

\* A success has its compiler from the UPDATE to the copy into contracts, and a
\* fail its reason.
ColumnsInv ==
    /\ \A s \in SubmissionIds : contractSubmissions[s] # None =>
         /\ contractSubmissions[s].status = "success" =>
              "compiler" \in contractSubmissions[s].filled
         /\ contractSubmissions[s].status = "fail" =>
              "result" \in contractSubmissions[s].filled
    /\ \A q \in Requests : InStage(q, "store") => requests[q].compiler
    /\ \A c \in ContractIds : contracts[c] # None => contracts[c].compiler

\* Handlers fill the columns with the UPDATE that sets the status.
LEMMA HandlerKeepsColumns ==
    ASSUME PipelineInv, ColumnsInv, NEW q \in Requests, NotifyStep(q)
    PROVE  ColumnsInv'
<1>. USE DEF PipelineInv
<1> DEFINE s == requests[q].submission
<1>1. /\ s \in SubmissionIds
      /\ Stored(s)
      /\ requests[q] \in Notification
      /\ \A p \in Requests : p # q => requests'[p] = requests[p]
  BY HandlerScope
<1>2. CASE UpdateProcessing(q) \/ UpdateFail(q) \/ UpdateSuccess(q) \/ UndoSuccess(q)
  <2>1. requests'[q].stage \in {"record", "confirm"}
    BY <1>1, <1>2, HandlerWrites
  <2>2. /\ contractSubmissions'[s].status = "success" =>
              "compiler" \in contractSubmissions'[s].filled
        /\ contractSubmissions'[s].status = "fail" =>
              "result" \in contractSubmissions'[s].filled
        /\ \A t \in SubmissionIds : t # s => contractSubmissions'[t] = contractSubmissions[t]
        /\ UNCHANGED contracts
    BY <1>1, <1>2, HandlerWrites
  <2>. QED
    BY <1>1, <2>1, <2>2 DEF ColumnsInv, InStage
<1>3. CASE FindSubmission(q) \/ SaveHistory(q)
  <2>1. /\ UNCHANGED <<contractSubmissions, contracts>>
        /\ ~InStage(q, "store")'
    BY <1>3, HandlerReads DEF FindSubmission, SaveHistory, InStage, TypeOK, TransportTypeOK
  <2>. QED
    BY <1>1, <2>1 DEF ColumnsInv, InStage
<1>4. CASE ConfirmRead(q)
  <2>1. UNCHANGED <<contractSubmissions, contracts>>
    BY <1>4 DEF ConfirmRead, storeVars
  <2>2. ASSUME requests'[q].stage = "store"
        PROVE  requests'[q].compiler
    <3>1. requests'[q] = [requests[q] EXCEPT
                  !.stage = IF contractSubmissions[s].status = "success" THEN "store" ELSE "undo",
                  !.compiler = contractSubmissions[s].status = "success"
                               /\ "compiler" \in contractSubmissions[s].filled]
      BY <1>1, <1>4 DEF ConfirmRead, TypeOK, TransportTypeOK
    <3>2. contractSubmissions[s].status = "success"
      BY <1>1, <2>2, <3>1 DEF Notification
    <3>3. "compiler" \in contractSubmissions[s].filled
      BY <1>1, <3>2 DEF ColumnsInv, Stored
    <3>. QED
      BY <1>1, <3>1, <3>2, <3>3 DEF Notification
  <2>. QED
    BY <1>1, <2>1, <2>2 DEF ColumnsInv, InStage
<1>5. CASE StoreContract(q)
  <2>1. /\ UNCHANGED contractSubmissions
        /\ requests'[q].stage \in {"record", "undo"}
        /\ InStage(q, "store")
    BY <1>5, HandlerReads DEF StoreContract
  <2>2. \A c \in ContractIds : contracts'[c] = contracts[c] \/
          contracts'[c] = [submission |-> s, compiler |-> requests[q].compiler]
    BY <1>5 DEF StoreContract, TypeOK, StoreTypeOK
  <2>. QED
    BY <1>1, <2>1, <2>2 DEF ColumnsInv, InStage
<1>. QED
  BY <1>2, <1>3, <1>4, <1>5 DEF NotifyStep, HandleNotification

\* Every step keeps it.
LEMMA ColumnsStep ==
    ASSUME PipelineInv, ScheduledInv, StaleInv, ColumnsInv, [Next]_vars
    PROVE  ColumnsInv'
<1>1. CASE \E r \in Runs : RunStep(r)
  <2>1. /\ UNCHANGED <<contracts, requests>>
        /\ \A s \in SubmissionIds :
             \/ contractSubmissions'[s] = contractSubmissions[s]
             \/ contractSubmissions'[s].status = "pending"
    BY <1>1, RunSaves
  <2>. QED
    BY <2>1 DEF ColumnsInv, InStage
<1>2. CASE Elsewhere
  <2>1. UNCHANGED contracts /\ StatusesKept
    BY <1>2, ElsewhereKeepsStatuses
  <2>. QED
    BY <1>2, <2>1, ElsewherePublishesNothing DEF ColumnsInv, StatusesKept, Stored
<1>. QED
  BY <1>1, <1>2, HandlerKeepsColumns DEF Next, Elsewhere

\* Nothing is stored at the start.
LEMMA ColumnsInit == Init => ColumnsInv
BY DEF Init, StoreInit, TransportInit, ColumnsInv, InStage

\* The three together are inductive.
LEMMA ColumnsInvariant ==
    ASSUME OneRun
    PROVE  Spec => []ColumnsInv
<1>1. PipelineInv /\ ScheduledInv /\ StaleInv /\ ColumnsInv /\ [Next]_vars => ColumnsInv'
  BY ColumnsStep
<1>2. PipelineInv /\ ScheduledInv /\ StaleInv /\ [Next]_vars => StaleInv'
  BY StaleStep
<1>3. PipelineInv /\ ScheduledInv /\ [Next]_vars => ScheduledInv'
  BY ScheduledStep
<1>. QED
  BY <1>1, <1>2, <1>3, ScheduledInit, StaleInit, ColumnsInit, PipelineInvariant, PTL DEF Spec

\* The compiler of a published contract is known: save, which also clears the
\* columns the scheduler's stale entity lacks, never slips in between the UPDATE
\* to success and the copy into contracts, whatever faults there are.
THEOREM CompilerTheorem ==
    ASSUME OneRun
    PROVE  Spec => []PublishedHasCompiler
<1>1. ColumnsInv => PublishedHasCompiler
  BY DEF ColumnsInv, PublishedHasCompiler, GetVerifiedContract
<1>. QED
  BY <1>1, ColumnsInvariant, PTL

\* A user who is told `fail' is told why: the reason is written with the status and
\* no save clears it, whatever faults there are.
THEOREM FailTheorem ==
    ASSUME OneRun
    PROVE  Spec => []FailIsExplained
<1>1. ColumnsInv => FailIsExplained
  BY DEF ColumnsInv, FailIsExplained, ReportedStatus, CheckSubmissionStatus, ContractOf,
         Stored, StatusOf
<1>. QED
  BY <1>1, ColumnsInvariant, PTL

-----------------------------------------------------------------------------
(* There is one copy of a task.                                            *)

\* A run has emitted the task of s and not saved that yet.
BeingScheduled(s) ==
    \E r \in Runs : runs[r].pc \in {"record", "load", "write"} /\ runs[r].current = s

\* What a run may find and emit has no task yet.
UniqueInv ==
    /\ TaskIsUnique
    /\ \A s \in SubmissionIds : Stored(s) => contractSubmissions[s].status # "fail_retry"
    /\ \A s \in SubmissionIds :
         (Stored(s) /\ contractSubmissions[s].status = "new" /\ ~BeingScheduled(s)) =>
            ~TaskExists(s)
    /\ \A r \in Runs, s \in SubmissionIds :
         (runs[r].batch[s] # None /\ ~BeingScheduled(s)) => ~TaskExists(s)

\* No second copy comes up, and no task of a submission that had none.
TasksMove ==
    /\ TaskIsUnique'
    /\ \A s \in SubmissionIds : TaskExists(s)' => TaskExists(s)

\* What a worker held goes back to the broker once, and the worker lets go of it.
LEMMA RequeueKeepsUnique ==
    ASSUME PipelineInv, TaskIsUnique, NEW w, Requeue(w), UNCHANGED outbox,
           \A h \in Handlers : handlers'[h].held =>
               WorkerOf[h] # w /\ handlers'[h] = handlers[h]
    PROVE  TasksMove
<1>1. \A s \in SubmissionIds : outbox[s] \in Nat /\ queue[s] \in Nat
  BY DEF PipelineInv, TypeOK, SchedulerTypeOK, TransportTypeOK
<1>2. ASSUME NEW s \in SubmissionIds
      PROVE  /\ outbox'[s] + queue'[s] <= 1
             /\ (outbox'[s] + queue'[s] = 1) => \A h \in Handlers : ~Holds(h, s)'
             /\ \A g, h \in Handlers : Holds(g, s)' /\ Holds(h, s)' => g = h
             /\ TaskExists(s)' => TaskExists(s)
  <2>1. \A h \in Handlers : Holds(h, s)' => Holds(h, s) /\ WorkerOf[h] # w
    BY DEF Holds
  <2>2. CASE \E h \in Handlers : WorkerOf[h] = w /\ Holds(h, s)
    <3>1. PICK h \in Handlers : WorkerOf[h] = w /\ Holds(h, s)
      BY <2>2
    <3>2. outbox[s] + queue[s] # 1 /\ outbox[s] + queue[s] <= 1
      BY <3>1 DEF TaskIsUnique
    <3>3. outbox[s] = 0 /\ queue[s] = 0
      BY <1>1, <3>2
    <3>4. outbox'[s] = 0 /\ queue'[s] = 1
      BY <3>1, <3>3 DEF Requeue
    <3>5. \A g \in Handlers : ~Holds(g, s)'
      BY <2>1, <3>1 DEF TaskIsUnique
    <3>6. TaskExists(s)
      BY <3>1 DEF TaskExists
    <3>. QED
      BY <3>4, <3>5, <3>6
  <2>3. CASE ~\E h \in Handlers : WorkerOf[h] = w /\ Holds(h, s)
    <3>1. outbox'[s] = outbox[s] /\ queue'[s] = queue[s]
      BY <2>3 DEF Requeue
    <3>2. TaskExists(s)' => TaskExists(s)
      BY <2>1, <3>1 DEF TaskExists
    <3>. QED
      BY <2>1, <3>1, <3>2 DEF TaskIsUnique
  <2>. QED
    BY <2>2, <2>3
<1>. QED
  BY <1>2 DEF TasksMove, TaskIsUnique

\* Handlers that let go of their tasks.
LEMMA DroppedKeepsUnique ==
    ASSUME PipelineInv, TaskIsUnique, UNCHANGED outbox,
           \A s \in SubmissionIds : queue'[s] = queue[s] \/ queue'[s] = 0,
           \A h \in Handlers, s \in SubmissionIds : Holds(h, s)' => Holds(h, s)
    PROVE  TasksMove
<1>1. \A s \in SubmissionIds : outbox[s] \in Nat /\ queue[s] \in Nat
  BY DEF PipelineInv, TypeOK, SchedulerTypeOK, TransportTypeOK
<1>2. ASSUME NEW s \in SubmissionIds
      PROVE  /\ outbox'[s] + queue'[s] <= 1
             /\ (outbox'[s] + queue'[s] = 1) => outbox[s] + queue[s] = 1
             /\ TaskExists(s)' => TaskExists(s)
  <2>1. outbox[s] + queue[s] <= 1
    BY DEF TaskIsUnique
  <2>2. TaskExists(s)' => TaskExists(s)
    BY <1>1 DEF TaskExists
  <2>. QED
    BY <1>1, <2>1, <2>2
<1>. QED
  BY <1>2 DEF TasksMove, TaskIsUnique

\* A delivery takes the task from the queue to the one handler that may have it.
LEMMA TakeTaskKeepsUnique ==
    ASSUME PipelineInv, TaskIsUnique, NEW h \in Handlers, TakeTask(h) \/ TakeTaskUnsigned(h),
           UNCHANGED outbox
    PROVE  TasksMove
<1>. USE DEF PipelineInv
<1>1. \A s \in SubmissionIds : outbox[s] \in Nat /\ queue[s] \in Nat
  BY DEF TypeOK, SchedulerTypeOK, TransportTypeOK
<1>2. ~handlers[h].held
  BY DEF TakeTask, TakeTaskUnsigned, MayReceive
<1>3. PICK t \in SubmissionIds, pc \in {"started", "wedged"} :
        /\ queue[t] > 0
        /\ queue' = [queue EXCEPT ![t] = queue[t] - 1]
        /\ handlers' = [handlers EXCEPT ![h] = [pc |-> pc, task |-> t, held |-> TRUE]]
  BY DEF TakeTask, TakeTaskUnsigned
<1>4. /\ outbox[t] = 0 /\ queue[t] = 1
      /\ \A g \in Handlers : ~Holds(g, t)
  <2>1. outbox[t] + queue[t] <= 1
    BY DEF TaskIsUnique
  <2>2. outbox[t] = 0 /\ queue[t] = 1
    BY <1>1, <1>3, <2>1
  <2>. QED
    BY <2>2 DEF TaskIsUnique
<1>5. ASSUME NEW g \in Handlers, NEW s \in SubmissionIds
      PROVE  Holds(g, s)' <=> (IF g = h THEN s = t ELSE Holds(g, s))
  BY <1>3 DEF Holds, TypeOK, WorkerTypeOK
<1>6. ASSUME NEW s \in SubmissionIds
      PROVE  /\ outbox'[s] + queue'[s] <= 1
             /\ (outbox'[s] + queue'[s] = 1) => \A g \in Handlers : ~Holds(g, s)'
             /\ \A g1, g2 \in Handlers : Holds(g1, s)' /\ Holds(g2, s)' => g1 = g2
             /\ TaskExists(s)' => TaskExists(s)
  <2>1. CASE s = t
    <3>1. outbox'[s] = 0 /\ queue'[s] = 0
      BY <1>3, <1>4, <2>1 DEF TypeOK, TransportTypeOK
    <3>2. TaskExists(s)
      BY <1>3, <2>1 DEF TaskExists
    <3>. QED
      BY <1>4, <1>5, <2>1, <3>1, <3>2
  <2>2. CASE s # t
    <3>1. /\ outbox'[s] = outbox[s] /\ queue'[s] = queue[s]
          /\ \A g \in Handlers : Holds(g, s)' => Holds(g, s)
      BY <1>2, <1>3, <1>5, <2>2 DEF TypeOK, TransportTypeOK
    <3>. QED
      BY <3>1 DEF TaskIsUnique, TaskExists
  <2>. QED
    BY <2>1, <2>2
<1>. QED
  BY <1>6 DEF TasksMove, TaskIsUnique

\* Outside the scheduler tasks move.
LEMMA ElsewhereMovesTasks ==
    ASSUME PipelineInv, GatewayHolds, TaskIsUnique, Elsewhere
    PROVE  TasksMove
<1>. USE DEF PipelineInv
<1>0. ASSUME UNCHANGED <<queue, outbox>>,
             \A h \in Handlers, s \in SubmissionIds : Holds(h, s)' => Holds(h, s)
      PROVE  TasksMove
  BY <1>0, DroppedKeepsUnique
<1>1. CASE \E s \in SubmissionIds : ApiStep(s)
  BY <1>0, <1>1 DEF ApiStep, schedulerVars, transportVars, Holds
<1>2. CASE \E t \in SubmissionIds : PublishTask(t)
  <2>1. PICK t \in SubmissionIds : PublishTask(t)
    BY <1>2
  <2>2. \A s \in SubmissionIds :
          /\ outbox[s] \in Nat /\ queue[s] \in Nat /\ outbox'[s] \in Nat /\ queue'[s] \in Nat
          /\ outbox'[s] + queue'[s] = outbox[s] + queue[s]
    BY <2>1 DEF PublishTask, TypeOK, SchedulerTypeOK, TransportTypeOK
  <2>3. \A h \in Handlers, s \in SubmissionIds : Holds(h, s)' <=> Holds(h, s)
    BY <2>1 DEF PublishTask, Holds
  <2>4. \A s \in SubmissionIds : TaskExists(s)' => TaskExists(s)
    <3>1. \A s \in SubmissionIds :
            (outbox'[s] > 0 \/ queue'[s] > 0) => (outbox[s] > 0 \/ queue[s] > 0)
      BY <2>2
    <3>. QED
      BY <2>3, <3>1 DEF TaskExists
  <2>. QED
    BY <2>2, <2>3, <2>4 DEF TasksMove, TaskIsUnique
<1>3. ASSUME NEW w, NEW lost, CrashLosing(w, lost), UNCHANGED outbox
      PROVE  TasksMove
  <2>1. \A h \in Handlers : handlers'[h].held => WorkerOf[h] # w /\ handlers'[h] = handlers[h]
    BY <1>3 DEF CrashLosing, IdleHandler
  <2>. QED
    BY <1>3, <2>1, RequeueKeepsUnique DEF CrashLosing
<1>4. CASE \E q \in Requests : ErrorStep(q)
  BY <1>3, <1>4 DEF ErrorStep, NotifyError, schedulerVars
<1>5. CASE \E h \in Handlers : WorkerStep(h)
  <2>1. PICK h \in Handlers : WorkerStep(h)
    BY <1>5
  <2>2. CASE TakeTask(h) \/ TakeTaskUnsigned(h)
    BY <2>1, <2>2, TakeTaskKeepsUnique DEF WorkerStep, schedulerVars
  <2>3. CASE ClearDirectory(h) \/ WriteFiles(h) \/ Report(h) \/ Ack(h)
    <3>1. /\ UNCHANGED <<queue, outbox>>
          /\ \A g \in Handlers, s \in SubmissionIds : Holds(g, s)' => Holds(g, s)
      BY <2>1, <2>3
      DEF ClearDirectory, WriteFiles, Report, Ack, WorkerStep, schedulerVars, transportVars,
          Holds, IdleHandler, TypeOK, WorkerTypeOK, Handler
    <3>. QED
      BY <1>0, <3>1
  <2>. QED
    BY <2>1, <2>2, <2>3 DEF WorkerStep
<1>6. CASE FaultStep
  <2>1. CASE WorkerFault
    <3>1. ASSUME NEW w \in Workers, ConnectionLost(w), UNCHANGED outbox
          PROVE  TasksMove
      <4>1. \A h \in Handlers : handlers'[h].held =>
              WorkerOf[h] # w /\ handlers'[h] = handlers[h]
        BY <3>1 DEF ConnectionLost, IdleHandler, TypeOK, WorkerTypeOK, Handler
      <4>. QED
        BY <3>1, <4>1, RequeueKeepsUnique DEF ConnectionLost
    <3>. QED
      BY <1>3, <2>1, <3>1 DEF WorkerFault, WorkerCrash, schedulerVars
  <2>2. CASE BrokerRestart
    <3>1. /\ \A s \in SubmissionIds : queue'[s] = 0
          /\ UNCHANGED outbox
          /\ \A h \in Handlers, s \in SubmissionIds : ~Holds(h, s)'
      BY <2>2 DEF BrokerRestart, schedulerVars, Holds, IdleHandler, TypeOK, WorkerTypeOK, Handler
    <3>. QED
      BY <3>1, DroppedKeepsUnique
  <2>3. CASE NetworkFault
    BY <1>0, <2>3 DEF NetworkFault, RejectNotification, schedulerVars, Holds
  <2>. QED
    BY <1>6, <2>1, <2>2, <2>3 DEF FaultStep, StoreFault, GatewayCrash, GatewayHolds
<1>7. CASE UNCHANGED vars
  BY <1>0, <1>7 DEF vars, transportVars, schedulerVars, Holds
<1>. QED
  BY <1>1, <1>2, <1>4, <1>5, <1>6, <1>7 DEF Elsewhere

\* The run's own steps.
LEMMA RunKeepsUnique ==
    ASSUME OneRun, PipelineInv, ScheduledInv, StaleInv, UniqueInv, NEW r \in Runs, RunStep(r)
    PROVE  UniqueInv'
<1>. USE DEF PipelineInv
<1>0. \A s \in SubmissionIds : BeingScheduled(s) <=>
        runs[r].pc \in {"record", "load", "write"} /\ runs[r].current = s
  BY DEF BeingScheduled, OneRun
<1>1. \A s \in SubmissionIds : BeingScheduled(s)' <=>
        runs'[r].pc \in {"record", "load", "write"} /\ runs'[r].current = s
  BY DEF BeingScheduled, OneRun
<1>2. CASE EmitTask(r)
  <2>1. PICK e \in SubmissionIds :
          /\ runs[r].pc = "emit"
          /\ runs[r].batch[e] # None
          /\ outbox' = [outbox EXCEPT ![e] = outbox[e] + 1]
          /\ runs' = [runs EXCEPT ![r].pc = "record", ![r].current = e]
          /\ UNCHANGED <<contractSubmissions, queue, handlers>>
    BY <1>2 DEF EmitTask, RunStep, storeVars, transportVars
  <2>2. /\ runs'[r].batch = runs[r].batch
        /\ runs'[r].current = e
        /\ runs'[r].pc = "record"
    BY <2>1 DEF TypeOK, SchedulerTypeOK, Run
  <2>3. ~TaskExists(e)
    BY <1>0, <2>1 DEF UniqueInv
  <2>4. /\ \A s \in SubmissionIds : ~BeingScheduled(s)
        /\ \A s \in SubmissionIds : BeingScheduled(s)' <=> s = e
    BY <1>0, <1>1, <2>1, <2>2
  <2>5. ASSUME NEW s \in SubmissionIds, s # e
        PROVE  /\ outbox'[s] = outbox[s]
               /\ TaskExists(s)' <=> TaskExists(s)
    <3>1. outbox'[s] = outbox[s]
      BY <2>1, <2>5 DEF TypeOK, SchedulerTypeOK
    <3>. QED
      BY <2>1, <3>1 DEF TaskExists, Holds
  <2>6. TaskIsUnique'
    <3>1. outbox[e] \in Nat /\ queue[e] \in Nat /\ outbox'[e] = outbox[e] + 1
      BY <2>1 DEF TypeOK, SchedulerTypeOK, TransportTypeOK
    <3>2. outbox'[e] = 1 /\ queue'[e] = 0
      BY <2>1, <2>3, <3>1 DEF TaskExists
    <3>3. \A h \in Handlers : ~Holds(h, e)'
      BY <2>1, <2>3 DEF TaskExists, Holds
    <3>4. \A h \in Handlers, s \in SubmissionIds : Holds(h, s)' <=> Holds(h, s)
      BY <2>1 DEF Holds
    <3>5. \A s \in SubmissionIds : s # e =>
            outbox'[s] = outbox[s] /\ queue'[s] = queue[s]
      BY <2>1, <2>5
    <3>. QED
      BY <3>2, <3>3, <3>4, <3>5 DEF TaskIsUnique, UniqueInv
  <2>7. /\ \A p \in Runs : p = r
        /\ UNCHANGED contractSubmissions
    BY <2>1 DEF OneRun, TypeOK, SchedulerTypeOK
  <2>8. \A s \in SubmissionIds : (Stored(s)' /\ contractSubmissions'[s].status = "new"
                                  /\ ~BeingScheduled(s)') => ~TaskExists(s)'
    BY <2>4, <2>5, <2>7 DEF UniqueInv, Stored
  <2>9. \A s \in SubmissionIds : (runs'[r].batch[s] # None /\ ~BeingScheduled(s)') =>
                                   ~TaskExists(s)'
    BY <2>2, <2>4, <2>5 DEF UniqueInv
  <2>. QED
    BY <2>6, <2>7, <2>8, <2>9 DEF UniqueInv, Stored
<1>3. CASE ~EmitTask(r)
  <2>1. UNCHANGED <<outbox, queue, handlers>>
    BY <1>3 DEF RunStep, CronFires, RecordPending, SaveLoad, SaveWrite, transportVars
  <2>2. TaskIsUnique' /\ \A s \in SubmissionIds : TaskExists(s)' <=> TaskExists(s)
    BY <2>1 DEF UniqueInv, TaskIsUnique, TaskExists, Holds
  <2>3. CASE CronFires(r)
    <3>1. /\ runs[r].pc = "idle"
          /\ runs'[r].pc = "emit"
          /\ UNCHANGED contractSubmissions
          /\ \A s \in SubmissionIds : runs'[r].batch[s] # None =>
               /\ Stored(s)
               /\ contractSubmissions[s].status \in {"new", "fail_retry"}
      BY <2>3 DEF CronFires, DueSubmissions, InStatus, StatusOf, IdleRun, storeVars, TypeOK,
                  SchedulerTypeOK
    <3>. QED
      BY <1>0, <1>1, <2>2, <3>1 DEF UniqueInv, OneRun, Stored
  <2>4. CASE RecordPending(r) \/ SaveLoad(r)
    <3>1. /\ runs'[r].current = runs[r].current
          /\ runs[r].pc \in {"record", "load"}
          /\ runs'[r].pc \in {"load", "write"}
          /\ UNCHANGED contractSubmissions
      BY <2>4 DEF RecordPending, SaveLoad, storeVars, TypeOK, SchedulerTypeOK, Run
    <3>2. \A s \in SubmissionIds : runs'[r].batch[s] # None => runs[r].batch[s] # None
      <4>1. CASE RecordPending(r)
        <5> DEFINE c == runs[r].current
        <5>1. c \in SubmissionIds /\ runs[r] \in Run /\ runs[r].batch[c] # None
          BY <4>1 DEF RecordPending, RunsInv, TypeOK, SchedulerTypeOK, Run
        <5>2. runs' = [runs EXCEPT ![r].pc = "load", ![r].batch[c].status = "pending"]
          BY <4>1 DEF RecordPending
        <5>3. runs'[r].batch = [runs[r].batch EXCEPT ![c].status = "pending"]
          BY <5>1, <5>2 DEF TypeOK, SchedulerTypeOK, Run
        <5>. QED
          BY <5>1, <5>3 DEF Run
      <4>2. CASE SaveLoad(r)
        BY <4>2 DEF SaveLoad, TypeOK, SchedulerTypeOK, Run
      <4>. QED
        BY <2>4, <4>1, <4>2
    <3>3. \A s \in SubmissionIds : BeingScheduled(s)' <=> BeingScheduled(s)
      BY <1>0, <1>1, <3>1
    <3>. QED
      BY <2>2, <3>1, <3>2, <3>3 DEF UniqueInv, OneRun, Stored
  <2>5. CASE SaveWrite(r)
    <3> DEFINE c == runs[r].current
    <3>1. /\ runs[r].pc = "write"
          /\ runs'[r].pc \in {"idle", "emit"}
          /\ \A s \in SubmissionIds :
               runs'[r].batch[s] # None => s # c /\ runs[r].batch[s] # None
      BY <2>5 DEF SaveWrite, NextInBatch, IdleRun, TypeOK, SchedulerTypeOK, Run
    <3>2. /\ c \in SubmissionIds
          /\ contractSubmissions'[c].status = "pending"
          /\ \A s \in SubmissionIds : s # c => contractSubmissions'[s] = contractSubmissions[s]
      <4>1. /\ c \in SubmissionIds
            /\ Stored(c)
            /\ runs[r].loaded.status # "pending"
        BY <2>5 DEF SaveWrite, RunsInv, TypeOK, SchedulerTypeOK, Run, StaleInv
      <4>2. runs[r].batch[c].status = "pending" /\ contractSubmissions[c] \in Submission
        BY <2>5, <4>1 DEF SaveWrite, ScheduledInv, TypeOK, StoreTypeOK, Stored
      <4>3. contractSubmissions'[c].status = "pending"
        BY <2>5, <4>1, <4>2 DEF SaveWrite, SaveSubmission, TypeOK, StoreTypeOK, Submission
      <4>. QED
        BY <2>5, <4>1, <4>3, RunSaves
    <3>3. \A s \in SubmissionIds : s # c => ~BeingScheduled(s)
      BY <1>0
    <3>. QED
      BY <2>2, <3>1, <3>2, <3>3 DEF UniqueInv, OneRun, Stored
  <2>. QED
    BY <1>3, <2>3, <2>4, <2>5 DEF RunStep
<1>. QED
  BY <1>2, <1>3

\* Every step keeps it.
LEMMA UniqueStep ==
    ASSUME OneRun, GatewayHolds, PipelineInv, ScheduledInv, StaleInv, UniqueInv, [Next]_vars
    PROVE  UniqueInv'
<1>. USE DEF PipelineInv
<1>1. CASE \E q \in Requests : NotifyStep(q)
  <2>1. PICK q \in Requests : NotifyStep(q)
    BY <1>1
  <2>2. UNCHANGED <<runs, outbox, queue, handlers>>
    BY <2>1
    DEF NotifyStep, HandleNotification, FindSubmission, UpdateProcessing, UpdateFail,
        UpdateSuccess, UpdateStatus, ConfirmRead, StoreContract, UndoSuccess, SaveHistory,
        schedulerVars
  <2>3. /\ TaskIsUnique'
        /\ \A s \in SubmissionIds :
             (TaskExists(s)' <=> TaskExists(s)) /\ (BeingScheduled(s)' <=> BeingScheduled(s))
    BY <2>2 DEF UniqueInv, TaskIsUnique, TaskExists, Holds, BeingScheduled
  <2>4. \A s \in SubmissionIds :
          \/ contractSubmissions'[s] = contractSubmissions[s]
          \/ contractSubmissions'[s].status \notin {"new", "fail_retry"}
    BY <2>1, HandlerScope, HandlerWrites, HandlerReads
    DEF NotifyStep, HandleNotification, SaveHistory
  <2>. QED
    BY <2>2, <2>3, <2>4 DEF UniqueInv, Stored
<1>2. CASE Elsewhere
  <2>1. StatusesKept /\ UNCHANGED runs /\ TasksMove
    BY <1>2, ElsewhereKeepsStatuses, ElsewhereKeepsServing, ElsewhereMovesTasks DEF UniqueInv
  <2>2. \A s \in SubmissionIds : BeingScheduled(s)' <=> BeingScheduled(s)
    BY <2>1 DEF BeingScheduled
  <2>3. \A s \in SubmissionIds : ~Stored(s) => ~TaskExists(s)
    BY NoneAssumption DEF TasksInv, TaskExists, Holds
  <2>. QED
    BY <2>1, <2>2, <2>3 DEF TasksMove, StatusesKept, UniqueInv, Stored
<1>. QED
  BY <1>1, <1>2, RunKeepsUnique DEF Next, Elsewhere

\* There are no tasks at the start.
LEMMA UniqueInit == Init => UniqueInv
BY DEF Init, StoreInit, SchedulerInit, TransportInit, WorkerInit, IdleRun, IdleHandler,
       UniqueInv, TaskIsUnique, TaskExists, Holds, Stored

\* One cron job at a time schedules a submission once: there is never a second copy
\* of its task, however often workers, connections and the broker fail, as long as
\* the gateway itself does not.
THEOREM UniqueTheorem ==
    ASSUME OneRun, GatewayHolds
    PROVE  Spec => []TaskIsUnique
<1>1. PipelineInv /\ ScheduledInv /\ StaleInv /\ UniqueInv /\ [Next]_vars => UniqueInv'
  BY UniqueStep
<1>2. PipelineInv /\ ScheduledInv /\ StaleInv /\ [Next]_vars => StaleInv'
  BY StaleStep
<1>3. PipelineInv /\ ScheduledInv /\ [Next]_vars => ScheduledInv'
  BY ScheduledStep
<1>4. UniqueInv => TaskIsUnique
  BY DEF UniqueInv
<1>. QED
  BY <1>1, <1>2, <1>3, <1>4, ScheduledInit, StaleInit, UniqueInit, PipelineInvariant, PTL
  DEF Spec
=============================================================================
