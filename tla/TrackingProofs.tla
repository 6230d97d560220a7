---------------------------- MODULE TrackingProofs ----------------------------
(***************************************************************************)
(* Why no submission is forgotten when workers die or lose the broker: the *)
(* acknowledgement comes after the verdict's POST was started, a crash     *)
(* puts the deliveries of the process back, and a notification under way   *)
(* ends as a record of its verdict.                                        *)
(***************************************************************************)
EXTENDS OutcomeProofs

USE DEF workerVars

\* Worker processes die, and lose the broker, but what they have sent arrives; the
\* gateway and the broker stay up.
OnlyWorkersFail == Faults \subseteq {"workerCrash", "connectionLost"}

\* The task of s is somewhere, or its verdict is.
Tracked(s) == TaskExists(s) \/ VerdictUnderway(s)

\* A row that has left `new', a run that has emitted, a notification or a handler is
\* about submission s.
Begun(s) ==
    \/ contractSubmissions[s] # None /\ contractSubmissions[s].status # "new"
    \/ \E r \in Runs : runs[r].pc \in {"record", "load", "write"} /\ runs[r].current = s
    \/ \E q \in Requests : requests[q] # None /\ requests[q].submission = s
    \/ \E h \in Handlers : handlers[h].pc # "idle" /\ handlers[h].task = s

\* Whatever has begun is tracked; a handler that has reported left a verdict behind,
\* and the handler of a verdict records a verdict.
TrackedInv ==
    /\ \A s \in SubmissionIds : Begun(s) => Tracked(s)
    /\ \A h \in Handlers, s \in SubmissionIds :
         (handlers[h].pc = "reported" /\ handlers[h].task = s) => VerdictUnderway(s)
    /\ \A q \in Requests :
         (/\ requests[q] # None
          /\ requests[q].status \in Verdicts
          /\ requests[q].stage \in {"confirm", "store", "undo", "record"}) =>
            requests[q].newStatus \in Verdicts

-----------------------------------------------------------------------------
(* What is under way, outside the gateway.                                 *)

\* The gateway keeps running.
LEMMA WorkersOnly == OnlyWorkersFail => GatewayHolds
BY DEF OnlyWorkersFail, GatewayHolds

\* No POST is lost; a new one is about a task its worker took or is taking.
LEMMA PostsArrive ==
    ASSUME PipelineInv, OnlyWorkersFail, Elsewhere, NEW q \in Requests
    PROVE  /\ (requests[q] # None /\ requests[q].stage # "failed") =>
                /\ requests'[q] # None
                /\ requests'[q].stage = requests[q].stage
                /\ requests'[q].submission = requests[q].submission
                /\ requests'[q].status = requests[q].status
           /\ requests'[q] # None =>
                \/ /\ requests[q] # None
                   /\ requests'[q].submission = requests[q].submission
                \/ queue[requests'[q].submission] > 0
                \/ \E h \in Handlers :
                     handlers[h].pc # "idle" /\ handlers[h].task = requests'[q].submission
<1>. USE DEF PipelineInv, TypeOK, TransportTypeOK
<1> DEFINE Arrives ==
      /\ (requests[q] # None /\ requests[q].stage # "failed") =>
           /\ requests'[q] # None
           /\ requests'[q].stage = requests[q].stage
           /\ requests'[q].submission = requests[q].submission
           /\ requests'[q].status = requests[q].status
      /\ requests'[q] # None =>
           \/ /\ requests[q] # None
              /\ requests'[q].submission = requests[q].submission
           \/ queue[requests'[q].submission] > 0
           \/ \E h \in Handlers :
                handlers[h].pc # "idle" /\ handlers[h].task = requests'[q].submission
<1>. SUFFICES Arrives
  OBVIOUS
<1>1. ASSUME requests'[q] = requests[q]
      PROVE  Arrives
  BY <1>1
<1>2. ASSUME NEW w, CrashLosing(w, {})
      PROVE  Arrives
  <2>1. CASE requests[q] = None
    BY <1>2, <2>1 DEF CrashLosing
  <2>2. CASE requests[q] # None
    <3>1. /\ requests[q] \in Notification
          /\ [requests[q] EXCEPT !.worker = None] \in Notification
      BY <2>2, NotificationInSlot DEF Notification
    <3>2. \/ requests'[q] = requests[q]
          \/ requests'[q] = None /\ requests[q].stage = "failed"
          \/ requests'[q] = [requests[q] EXCEPT !.worker = None]
      BY <1>2, <2>2 DEF CrashLosing
    <3>. QED
      BY <2>2, <3>1, <3>2, TransportAssumption DEF Notification
  <2>. QED
    BY <2>1, <2>2
<1>3. ASSUME NEW p \in Requests, NEW w, NEW s, NEW status, Post(p, w, s, status),
             \/ queue[s] > 0
             \/ \E h \in Handlers : handlers[h].pc # "idle" /\ handlers[h].task = s
      PROVE  Arrives
  <2>1. \/ requests'[q] = requests[q]
        \/ requests[q] = None /\ requests'[q].submission = s
    BY <1>3 DEF Post
  <2>. QED
    BY <1>3, <2>1
<1>4. CASE \E s \in SubmissionIds : ApiStep(s) \/ PublishTask(s)
  BY <1>1, <1>4 DEF ApiStep, PublishTask, transportVars
<1>5. \A w : LosablePosts(w) = {{}}
  BY DEF LosablePosts, OnlyWorkersFail
<1>6. CASE \E p \in Requests : ErrorStep(p)
  BY <1>2, <1>5, <1>6 DEF ErrorStep, NotifyError
<1>7. CASE \E h \in Handlers : WorkerStep(h)
  <2>1. PICK h \in Handlers : WorkerStep(h)
    BY <1>7
  <2>2. CASE TakeTask(h)
    BY <1>3, <2>2 DEF TakeTask
  <2>3. CASE Report(h)
    BY <1>3, <2>3 DEF Report, Verifying
  <2>4. CASE TakeTaskUnsigned(h) \/ ClearDirectory(h) \/ WriteFiles(h) \/ Ack(h)
    BY <1>1, <2>4 DEF TakeTaskUnsigned, ClearDirectory, WriteFiles, Ack, transportVars
  <2>. QED
    BY <2>1, <2>2, <2>3, <2>4 DEF WorkerStep
<1>8. CASE FaultStep
  BY <1>1, <1>2, <1>5, <1>8
  DEF FaultStep, OnlyWorkersFail, WorkerFault, WorkerCrash, ConnectionLost, BrokerRestart,
      NetworkFault, StoreFault, GatewayCrash
<1>9. CASE UNCHANGED vars
  BY <1>1, <1>9 DEF vars, transportVars
<1>. QED
  BY <1>4, <1>6, <1>7, <1>8, <1>9 DEF Elsewhere

\* A handler that is at work was before, or has taken its task from the queue; one
\* that has reported did so before, or just now.
LEMMA HandlersArise ==
    ASSUME PipelineInv, OnlyWorkersFail, Elsewhere, NEW h \in Handlers,
           handlers'[h].pc # "idle"
    PROVE  /\ \/ handlers[h].pc # "idle" /\ handlers'[h].task = handlers[h].task
              \/ queue[handlers'[h].task] > 0
           /\ handlers'[h].pc = "reported" =>
                \/ handlers[h].pc = "reported" /\ handlers'[h].task = handlers[h].task
                \/ Report(h)
<1>. USE DEF PipelineInv, TypeOK, WorkerTypeOK
<1>1. ASSUME handlers'[h] = handlers[h] \/ handlers'[h] = [handlers[h] EXCEPT !.held = FALSE]
      PROVE  /\ handlers[h].pc # "idle" /\ handlers'[h].task = handlers[h].task
             /\ handlers'[h].pc = handlers[h].pc
  BY <1>1 DEF Handler
<1>2. ASSUME NEW w, NEW lost, CrashLosing(w, lost)
      PROVE  handlers'[h] = handlers[h]
  BY <1>2 DEF CrashLosing, IdleHandler
<1>3. CASE \E s \in SubmissionIds : ApiStep(s) \/ PublishTask(s)
  BY <1>1, <1>3 DEF ApiStep, PublishTask
<1>4. CASE \E p \in Requests : ErrorStep(p)
  BY <1>1, <1>2, <1>4 DEF ErrorStep, NotifyError
<1>5. CASE \E g \in Handlers : WorkerStep(g)
  <2>1. PICK g \in Handlers : WorkerStep(g)
    BY <1>5
  <2>2. CASE TakeTask(g) \/ TakeTaskUnsigned(g)
    <3>1. PICK s \in SubmissionIds, pc \in {"started", "wedged"} :
            /\ queue[s] > 0
            /\ handlers' = [handlers EXCEPT ![g] = [pc |-> pc, task |-> s, held |-> TRUE]]
      BY <2>2 DEF TakeTask, TakeTaskUnsigned
    <3>2. CASE h = g
      <4>1. handlers'[h] = [pc |-> pc, task |-> s, held |-> TRUE]
        BY <3>1, <3>2
      <4>. QED
        BY <3>1, <4>1
    <3>3. CASE h # g
      BY <1>1, <3>1, <3>3
    <3>. QED
      BY <3>2, <3>3
  <2>3. CASE ClearDirectory(g) \/ WriteFiles(g) \/ Report(g) \/ Ack(g)
    <3>1. CASE h = g
      BY <2>3, <3>1 DEF ClearDirectory, WriteFiles, Report, Ack, Verifying, IdleHandler, Handler
    <3>2. CASE h # g
      <4>1. handlers'[h] = handlers[h]
        BY <2>3, <3>2 DEF ClearDirectory, WriteFiles, Report, Ack
      <4>. QED
        BY <1>1, <4>1
    <3>. QED
      BY <3>1, <3>2
  <2>. QED
    BY <2>1, <2>2, <2>3 DEF WorkerStep
<1>6. CASE FaultStep
  <2>1. WorkerFault
    BY <1>6
    DEF FaultStep, OnlyWorkersFail, BrokerRestart, NetworkFault, StoreFault, GatewayCrash
  <2>2. handlers'[h] = handlers[h] \/ handlers'[h] = [handlers[h] EXCEPT !.held = FALSE]
    <3>1. ASSUME NEW w, ConnectionLost(w)
          PROVE  handlers'[h] = handlers[h] \/ handlers'[h] = [handlers[h] EXCEPT !.held = FALSE]
      BY <3>1 DEF ConnectionLost, IdleHandler
    <3>. QED
      BY <1>2, <2>1, <3>1 DEF WorkerFault, WorkerCrash
  <2>. QED
    BY <1>1, <2>2
<1>7. CASE UNCHANGED vars
  BY <1>1, <1>7 DEF vars
<1>. QED
  BY <1>3, <1>4, <1>5, <1>6, <1>7 DEF Elsewhere

-----------------------------------------------------------------------------
(* What is tracked stays tracked.                                          *)

\* A verdict under way ends as a record.
LEMMA VerdictStays ==
    ASSUME PipelineInv, OnlyWorkersFail, TrackedInv, [Next]_vars,
           NEW s \in SubmissionIds, VerdictUnderway(s)
    PROVE  VerdictUnderway(s)'
<1>. USE DEF PipelineInv
<1>1. CASE HasRecord(s, Verdicts)
  BY <1>1, HistoryGrows DEF HasRecord, VerdictUnderway
<1>2. CASE ~HasRecord(s, Verdicts)
  <2>1. PICK q \in Requests :
          /\ requests[q] # None
          /\ requests[q].submission = s
          /\ requests[q].status \in Verdicts
          /\ requests[q].stage # "failed"
    BY <1>2 DEF VerdictUnderway
  <2>2. CASE \E r \in Runs : RunStep(r)
    BY <2>1, <2>2 DEF RunStep, transportVars, VerdictUnderway
  <2>3. CASE Elsewhere
    BY <2>1, <2>3, PostsArrive DEF VerdictUnderway
  <2>4. CASE \E p \in Requests : NotifyStep(p)
    <3>1. PICK p \in Requests : NotifyStep(p)
      BY <2>4
    <3>2. CASE p # q
      <4>1. requests'[q] = requests[q]
        BY <3>1, <3>2, HandlerScope
      <4>. QED
        BY <2>1, <4>1 DEF VerdictUnderway
    <3>3. CASE p = q /\ SaveHistory(q)
      <4> DEFINE record == [submissionId |-> s, prevStatus |-> requests[q].prevStatus,
                            newStatus |-> requests[q].newStatus]
      <4>1. requests[q].newStatus \in Verdicts
        BY <2>1, <3>3 DEF SaveHistory, InStage, TrackedInv
      <4>2. history' = history \cup {record}
        BY <2>1, <3>3 DEF SaveHistory, RecordTransition
      <4>3. /\ record \in history'
            /\ record.submissionId = s
            /\ record.newStatus \in Verdicts
        BY <4>1, <4>2
      <4>. HIDE DEF record
      <4>. QED
        BY <4>3 DEF HasRecord, VerdictUnderway
    <3>4. CASE p = q /\ ~SaveHistory(q)
      <4>1. /\ requests'[q] # None
            /\ requests'[q].stage # "failed"
        BY <3>1, <3>4, HandlerWrites, HandlerReads, HandlerScope DEF NotifyStep, HandleNotification
      <4>. QED
        BY <2>1, <3>1, <3>4, <4>1, HandlerScope DEF VerdictUnderway
    <3>. QED
      BY <3>2, <3>3, <3>4
  <2>. QED
    BY <2>2, <2>3, <2>4 DEF Next, Elsewhere
<1>. QED
  BY <1>1, <1>2

\* A task that a worker puts back is with the broker.
LEMMA RequeueKeepsTasksThere ==
    ASSUME PipelineInv, NEW w, Requeue(w), UNCHANGED outbox,
           \A h \in Handlers : WorkerOf[h] # w => handlers'[h] = handlers[h],
           NEW s \in SubmissionIds, TaskExists(s)
    PROVE  TaskExists(s)'
<1>1. queue[s] \in Nat
  BY DEF PipelineInv, TypeOK, TransportTypeOK
<1>2. CASE outbox[s] > 0 \/ queue[s] > 0
  BY <1>1, <1>2 DEF Requeue, TaskExists
<1>3. CASE \E h \in Handlers : Holds(h, s)
  <2>1. PICK h \in Handlers : Holds(h, s)
    BY <1>3
  <2>2. CASE WorkerOf[h] = w
    <3>1. queue'[s] = queue[s] + 1
      BY <2>1, <2>2 DEF Requeue
    <3>2. queue'[s] > 0
      BY <1>1, <3>1
    <3>. QED
      BY <3>2 DEF TaskExists
  <2>3. CASE WorkerOf[h] # w
    BY <2>1, <2>3 DEF TaskExists, Holds
  <2>. QED
    BY <2>2, <2>3
<1>. QED
  BY <1>2, <1>3 DEF TaskExists

\* A task goes from the outbox to the queue, to a handler and back; when it is
\* acknowledged its verdict is under way.
LEMMA TaskStays ==
    ASSUME PipelineInv, OnlyWorkersFail, TrackedInv, [Next]_vars,
           NEW s \in SubmissionIds, TaskExists(s)
    PROVE  Tracked(s)'
<1>. USE DEF PipelineInv
<1>0. ASSUME outbox'[s] = outbox[s], queue'[s] = queue[s],
             \A h \in Handlers : Holds(h, s) => Holds(h, s)'
      PROVE  Tracked(s)'
  BY <1>0 DEF TaskExists, Tracked
<1>1. ASSUME UNCHANGED <<outbox, queue, handlers>>
      PROVE  Tracked(s)'
  BY <1>1 DEF TaskExists, Holds, Tracked
<1>2. CASE \E t \in SubmissionIds : ApiStep(t)
  BY <1>1, <1>2 DEF ApiStep, schedulerVars, transportVars
<1>3. CASE \E t \in SubmissionIds : PublishTask(t)
  <2>1. PICK t \in SubmissionIds : PublishTask(t)
    BY <1>3
  <2>2. outbox[s] \in Nat /\ queue[s] \in Nat
    BY DEF TypeOK, SchedulerTypeOK, TransportTypeOK
  <2>3. CASE s = t
    <3>1. queue'[s] > 0
      BY <2>1, <2>2, <2>3 DEF PublishTask, TypeOK, TransportTypeOK
    <3>. QED
      BY <3>1 DEF Tracked, TaskExists
  <2>4. CASE s # t
    <3>1. outbox'[s] = outbox[s] /\ queue'[s] = queue[s] /\ UNCHANGED handlers
      BY <2>1, <2>4 DEF PublishTask, TypeOK, SchedulerTypeOK, TransportTypeOK
    <3>. QED
      BY <1>0, <3>1 DEF Holds
  <2>. QED
    BY <2>3, <2>4
<1>4. CASE \E r \in Runs : RunStep(r)
  <2>1. PICK r \in Runs : RunStep(r)
    BY <1>4
  <2>2. CASE EmitTask(r)
    <3>1. outbox[s] \in Nat /\ (outbox'[s] = outbox[s] \/ outbox'[s] = outbox[s] + 1)
      BY <2>2 DEF EmitTask, TypeOK, SchedulerTypeOK
    <3>2. outbox[s] > 0 => outbox'[s] > 0
      BY <3>1
    <3>3. UNCHANGED <<queue, handlers>>
      BY <2>1 DEF RunStep, transportVars
    <3>. QED
      BY <3>2, <3>3 DEF TaskExists, Holds, Tracked
  <2>3. CASE ~EmitTask(r)
    BY <1>1, <2>1, <2>3
    DEF RunStep, CronFires, RecordPending, SaveLoad, SaveWrite, transportVars
  <2>. QED
    BY <2>2, <2>3
<1>5. CASE \E q \in Requests : NotifyStep(q)
  BY <1>1, <1>5
  DEF NotifyStep, HandleNotification, FindSubmission, UpdateProcessing, UpdateFail,
      UpdateSuccess, UpdateStatus, ConfirmRead, StoreContract, UndoSuccess, SaveHistory,
      schedulerVars
<1>6. ASSUME NEW w, NEW lost, CrashLosing(w, lost), UNCHANGED outbox
      PROVE  Tracked(s)'
  BY <1>6, RequeueKeepsTasksThere DEF CrashLosing, Tracked
<1>7. CASE \E q \in Requests : ErrorStep(q)
  BY <1>6, <1>7 DEF ErrorStep, NotifyError, schedulerVars
<1>8. CASE \E h \in Handlers : WorkerStep(h)
  <2>1. PICK h \in Handlers : WorkerStep(h)
    BY <1>8
  <2>2. CASE TakeTask(h) \/ TakeTaskUnsigned(h)
    <3>1. PICK t \in SubmissionIds, pc \in {"started", "wedged"} :
            /\ queue' = [queue EXCEPT ![t] = queue[t] - 1]
            /\ handlers' = [handlers EXCEPT ![h] = [pc |-> pc, task |-> t, held |-> TRUE]]
            /\ ~handlers[h].held
      BY <2>2 DEF TakeTask, TakeTaskUnsigned, MayReceive
    <3>2. CASE s = t
      <4>1. Holds(h, s)'
        BY <3>1, <3>2 DEF Holds, TypeOK, WorkerTypeOK
      <4>. QED
        BY <4>1 DEF Tracked, TaskExists
    <3>3. CASE s # t
      <4>1. outbox'[s] = outbox[s] /\ queue'[s] = queue[s]
        BY <2>1, <3>1, <3>3 DEF WorkerStep, schedulerVars, TypeOK, TransportTypeOK
      <4>2. \A g \in Handlers : Holds(g, s) => Holds(g, s)'
        BY <3>1 DEF Holds, TypeOK, WorkerTypeOK
      <4>. QED
        BY <1>0, <4>1, <4>2
    <3>. QED
      BY <3>2, <3>3
  <2>3. CASE ClearDirectory(h) \/ WriteFiles(h) \/ Report(h)
    <3>1. UNCHANGED <<outbox, queue>>
      BY <2>1, <2>3
      DEF WorkerStep, ClearDirectory, WriteFiles, Report, schedulerVars, transportVars
    <3>2. \A g \in Handlers : Holds(g, s) => Holds(g, s)'
      BY <2>3 DEF ClearDirectory, WriteFiles, Report, Holds, TypeOK, WorkerTypeOK, Handler
    <3>. QED
      BY <1>0, <3>1, <3>2
  <2>4. CASE Ack(h)
    <3>1. CASE Holds(h, s)
      <4>1. VerdictUnderway(s)
        BY <2>4, <3>1 DEF Ack, Holds, TrackedInv
      <4>. QED
        BY <4>1, VerdictStays DEF Tracked
    <3>2. CASE ~Holds(h, s)
      <4>1. UNCHANGED <<outbox, queue>>
        BY <2>1, <2>4 DEF WorkerStep, Ack, schedulerVars, transportVars
      <4>2. \A g \in Handlers : Holds(g, s) => Holds(g, s)'
        BY <2>4, <3>2 DEF Ack, Holds
      <4>. QED
        BY <1>0, <4>1, <4>2
    <3>. QED
      BY <3>1, <3>2
  <2>. QED
    BY <2>1, <2>2, <2>3, <2>4 DEF WorkerStep
<1>9. CASE FaultStep
  <2>1. WorkerFault
    BY <1>9
    DEF FaultStep, OnlyWorkersFail, BrokerRestart, NetworkFault, StoreFault, GatewayCrash
  <2>2. ASSUME NEW w, ConnectionLost(w), UNCHANGED outbox
        PROVE  Tracked(s)'
    BY <2>2, RequeueKeepsTasksThere DEF ConnectionLost, Tracked
  <2>. QED
    BY <1>6, <2>1, <2>2 DEF WorkerFault, WorkerCrash, schedulerVars
<1>10. CASE UNCHANGED vars
  BY <1>1, <1>10 DEF vars, schedulerVars, transportVars
<1>. QED
  BY <1>2, <1>3, <1>4, <1>5, <1>7, <1>8, <1>9, <1>10 DEF Next

\* Both together.
LEMMA TrackedStays ==
    ASSUME PipelineInv, OnlyWorkersFail, TrackedInv, [Next]_vars,
           NEW s \in SubmissionIds, Tracked(s)
    PROVE  Tracked(s)'
BY VerdictStays, TaskStays DEF Tracked

-----------------------------------------------------------------------------
(* And what has begun is tracked.                                          *)

\* A run emits before it records, and records before it saves.
LEMMA RunKeepsTracked ==
    ASSUME PipelineInv, OnlyWorkersFail, ScheduledInv, TrackedInv, NEW r \in Runs, RunStep(r)
    PROVE  TrackedInv'
<1>. USE DEF PipelineInv
<1>1. /\ UNCHANGED <<requests, handlers>>
      /\ \A p \in Runs : p # r => runs'[p] = runs[p]
  BY DEF RunStep, CronFires, EmitTask, RecordPending, SaveLoad, SaveWrite, transportVars,
         TypeOK, SchedulerTypeOK
<1>2. ASSUME NEW s \in SubmissionIds,
             runs'[r].pc \in {"record", "load", "write"}, runs'[r].current = s
      PROVE  Begun(s) \/ Tracked(s)'
  <2>1. CASE EmitTask(r)
    <3>1. PICK e \in SubmissionIds :
            /\ outbox' = [outbox EXCEPT ![e] = outbox[e] + 1]
            /\ runs' = [runs EXCEPT ![r].pc = "record", ![r].current = e]
      BY <2>1 DEF EmitTask
    <3>2. e = s
      BY <1>2, <3>1 DEF TypeOK, SchedulerTypeOK, Run
    <3>3. outbox[s] \in Nat /\ outbox'[s] = outbox[s] + 1
      BY <3>1, <3>2 DEF TypeOK, SchedulerTypeOK
    <3>4. outbox'[s] > 0
      BY <3>3
    <3>. QED
      BY <3>4 DEF Tracked, TaskExists
  <2>2. CASE RecordPending(r) \/ SaveLoad(r)
    <3>1. runs[r].pc \in {"record", "load"} /\ runs'[r].current = runs[r].current
      BY <2>2 DEF RecordPending, SaveLoad, TypeOK, SchedulerTypeOK, Run
    <3>. QED
      BY <1>2, <3>1 DEF Begun
  <2>3. CASE CronFires(r)
    <3>1. PICK batch : runs' = [runs EXCEPT ![r] = [IdleRun EXCEPT !.pc = "emit",
                                                                  !.batch = batch]]
      BY <2>3 DEF CronFires
    <3>. QED
      BY <1>2, <3>1 DEF IdleRun, TypeOK, SchedulerTypeOK
  <2>4. CASE SaveWrite(r)
    BY <1>2, <2>4 DEF SaveWrite, NextInBatch, IdleRun, TypeOK, SchedulerTypeOK, Run
  <2>. QED
    BY <2>1, <2>2, <2>3, <2>4 DEF RunStep
<1>3. ASSUME NEW s \in SubmissionIds, contractSubmissions'[s] # contractSubmissions[s]
      PROVE  Begun(s)
  <2>1. SaveWrite(r) /\ s = runs[r].current
    BY <1>3, RunWrites DEF Stored
  <2>. QED
    BY <2>1 DEF SaveWrite, Begun
<1>4. ASSUME NEW s \in SubmissionIds, Begun(s)'
      PROVE  Begun(s) \/ Tracked(s)'
  BY <1>1, <1>2, <1>3, <1>4 DEF Begun
<1>5. \A s \in SubmissionIds : Begun(s)' => Tracked(s)'
  BY <1>4, TrackedStays DEF TrackedInv, Next
<1>6. \A h \in Handlers, s \in SubmissionIds :
        (handlers'[h].pc = "reported" /\ handlers'[h].task = s) => VerdictUnderway(s)'
  BY <1>1, VerdictStays DEF TrackedInv, Next
<1>. QED
  BY <1>1, <1>5, <1>6 DEF TrackedInv

\* The handler of a notification works on a submission that is tracked, and the
\* handler of a verdict writes a verdict.
LEMMA HandlerKeepsTracked ==
    ASSUME PipelineInv, OnlyWorkersFail, TrackedInv, NEW q \in Requests, NotifyStep(q)
    PROVE  TrackedInv'
<1> DEFINE n == requests[q].submission
<1>1. /\ UNCHANGED <<runs, handlers>>
      /\ n \in SubmissionIds
      /\ requests[q] # None
      /\ \A p \in Requests : p # q => requests'[p] = requests[p]
      /\ requests'[q] # None =>
           requests'[q].submission = n /\ requests'[q].status = requests[q].status
  BY HandlerScope DEF NotifyStep
<1>2. \A s \in SubmissionIds : s # n => contractSubmissions'[s] = contractSubmissions[s]
  BY HandlerScope, HandlerWrites, HandlerReads DEF NotifyStep, HandleNotification, SaveHistory
<1>3. ASSUME NEW s \in SubmissionIds, Begun(s)'
      PROVE  Begun(s)
  BY <1>1, <1>2, <1>3 DEF Begun
<1>4. \A s \in SubmissionIds : Begun(s)' => Tracked(s)'
  BY <1>3, TrackedStays DEF TrackedInv, Next
<1>5. \A h \in Handlers, s \in SubmissionIds :
        (handlers'[h].pc = "reported" /\ handlers'[h].task = s) => VerdictUnderway(s)'
  BY <1>1, VerdictStays DEF TrackedInv, Next
<1>6. ASSUME requests'[q] # None, requests'[q].status \in Verdicts,
             requests'[q].stage \in {"confirm", "store", "undo", "record"}
      PROVE  requests'[q].newStatus \in Verdicts
  <2>1. CASE UpdateProcessing(q) \/ UpdateFail(q) \/ UpdateSuccess(q) \/ UndoSuccess(q)
    BY <1>1, <1>6, <2>1, HandlerWrites DEF Verdicts
  <2>2. CASE FindSubmission(q) \/ ConfirmRead(q) \/ StoreContract(q)
    BY <1>1, <1>6, <2>2, HandlerReads DEF TrackedInv
  <2>3. CASE SaveHistory(q)
    BY <1>6, <2>3 DEF SaveHistory, PipelineInv, TypeOK, TransportTypeOK
  <2>. QED
    BY <2>1, <2>2, <2>3 DEF NotifyStep, HandleNotification
<1>. QED
  BY <1>1, <1>4, <1>5, <1>6 DEF TrackedInv

\* Workers work on tasks there are, and report before they acknowledge.
LEMMA ElsewhereKeepsTracked ==
    ASSUME PipelineInv, OnlyWorkersFail, TrackedInv, Elsewhere
    PROVE  TrackedInv'
<1>1. UNCHANGED runs /\ StatusesKept /\ ServingKept
  BY WorkersOnly, ElsewhereKeepsStatuses, ElsewhereKeepsServing
<1>2. ASSUME NEW s \in SubmissionIds, Begun(s)'
      PROVE  Begun(s) \/ queue[s] > 0
  <2>1. CASE contractSubmissions'[s] # None /\ contractSubmissions'[s].status # "new"
    BY <1>1, <2>1 DEF StatusesKept, Begun, Stored
  <2>2. ASSUME NEW q \in Requests, requests'[q] # None, requests'[q].submission = s
        PROVE  Begun(s) \/ queue[s] > 0
    BY <2>2, PostsArrive DEF Begun
  <2>3. ASSUME NEW h \in Handlers, handlers'[h].pc # "idle", handlers'[h].task = s
        PROVE  Begun(s) \/ queue[s] > 0
    BY <2>3, HandlersArise DEF Begun
  <2>. QED
    BY <1>1, <1>2, <2>1, <2>2, <2>3 DEF Begun
<1>3. \A s \in SubmissionIds : Begun(s)' => Tracked(s)'
  BY <1>2, TrackedStays DEF TrackedInv, Tracked, TaskExists, Next, Elsewhere
<1>4. ASSUME NEW h \in Handlers, NEW s \in SubmissionIds,
             handlers'[h].pc = "reported", handlers'[h].task = s
      PROVE  VerdictUnderway(s)'
  <2>1. CASE Report(h)
    <3>1. PICK q \in Requests, verdict \in Verdicts :
            Post(q, WorkerOf[h], handlers[h].task, verdict)
      BY <2>1 DEF Report, PossibleVerdicts, Verdicts
    <3>2. handlers[h].task = s
      BY <1>4, <2>1 DEF Report, PipelineInv, TypeOK, WorkerTypeOK, Handler
    <3>3. requests'[q] = [stage |-> "sent", submission |-> s, status |-> verdict,
                          worker |-> WorkerOf[h], prevStatus |-> None, newStatus |-> None,
                          compiler |-> FALSE]
      BY <3>1, <3>2 DEF Post, PipelineInv, TypeOK, TransportTypeOK
    <3>4. requests'[q] # None
      <4>1. s \in SubmissionIds /\ verdict \in NotificationStatus /\ WorkerOf[h] \in Workers
        BY <3>1, WorkerAssumption DEF Verdicts, NotificationStatus
      <4>2. requests'[q] \in Notification
        BY <3>3, <4>1 DEF Notification, Stages
      <4>. QED
        BY <4>2, TransportAssumption
    <3>. QED
      BY <3>3, <3>4 DEF VerdictUnderway
  <2>2. CASE ~Report(h)
    <3>1. handlers[h].pc = "reported" /\ handlers[h].task = s
      BY <1>4, <2>2, HandlersArise
    <3>. QED
      BY <3>1, VerdictStays DEF TrackedInv, Next, Elsewhere
  <2>. QED
    BY <2>1, <2>2
<1>5. ASSUME NEW q \in Requests, requests'[q] # None, requests'[q].status \in Verdicts,
             requests'[q].stage \in {"confirm", "store", "undo", "record"}
      PROVE  requests'[q].newStatus \in Verdicts
  BY <1>1, <1>5 DEF ServingKept, Serving, TrackedInv
<1>. QED
  BY <1>3, <1>4, <1>5 DEF TrackedInv

\* Nothing has begun at the start.
LEMMA TrackedInit == Init => TrackedInv
BY DEF Init, StoreInit, SchedulerInit, TransportInit, WorkerInit, IdleRun, IdleHandler,
       TrackedInv, Begun

\* A submission that left `new' is never forgotten: its task is still somewhere, or
\* its verdict is on record or on its way, through every crash of a worker and
\* every loss of its connection, with any number of overlapping runs and workers.
THEOREM TrackedTheorem ==
    ASSUME OnlyWorkersFail
    PROVE  Spec => []UnfinishedIsTracked
<1>1. PipelineInv /\ ScheduledInv /\ TrackedInv /\ [Next]_vars => TrackedInv'
  BY RunKeepsTracked, HandlerKeepsTracked, ElsewhereKeepsTracked DEF Next, Elsewhere
<1>2. PipelineInv /\ ScheduledInv /\ [Next]_vars => ScheduledInv'
  BY ScheduledStep
<1>3. TrackedInv => UnfinishedIsTracked
  BY DEF TrackedInv, Begun, UnfinishedIsTracked, Tracked, Stored, StatusOf
<1>. QED
  BY <1>1, <1>2, <1>3, ScheduledInit, TrackedInit, PipelineInvariant, PTL DEF Spec
=============================================================================
