------------------------- MODULE VerificationWorker -------------------------
(***************************************************************************)
(* The verification worker: VerificationAgentController, which consumes    *)
(* tasks with prefetch 1 and manual acknowledgement, and the notifications *)
(* VerificationService sends about them.  The POSTs are started and never  *)
(* awaited, so a handler runs ahead of what it reported; an error answer   *)
(* reaches no handler and takes the whole process down, which restarts.    *)
(*                                                                         *)
(* All handlers of a process compile in one directory: each wipes it and   *)
(* writes the files of its own task.                                       *)
(***************************************************************************)
EXTENDS Transport

CONSTANTS
    Handlers,        \* invocations of onNewVerificationTask, over all workers
    WorkerOf,        \* the process a handler runs in
    Misconfigured    \* processes whose private key cannot sign

ASSUME WorkerAssumption ==
    /\ WorkerOf \in [Handlers -> Workers]
    /\ Misconfigured \subseteq Workers

VARIABLES
    handlers,    \* the invocations of onNewVerificationTask
    directory    \* the submissions whose files are in a process's directory

workerVars == <<handlers, directory>>

\* "started", "cleared" and "written" tell how far processVerificationTask got;
\* "wedged": the handler returned early and left its delivery unacknowledged.
\* `held' tells whether the delivery still belongs to the open channel.
Handler ==
    [pc   : {"idle", "started", "cleared", "written", "reported", "wedged"},
     task : SubmissionIds \cup {None},
     held : BOOLEAN]

IdleHandler == [pc |-> "idle", task |-> None, held |-> FALSE]

WorkerTypeOK ==
    /\ handlers \in [Handlers -> Handler]
    /\ directory \in [Workers -> SUBSET SubmissionIds]

WorkerInit ==
    /\ handlers = [h \in Handlers |-> IdleHandler]
    /\ directory = [w \in Workers |-> {}]

\* Handler h is inside processVerificationTask.
Verifying(h) == handlers[h].pc \in {"started", "cleared", "written"}

Holds(h, s) == handlers[h].held /\ handlers[h].task = s

\* Seeded bug: no prefetchCount.
MayReceiveMore(w) == w \in Workers

\* Prefetch 1: no further delivery while the channel has one unacknowledged.
MayReceive(w) == \A h \in Handlers : WorkerOf[h] = w => ~handlers[h].held

\* Seeded bug: the channel consumes with noAck.
TakeTaskNoAck(h) ==
    /\ handlers[h].pc = "idle"
    /\ MayReceive(WorkerOf[h])
    /\ WorkerOf[h] \notin Misconfigured
    /\ \E s \in SubmissionIds, q \in Requests :
         /\ queue[s] > 0
         /\ queue' = [queue EXCEPT ![s] = @ - 1]
         /\ handlers' = [handlers EXCEPT ![h] =
              [pc |-> "started", task |-> s, held |-> FALSE]]
         /\ Post(q, WorkerOf[h], s, "processing")
    /\ UNCHANGED <<storeVars, directory>>

\* The broker delivers a task; the handler signs and starts the `processing' POST.
TakeTask(h) ==
    /\ handlers[h].pc = "idle"
    /\ MayReceive(WorkerOf[h])
    /\ WorkerOf[h] \notin Misconfigured
    /\ \E s \in SubmissionIds, q \in Requests :
         /\ queue[s] > 0
         /\ queue' = [queue EXCEPT ![s] = @ - 1]
         /\ handlers' = [handlers EXCEPT ![h] =
              [pc |-> "started", task |-> s, held |-> TRUE]]
         /\ Post(q, WorkerOf[h], s, "processing")
    /\ UNCHANGED <<storeVars, directory>>

\* Seeded bug: the early return acknowledges the task.
TakeTaskUnsignedAcked(h) ==
    /\ handlers[h].pc = "idle"
    /\ MayReceive(WorkerOf[h])
    /\ WorkerOf[h] \in Misconfigured
    /\ \E s \in SubmissionIds :
         /\ queue[s] > 0
         /\ queue' = [queue EXCEPT ![s] = @ - 1]
    /\ UNCHANGED <<storeVars, requests, workerVars>>

\* Signing throws: the handler logs it and returns without an ack.
TakeTaskUnsigned(h) ==
    /\ handlers[h].pc = "idle"
    /\ MayReceive(WorkerOf[h])
    /\ WorkerOf[h] \in Misconfigured
    /\ \E s \in SubmissionIds :
         /\ queue[s] > 0
         /\ queue' = [queue EXCEPT ![s] = @ - 1]
         /\ handlers' = [handlers EXCEPT ![h] =
              [pc |-> "wedged", task |-> s, held |-> TRUE]]
    /\ UNCHANGED <<storeVars, requests, directory>>

\* Seeded bug: what earlier tasks left in the directory stays.
ClearDirectoryPartly(h) ==
    /\ handlers[h].pc = "started"
    /\ handlers' = [handlers EXCEPT ![h].pc = "cleared"]
    /\ UNCHANGED <<storeVars, transportVars, directory>>

\* rm -rf of everything in the directory.
ClearDirectory(h) ==
    /\ handlers[h].pc = "started"
    /\ directory' = [directory EXCEPT ![WorkerOf[h]] = {}]
    /\ handlers' = [handlers EXCEPT ![h].pc = "cleared"]
    /\ UNCHANGED <<storeVars, transportVars>>

\* The task's files are written into whatever is in the directory by then.
WriteFiles(h) ==
    /\ handlers[h].pc = "cleared"
    /\ directory' = [directory EXCEPT ![WorkerOf[h]] = @ \cup {handlers[h].task}]
    /\ handlers' = [handlers EXCEPT ![h].pc = "written"]
    /\ UNCHANGED <<storeVars, transportVars>>

\* The entry file compiles to the task's bytecode.  Only what is in the
\* directory counts; of files that are not all the task's own nothing is known.
MayValidate(h) ==
    /\ handlers[h].pc = "written"
    /\ IF directory[WorkerOf[h]] = {handlers[h].task}
       THEN contractSubmissions[handlers[h].task].genuine
       ELSE directory[WorkerOf[h]] # {}

\* Seeded bug: the exit code of --validate is ignored.
PossibleVerdictsUnvalidated(h) ==
    {"fail"} \cup IF handlers[h].pc = "written" THEN {"success"} ELSE {}

\* What processVerificationTask may conclude: every step has a failure of its
\* own, success takes the validation.
PossibleVerdicts(h) == {"fail"} \cup IF MayValidate(h) THEN {"success"} ELSE {}

\* processVerificationTask ends by starting the POST of its verdict.
Report(h) ==
    /\ Verifying(h)
    /\ \E verdict \in PossibleVerdicts(h), q \in Requests :
         Post(q, WorkerOf[h], handlers[h].task, verdict)
    /\ handlers' = [handlers EXCEPT ![h].pc = "reported"]
    /\ UNCHANGED <<storeVars, queue, directory>>

\* channel.ack: the task leaves the broker if the delivery is still the
\* channel's own; an ack on a channel that is gone does nothing.
Ack(h) ==
    /\ handlers[h].pc = "reported"
    /\ handlers' = [handlers EXCEPT ![h] = IdleHandler]
    /\ UNCHANGED <<storeVars, transportVars, directory>>

\* The broker puts the deliveries worker w has not acknowledged back.
Requeue(w) ==
    queue' = [s \in SubmissionIds |->
                IF \E h \in Handlers : WorkerOf[h] = w /\ Holds(h, s)
                THEN queue[s] + 1 ELSE queue[s]]

\* The connection between worker w and the broker breaks and is re-established;
\* handlers that run go on.
ConnectionLost(w) ==
    /\ \E h \in Handlers : WorkerOf[h] = w /\ handlers[h].held
    /\ Requeue(w)
    /\ handlers' = [h \in Handlers |->
         IF WorkerOf[h] # w THEN handlers[h]
         ELSE IF handlers[h].pc = "wedged" THEN IdleHandler
         ELSE [handlers[h] EXCEPT !.held = FALSE]]
    /\ UNCHANGED <<storeVars, requests, directory>>

SentBy(w) == {q \in Requests : InStage(q, "sent") /\ requests[q].worker = w}

\* Process w dies and is started again.  Its POSTs in `lost' never leave the
\* machine; the others are served although nobody waits for the answer.  The
\* files of a container outlive its process.
CrashLosing(w, lost) ==
    /\ Requeue(w)
    /\ handlers' = [h \in Handlers |->
                      IF WorkerOf[h] = w THEN IdleHandler ELSE handlers[h]]
    /\ requests' = [q \in Requests |->
         IF requests[q] = None \/ q \in lost THEN None
         ELSE IF requests[q].worker # w THEN requests[q]
         ELSE IF requests[q].stage = "failed" THEN None
         ELSE [requests[q] EXCEPT !.worker = None]]
    /\ UNCHANGED <<storeVars, directory>>

WorkerCrash(w, lost) ==
    /\ \/ \E h \in Handlers : WorkerOf[h] = w /\ handlers[h].pc # "idle"
       \/ SentBy(w) # {}
    /\ CrashLosing(w, lost)

\* An error answer is an unhandled error of the observable: the process ends.
NotifyError(q, lost) ==
    /\ InStage(q, "failed")
    /\ CrashLosing(requests[q].worker, lost)
=============================================================================
