------------------------- MODULE PipelineProperties -------------------------
(***************************************************************************)
(* What the verification pipeline must guarantee, and under which faults.  *)
(* Which run checks what is said in the README.                            *)
(***************************************************************************)
EXTENDS VerificationPipeline

\* Submission s has a row; the contract it is about.
ContractOf(s) == contractSubmissions[s].contractId

\* What a user who polls the status of s is told.
ReportedStatus(s) == CheckSubmissionStatus(ContractOf(s), s).status

\* A handler is between its UPDATE to success and what it finally makes of it.
Confirming(s) ==
    \E q \in Requests :
        /\ requests[q] # None
        /\ requests[q].submission = s
        /\ requests[q].stage \in {"confirm", "store", "undo"}
-----------------------------------------------------------------------------
(* The abstract registry.                                                  *)

Registry == INSTANCE VerifiedRegistry WITH
    claims <- [s \in SubmissionIds |->
        IF Stored(s)
        THEN [contractId |-> contractSubmissions[s].contractId,
              genuine    |-> contractSubmissions[s].genuine]
        ELSE None],
    registry <- [c \in ContractIds |->
        IF contracts[c] = None THEN None ELSE contracts[c].submission]

\* Only sources that compile to the contract's bytecode are ever published, the
\* first published for a contract stay, and a claim never changes: submit, the
\* worker's directory, confirmSubmission and the unique contractId together,
\* whatever is crashed, reordered or submitted twice, as long as no two handlers
\* of a process overlap.
ImplementsRegistry == Registry!Spec

-----------------------------------------------------------------------------
(* The invariants behind the registry.                                     *)

\* A request being served has no row yet under the id it will get.
IntakeInv == \A s \in SubmissionIds : intake[s] # None => ~Stored(s)

\* Tasks, wherever they are, are about submissions that exist.
TasksInv ==
    /\ \A s \in SubmissionIds : (outbox[s] > 0 \/ queue[s] > 0) => Stored(s)
    /\ \A h \in Handlers :
         /\ handlers[h].pc # "idle" => handlers[h].task # None
         /\ handlers[h].task # None => Stored(handlers[h].task)

\* A run holds entities of rows, and in its loop the one it works on.
RunsInv ==
    \A r \in Runs :
        /\ \A s \in SubmissionIds : runs[r].batch[s] # None => Stored(s)
        /\ runs[r].pc \in {"record", "load", "write"} =>
             /\ runs[r].current # None
             /\ runs[r].batch[runs[r].current] # None
        /\ runs[r].pc = "write" => runs[r].loaded # None

\* A notification is about a submission that exists, and its handler has read
\* before it writes what it read.
NotificationsInv ==
    \A q \in Requests : requests[q] # None =>
        LET n == requests[q] IN
        /\ Stored(n.submission)
        /\ n.stage \in {"found", "confirm", "store", "undo", "record"} =>
             n.prevStatus # None
        /\ n.stage \in {"confirm", "store", "undo", "record"} => n.newStatus # None
        /\ n.stage \in {"confirm", "store", "undo"} => n.status = "success"

\* Whatever a task, an entity or a notification is about is stored, and what a
\* handler or a run is about to write it has read: through every redelivery,
\* crash and failing statement.
PipelineInv == TypeOK /\ IntakeInv /\ TasksInv /\ RunsInv /\ NotificationsInv

\* No two handlers of one process are at work at a time.
TasksComeOneByOne ==
    \A g, h \in Handlers :
        (g # h /\ WorkerOf[g] = WorkerOf[h]) => ~(Verifying(g) /\ Verifying(h))

\* A process that keeps its connection has one delivery, and every handler in it
\* still owns its own: prefetchCount and the late ack together.
DeliveriesInv ==
    /\ \A h \in Handlers : handlers[h].pc # "idle" => handlers[h].held
    /\ \A g, h \in Handlers :
         (WorkerOf[g] = WorkerOf[h] /\ handlers[g].held /\ handlers[h].held) => g = h

\* The directory holds what its handler put there, and every success on its way
\* is about genuine sources.
SandboxInv ==
    /\ \A h \in Handlers :
         /\ handlers[h].pc = "cleared" => directory[WorkerOf[h]] = {}
         /\ handlers[h].pc = "written" => directory[WorkerOf[h]] = {handlers[h].task}
    /\ \A q \in Requests :
         (requests[q] # None /\ requests[q].status = "success") =>
            contractSubmissions[requests[q].submission].genuine
-----------------------------------------------------------------------------
(* Safety.                                                                 *)

\* A user who is told `success' finds the sources of that very submission
\* published, except while the handler that wrote the status is still at work:
\* update, confirmSubmission, insert and the catch that takes a success back,
\* in any interleaving with other notifications and with the scheduler's save.
SuccessIsPublished ==
    \A s \in SubmissionIds :
        (Stored(s) /\ ReportedStatus(s) = "success" /\ ~Confirming(s)) =>
            \E contract \in GetVerifiedContracts({ContractOf(s)}) : contract.submission = s

\* The verdict of a task is recorded or in a notification that will record it.
VerdictUnderway(s) ==
    \/ HasRecord(s, Verdicts)
    \/ \E q \in Requests :
         /\ requests[q] # None
         /\ requests[q].submission = s
         /\ requests[q].status \in Verdicts
         /\ requests[q].stage # "failed"

TaskExists(s) ==
    \/ outbox[s] > 0
    \/ queue[s] > 0
    \/ \E h \in Handlers : Holds(h, s)

\* The scheduler looks only for new submissions, so one that left that status
\* must never be forgotten: its task is still somewhere, or its verdict is.
\* Acknowledging after the verdict was sent is what this asks of the worker.
UnfinishedIsTracked ==
    \A s \in SubmissionIds :
        (Stored(s) /\ StatusOf(s) # "new") => TaskExists(s) \/ VerdictUnderway(s)

\* A handler past its UPDATE that still has to write its history record.
WillRecord(s, status) ==
    \E q \in Requests :
        /\ requests[q] # None
        /\ requests[q].submission = s
        /\ requests[q].stage \in {"confirm", "store", "undo", "record"}
        /\ requests[q].newStatus = status

\* The history explains every status a row has left `new' for: somebody
\* recorded the transition into it, or is about to.
HistoryExplainsStatus ==
    \A s \in SubmissionIds :
        (Stored(s) /\ StatusOf(s) # "new") =>
            HasRecord(s, {StatusOf(s)}) \/ WillRecord(s, StatusOf(s))

\* One cron job at a time schedules a submission once: there is never a second
\* copy of its task, however often workers and connections fail.
TaskIsUnique ==
    \A s \in SubmissionIds :
        /\ outbox[s] + queue[s] <= 1
        /\ (outbox[s] + queue[s] = 1) => \A h \in Handlers : ~Holds(h, s)
        /\ \A g, h \in Handlers : Holds(g, s) /\ Holds(h, s) => g = h

\* The compiler of a published contract is known: save, which also clears the
\* columns the scheduler's stale entity lacks, never slips in between the
\* UPDATE to success and the copy into contracts.
PublishedHasCompiler ==
    \A c \in ContractIds :
        GetVerifiedContract(c) # None => GetVerifiedContract(c).compiler

\* A user who is told `fail' is told why.
FailIsExplained ==
    \A s \in SubmissionIds :
        (Stored(s) /\ ReportedStatus(s) = "fail") =>
            CheckSubmissionStatus(ContractOf(s), s).message
-----------------------------------------------------------------------------
(* Liveness.                                                               *)

\* Every submission is taken up by the cron job, however often the gateway
\* crashes or a statement of the job fails.
NewIsScheduled ==
    \A s \in SubmissionIds :
        s \in InStatus("new") ~> s \notin InStatus("new")

\* Every submission gets a verdict on record, however often a worker crashes
\* or loses its connection while it works on the task.
VerdictIsRecorded ==
    \A s \in SubmissionIds : Stored(s) ~> HasRecord(s, Verdicts)
-----------------------------------------------------------------------------
(* What the documents say of the program and the code does not do.         *)

\* Nothing is left to happen to submission s.
Settled(s) ==
    /\ Stored(s)
    /\ ~TaskExists(s)
    /\ \A q \in Requests : requests[q] # None => requests[q].submission # s
    /\ \A r \in Runs : runs[r].batch[s] = None
    /\ \A h \in Handlers : handlers[h].task # s

\* "If verified successfuly, the source code will be stored and made publicly
\* available": what is published for a contract was verified.
PublishedIsVerified ==
    \A c \in ContractIds :
        contracts[c] # None => contractSubmissions[contracts[c].submission].genuine

\* "Check progress and/or results of a contract verification": a submission
\* whose sources were published is reported as a success once all is over.
PublishedIsReported ==
    \A s \in SubmissionIds :
        (/\ Settled(s)
         /\ contracts[ContractOf(s)] # None
         /\ contracts[ContractOf(s)].submission = s) =>
            ReportedStatus(s) = "success"
=============================================================================
