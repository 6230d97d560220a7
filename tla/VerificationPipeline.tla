------------------------ MODULE VerificationPipeline ------------------------
(***************************************************************************)
(* The verification pipeline: users submit (SubmissionApi), the cron job   *)
(* emits tasks (VerificationScheduler), the broker carries them to the     *)
(* workers (VerificationWorker), which notify the gateway, which records   *)
(* the outcome and publishes the contract (VerificationSupervisor).        *)
(*                                                                         *)
(* The components meet in the gateway's tables (GatewayStore) and in what  *)
(* is on its way (Transport).  This module adds the broker, the faults and *)
(* the fairness, and states what the whole must guarantee.                 *)
(***************************************************************************)
EXTENDS SubmissionApi, VerificationScheduler, VerificationSupervisor,
        VerificationWorker

CONSTANTS
    Faults,      \* the kinds of fault that may happen
    MaxFaults    \* and how many of them, in one behaviour

FaultKinds ==
    {"workerCrash",      \* a worker process dies; POSTs it started are delivered
     "postLost",         \* ... or are not
     "connectionLost",   \* a worker loses its connection to the broker
     "brokerRestart",    \* RabbitMQ restarts: messages are not persistent
     "postRejected",     \* the throttler, the guard or the network refuses a POST
     "storeError",       \* a statement of the gateway fails
     "gatewayCrash"}     \* the gateway process dies and is restarted

ASSUME PipelineAssumption == Faults \subseteq FaultKinds /\ MaxFaults \in Nat

VARIABLE faultCount

vars == <<storeVars, intake, schedulerVars, transportVars, workerVars, faultCount>>

TypeOK ==
    /\ StoreTypeOK
    /\ IntakeTypeOK
    /\ SchedulerTypeOK
    /\ TransportTypeOK
    /\ WorkerTypeOK
    /\ faultCount \in Nat

Init ==
    /\ StoreInit
    /\ IntakeInit
    /\ SchedulerInit
    /\ TransportInit
    /\ WorkerInit
    /\ faultCount = 0
-----------------------------------------------------------------------------
(* The components' steps in the state of the whole.                        *)

SettlePost(s) == SubmitStore(s) \/ SubmitReject(s)

ApiStep(s) ==
    /\ \/ \E c \in ContractIds, genuine \in BOOLEAN : SubmitCheck(s, c, genuine)
       \/ SettlePost(s)
    /\ UNCHANGED <<schedulerVars, transportVars, workerVars, faultCount>>

RunStep(r) ==
    /\ \/ CronFires(r)
       \/ EmitTask(r)
       \/ RecordPending(r)
       \/ SaveLoad(r)
       \/ SaveWrite(r)
    /\ UNCHANGED <<intake, transportVars, workerVars, faultCount>>

\* The client's buffer is flushed: the broker has the task.
PublishTask(s) ==
    /\ outbox[s] > 0
    /\ outbox' = [outbox EXCEPT ![s] = @ - 1]
    /\ queue' = [queue EXCEPT ![s] = @ + 1]
    /\ UNCHANGED <<storeVars, intake, runs, requests, workerVars, faultCount>>

NotifyStep(q) ==
    /\ HandleNotification(q)
    /\ UNCHANGED <<intake, schedulerVars, workerVars, faultCount>>

WorkerStep(h) ==
    /\ \/ TakeTask(h)
       \/ TakeTaskUnsigned(h)
       \/ ClearDirectory(h)
       \/ WriteFiles(h)
       \/ Report(h)
       \/ Ack(h)
    /\ UNCHANGED <<intake, schedulerVars, faultCount>>

\* POSTs of worker w that may be lost when it dies.
LosablePosts(w) == IF "postLost" \in Faults THEN SUBSET SentBy(w) ELSE {{}}

ErrorStep(q) ==
    /\ requests[q] # None
    /\ \E lost \in LosablePosts(requests[q].worker) : NotifyError(q, lost)
    /\ UNCHANGED <<intake, schedulerVars, faultCount>>
-----------------------------------------------------------------------------
(* Faults.                                                                 *)

WorkerFault ==
    /\ \/ /\ "workerCrash" \in Faults
          /\ \E w \in Workers : \E lost \in LosablePosts(w) : WorkerCrash(w, lost)
       \/ /\ "connectionLost" \in Faults
          /\ \E w \in Workers : ConnectionLost(w)
    /\ UNCHANGED <<intake, schedulerVars>>

\* The queue is durable, its messages are not; every connection breaks.  Tasks
\* still in the gateway's buffer are sent again when it has reconnected.
BrokerRestart ==
    /\ "brokerRestart" \in Faults
    /\ \/ \E s \in SubmissionIds : queue[s] > 0
       \/ \E h \in Handlers : handlers[h].held
    /\ queue' = [s \in SubmissionIds |-> 0]
    /\ handlers' = [h \in Handlers |->
         IF handlers[h].pc = "wedged" THEN IdleHandler
         ELSE [handlers[h] EXCEPT !.held = FALSE]]
    /\ UNCHANGED <<storeVars, intake, schedulerVars, requests, directory>>

NetworkFault ==
    /\ "postRejected" \in Faults
    /\ \E q \in Requests : RejectNotification(q)
    /\ UNCHANGED <<storeVars, intake, schedulerVars, workerVars>>

StoreFault ==
    /\ "storeError" \in Faults
    /\ \/ /\ \E r \in Runs : RunAborts(r)
          /\ UNCHANGED <<intake, transportVars, workerVars>>
       \/ /\ \E q \in Requests : StatementFails(q)
          /\ UNCHANGED <<intake, schedulerVars, workerVars>>

\* What the gateway process had in memory is gone; its tables, the broker and
\* the POSTs that have not reached it are not.
GatewayCrash ==
    /\ "gatewayCrash" \in Faults
    /\ runs' = [r \in Runs |-> IdleRun]
    /\ outbox' = [s \in SubmissionIds |-> 0]
    /\ intake' = [s \in SubmissionIds |-> None]
    /\ requests' = [q \in Requests |->
         IF requests[q] = None \/ InStage(q, "sent") THEN requests[q]
         ELSE Failed(requests[q])]
    /\ UNCHANGED <<storeVars, queue, workerVars>>

FaultStep ==
    /\ faultCount < MaxFaults
    /\ faultCount' = faultCount + 1
    /\ \/ WorkerFault
       \/ BrokerRestart
       \/ NetworkFault
       \/ StoreFault
       \/ GatewayCrash
-----------------------------------------------------------------------------
Next ==
    \/ \E s \in SubmissionIds : ApiStep(s) \/ PublishTask(s)
    \/ \E r \in Runs : RunStep(r)
    \/ \E q \in Requests : NotifyStep(q) \/ ErrorStep(q)
    \/ \E h \in Handlers : WorkerStep(h)
    \/ FaultStep

Spec == Init /\ [][Next]_vars

\* Nobody has to submit and nothing has to fail.  Everything else goes on: the
\* cron job fires every 30 seconds, promises of a live process settle, the
\* broker delivers what it holds, processes are restarted.
Fairness ==
    /\ \A s \in SubmissionIds :
         /\ WF_vars(ApiStep(s) /\ intake[s] # None)
         /\ WF_vars(PublishTask(s))
    /\ \A r \in Runs : WF_vars(RunStep(r))
    /\ \A q \in Requests : WF_vars(NotifyStep(q)) /\ WF_vars(ErrorStep(q))
    /\ \A h \in Handlers : WF_vars(WorkerStep(h))

FairSpec == Spec /\ Fairness
=============================================================================
