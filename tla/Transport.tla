------------------------------ MODULE Transport ------------------------------
(***************************************************************************)
(* What is on its way between the two programs: verification tasks in the  *)
(* broker's queue, and the workers' notifications (HTTP POSTs), up to the  *)
(* end of the handler that serves them in the gateway.  Neither keeps its  *)
(* order: the queue redelivers, and two POSTs of one worker are concurrent. *)
(***************************************************************************)
EXTENDS GatewayStore, Naturals

CONSTANTS
    Requests,   \* slots for notifications in progress at a time
    Workers     \* verification worker processes

VARIABLES
    queue,      \* tasks the broker holds ready for delivery: a bag
    requests    \* notifications in progress

transportVars == <<queue, requests>>

\* "sent": on its way to the handler; "found" ... "record": inside the handler,
\* named after the statement it is about to issue; "failed": an error answer
\* (or a broken connection) on its way back to the worker.
Stages == {"sent", "found", "confirm", "store", "undo", "record", "failed"}

NotificationStatus == {"processing", "success", "fail"}

Notification ==
    [stage      : Stages,
     submission : SubmissionIds,
     status     : NotificationStatus,
     worker     : Workers \cup {None},             \* None once that process died
     prevStatus : VerificationStatus \cup {None},  \* status of the entity found
     newStatus  : VerificationStatus \cup {None},
     compiler   : BOOLEAN]                         \* is it set in the contract to store

ASSUME TransportAssumption == None \notin Notification /\ None \notin Workers

TransportTypeOK ==
    /\ queue \in [SubmissionIds -> Nat]
    /\ requests \in [Requests -> Notification \cup {None}]

TransportInit ==
    /\ queue = [s \in SubmissionIds |-> 0]
    /\ requests = [q \in Requests |-> None]

InStage(q, stage) == requests[q] # None /\ requests[q].stage = stage

\* Worker w starts a POST in the free slot q; nobody awaits its answer.
Post(q, w, s, status) ==
    /\ requests[q] = None
    /\ requests' = [requests EXCEPT ![q] =
         [stage |-> "sent", submission |-> s, status |-> status, worker |-> w,
          prevStatus |-> None, newStatus |-> None, compiler |-> FALSE]]

\* What becomes of a notification that is answered with an error: the error
\* reaches its worker, if that process still lives.
Failed(request) ==
    IF request.worker = None THEN None
    ELSE [request EXCEPT !.stage = "failed"]

\* The throttler, a proxy or the network refuses a POST before its handler runs.
RejectNotification(q) ==
    /\ InStage(q, "sent")
    /\ requests' = [requests EXCEPT ![q] = Failed(@)]
    /\ UNCHANGED queue
=============================================================================
