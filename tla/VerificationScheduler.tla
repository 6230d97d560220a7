----------------------- MODULE VerificationScheduler -----------------------
(***************************************************************************)
(* VerificationSchedulerService: the cron job that turns new submissions   *)
(* into verification tasks.  A run keeps the entities that `find' returned *)
(* in memory and walks them one by one; each await lets the rest of the    *)
(* gateway, and other runs of the same job, go on.  Emitting a task only   *)
(* hands it to the client's buffer in the process: nobody waits for the    *)
(* broker to take it.                                                      *)
(***************************************************************************)
EXTENDS GatewayStore, Naturals

CONSTANT Runs   \* invocations of the cron job that may be active at a time

VARIABLES
    runs,     \* the invocations of scheduleVerification
    outbox    \* tasks emitted and not yet with the broker: a bag

schedulerVars == <<runs, outbox>>

Run ==
    [pc      : {"idle", "emit", "record", "load", "write"},
     batch   : [SubmissionIds -> Submission \cup {None}],  \* entities found and not done
     current : SubmissionIds \cup {None},                  \* the loop's submission
     loaded  : Submission \cup {None}]                     \* its row, as save read it

IdleRun ==
    [pc |-> "idle", batch |-> [s \in SubmissionIds |-> None],
     current |-> None, loaded |-> None]

SchedulerTypeOK ==
    /\ runs \in [Runs -> Run]
    /\ outbox \in [SubmissionIds -> Nat]

SchedulerInit ==
    /\ runs = [r \in Runs |-> IdleRun]
    /\ outbox = [s \in SubmissionIds |-> 0]

InStatus(status) == {s \in SubmissionIds : Stored(s) /\ StatusOf(s) = status}

\* Seeded bug: pending rows qualify as well.
DueSubmissionsAgain(due) ==
    InStatus("new") \cup InStatus("pending") \cup (InStatus("fail_retry") \cap due)

\* The where clause of `find'.  A fail_retry row qualifies only if its
\* retryAfter is this very instant, so any of them may or may not.
DueSubmissions(due) == InStatus("new") \cup (InStatus("fail_retry") \cap due)

\* The job starts and finds something; a run that finds nothing ends at once.
CronFires(r) ==
    /\ runs[r].pc = "idle"
    /\ \E due \in SUBSET InStatus("fail_retry") :
         /\ DueSubmissions(due) # {}
         /\ runs' = [runs EXCEPT ![r] =
              [IdleRun EXCEPT
                  !.pc = "emit",
                  !.batch = [s \in SubmissionIds |->
                               IF s \in DueSubmissions(due)
                               THEN contractSubmissions[s] ELSE None]]]
    /\ UNCHANGED <<storeVars, outbox>>

\* The next submission of the batch: find gives no order.
EmitTask(r) ==
    /\ runs[r].pc = "emit"
    /\ \E s \in SubmissionIds :
         /\ runs[r].batch[s] # None
         /\ outbox' = [outbox EXCEPT ![s] = @ + 1]
         /\ runs' = [runs EXCEPT ![r].pc = "record", ![r].current = s]
    /\ UNCHANGED storeVars

\* The history is written with the status the entity had when it was found;
\* then the entity, not the row, becomes pending.
RecordPending(r) ==
    LET s == runs[r].current IN
    /\ runs[r].pc = "record"
    /\ RecordTransition(s, runs[r].batch[s].status, "pending")
    /\ runs' = [runs EXCEPT ![r].pc = "load", ![r].batch[s].status = "pending"]
    /\ UNCHANGED <<contractSubmissions, contracts, outbox>>

\* The SELECT of save(submission).
SaveLoad(r) ==
    /\ runs[r].pc = "load"
    /\ runs' = [runs EXCEPT
                  ![r].pc = "write",
                  ![r].loaded = contractSubmissions[runs[r].current]]
    /\ UNCHANGED <<storeVars, outbox>>

\* The run after the current submission is done: on to the next, or over.
NextInBatch(run) ==
    IF \E s \in SubmissionIds \ {run.current} : run.batch[s] # None
    THEN [run EXCEPT !.pc = "emit", !.batch[run.current] = None,
                     !.current = None, !.loaded = None]
    ELSE IdleRun

\* The UPDATE of save(submission), computed from what SaveLoad saw.
SaveWrite(r) ==
    /\ runs[r].pc = "write"
    /\ SaveSubmission(runs[r].current,
                      runs[r].batch[runs[r].current], runs[r].loaded)
    /\ runs' = [runs EXCEPT ![r] = NextInBatch(@)]
    /\ UNCHANGED <<contracts, history, outbox>>

\* Seeded bug: a failing statement leaves the run neither going nor over.
RunAbortsAndHangs(r) ==
    /\ runs[r].pc \in {"record", "load", "write"}
    /\ runs' = [runs EXCEPT ![r] = [IdleRun EXCEPT !.pc = "emit"]]
    /\ UNCHANGED <<storeVars, outbox>>

\* A statement of the run fails: the rest of the batch is left as it is.
RunAborts(r) ==
    /\ runs[r].pc \in {"record", "load", "write"}
    /\ runs' = [runs EXCEPT ![r] = IdleRun]
    /\ UNCHANGED <<storeVars, outbox>>
=============================================================================
