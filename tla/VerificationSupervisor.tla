----------------------- MODULE VerificationSupervisor -----------------------
(***************************************************************************)
(* VerificationSupervisorService.processNotification and, inside it,       *)
(* ContractsService.confirmSubmission: the handler of POST                 *)
(* /verification/notify/:contractId.  One action per database statement;   *)
(* handlers of other notifications, also of the same submission, run       *)
(* between them.                                                           *)
(***************************************************************************)
EXTENDS Transport

\* Seeded bug: the status that was found is not kept for the record.
FindSubmissionOnly(q) ==
    /\ InStage(q, "sent")
    /\ Stored(requests[q].submission)
    /\ requests' = [requests EXCEPT ![q].stage = "found"]
    /\ UNCHANGED <<storeVars, queue>>

\* findOneOrFail; the status read here is the prevStatus recorded at the end.
FindSubmission(q) ==
    /\ InStage(q, "sent")
    /\ Stored(requests[q].submission)
    /\ requests' = [requests EXCEPT
                      ![q].stage = "found",
                      ![q].prevStatus = StatusOf(requests[q].submission)]
    /\ UNCHANGED <<storeVars, queue>>

\* A branch of the switch: one UPDATE, after which newStatus is to be recorded.
UpdateStatus(q, status, columns, stage) ==
    /\ InStage(q, "found")
    /\ requests[q].status = status
    /\ UpdateSubmission(requests[q].submission, status, columns)
    /\ requests' = [requests EXCEPT ![q].stage = stage, ![q].newStatus = status]
    /\ UNCHANGED <<contracts, history, queue>>

UpdateProcessing(q) == UpdateStatus(q, "processing", {"retryAfter"}, "record")

UpdateFail(q) == UpdateStatus(q, "fail", {"result"}, "record")

\* The success branch goes on to confirmSubmission, inside its try.
UpdateSuccess(q) == UpdateStatus(q, "success", {"compiler"}, "confirm")

\* Seeded bug: the status is not looked at again.
ConfirmReadUnchecked(q) ==
    LET row == contractSubmissions[requests[q].submission] IN
    /\ InStage(q, "confirm")
    /\ requests' = [requests EXCEPT
                      ![q].stage = "store",
                      ![q].compiler = "compiler" \in row.filled]
    /\ UNCHANGED <<storeVars, queue>>

\* confirmSubmission reads the row again and builds the contract from it.
ConfirmRead(q) ==
    LET row == contractSubmissions[requests[q].submission] IN
    /\ InStage(q, "confirm")
    /\ requests' = [requests EXCEPT
                      ![q].stage = IF row.status = "success" THEN "store" ELSE "undo",
                      ![q].compiler = row.status = "success" /\ "compiler" \in row.filled]
    /\ UNCHANGED <<storeVars, queue>>

\* Seeded bug: the column contractId is not unique, a later row hides the first.
StoreContractAgain(q) ==
    LET s == requests[q].submission
        c == contractSubmissions[s].contractId
    IN
    /\ InStage(q, "store")
    /\ contracts' = [contracts EXCEPT ![c] =
         [submission |-> s, compiler |-> requests[q].compiler]]
    /\ requests' = [requests EXCEPT ![q].stage = "record"]
    /\ UNCHANGED <<contractSubmissions, history, queue>>

\* Seeded bug: INSERT ... ON CONFLICT DO NOTHING, a refused row is no error.
StoreContractIgnoringConflict(q) ==
    LET s == requests[q].submission
        c == contractSubmissions[s].contractId
    IN
    /\ InStage(q, "store")
    /\ contracts' = IF contracts[c] # None THEN contracts
                    ELSE [contracts EXCEPT ![c] =
                      [submission |-> s, compiler |-> requests[q].compiler]]
    /\ requests' = [requests EXCEPT ![q].stage = "record"]
    /\ UNCHANGED <<contractSubmissions, history, queue>>

\* INSERT INTO contracts; contractId is unique, so a second row is refused.
StoreContract(q) ==
    LET s == requests[q].submission
        c == contractSubmissions[s].contractId
    IN
    /\ InStage(q, "store")
    /\ \/ /\ contracts[c] = None
          /\ contracts' = [contracts EXCEPT ![c] =
               [submission |-> s, compiler |-> requests[q].compiler]]
          /\ requests' = [requests EXCEPT ![q].stage = "record"]
       \/ /\ contracts[c] # None
          /\ requests' = [requests EXCEPT ![q].stage = "undo"]
          /\ UNCHANGED contracts
    /\ UNCHANGED <<contractSubmissions, history, queue>>

\* Seeded bug: newStatus still is success when the catch writes it.
UndoSuccessForgotten(q) ==
    /\ InStage(q, "undo")
    /\ UpdateSubmission(requests[q].submission, requests[q].newStatus, {"result"})
    /\ requests' = [requests EXCEPT ![q].stage = "record"]
    /\ UNCHANGED <<contracts, history, queue>>

\* Seeded bug: the catch writes the status and forgets newStatus.
UndoSuccessUnrecorded(q) ==
    /\ InStage(q, "undo")
    /\ UpdateSubmission(requests[q].submission, "fail", {"result"})
    /\ requests' = [requests EXCEPT ![q].stage = "record"]
    /\ UNCHANGED <<contracts, history, queue>>

\* Seeded bug: the catch gives no reason.
UndoSuccessUnexplained(q) ==
    /\ InStage(q, "undo")
    /\ UpdateSubmission(requests[q].submission, "fail", {})
    /\ requests' = [requests EXCEPT ![q].stage = "record", ![q].newStatus = "fail"]
    /\ UNCHANGED <<contracts, history, queue>>

\* The catch of the success branch: whatever went wrong becomes a fail.
UndoSuccess(q) ==
    /\ InStage(q, "undo")
    /\ UpdateSubmission(requests[q].submission, "fail", {"result"})
    /\ requests' = [requests EXCEPT ![q].stage = "record", ![q].newStatus = "fail"]
    /\ UNCHANGED <<contracts, history, queue>>

\* The history record, and the answer 201.
SaveHistory(q) ==
    /\ InStage(q, "record")
    /\ RecordTransition(requests[q].submission,
                        requests[q].prevStatus, requests[q].newStatus)
    /\ requests' = [requests EXCEPT ![q] = None]
    /\ UNCHANGED <<contractSubmissions, contracts, queue>>

\* The statements that the try of the success branch encloses.
InsideTry(q) ==
    \/ InStage(q, "found") /\ requests[q].status = "success"
    \/ InStage(q, "confirm")
    \/ InStage(q, "store")

\* A statement fails: the catch takes over, or the answer is 500.
StatementFails(q) ==
    /\ \E stage \in {"sent", "found", "confirm", "store", "undo", "record"} :
         InStage(q, stage)
    /\ requests' = [requests EXCEPT ![q] =
         IF InsideTry(q) THEN [@ EXCEPT !.stage = "undo", !.newStatus = "success"]
         ELSE Failed(@)]
    /\ UNCHANGED <<storeVars, queue>>

HandleNotification(q) ==
    \/ FindSubmission(q)
    \/ UpdateProcessing(q)
    \/ UpdateFail(q)
    \/ UpdateSuccess(q)
    \/ ConfirmRead(q)
    \/ StoreContract(q)
    \/ UndoSuccess(q)
    \/ SaveHistory(q)
=============================================================================
