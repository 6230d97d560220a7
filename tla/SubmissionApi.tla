--------------------------- MODULE SubmissionApi ---------------------------
(***************************************************************************)
(* ContractsService: what users of the REST API do to and see of the       *)
(* store.  A POST that passed the checks of the controller looks the       *)
(* contract up, fetches its bytecode from the middleware and inserts a     *)
(* submission; other requests run between these awaits.                    *)
(***************************************************************************)
EXTENDS GatewayStore

VARIABLE intake   \* POSTs past the "already verified" check, by the id they will get

Claim == [contractId : ContractIds, genuine : BOOLEAN]

ASSUME IntakeAssumption == None \notin Claim

IntakeTypeOK == intake \in [SubmissionIds -> Claim \cup {None}]

IntakeInit == intake = [s \in SubmissionIds |-> None]

\* The contract has no row yet: the request goes on to the middleware.  If it
\* has one the answer is 409 and nothing changes.
SubmitCheck(s, c, genuine) ==
    /\ ~Stored(s)
    /\ intake[s] = None
    /\ contracts[c] = None
    /\ intake' = [intake EXCEPT ![s] = [contractId |-> c, genuine |-> genuine]]
    /\ UNCHANGED storeVars

\* The middleware answered with the bytecode: the submission is inserted.
SubmitStore(s) ==
    /\ intake[s] # None
    /\ contractSubmissions' =
         [contractSubmissions EXCEPT ![s] =
             [contractId |-> intake[s].contractId,
              genuine    |-> intake[s].genuine,
              status     |-> "new",
              filled     |-> {}]]
    /\ intake' = [intake EXCEPT ![s] = None]
    /\ UNCHANGED <<contracts, history>>

\* The middleware does not know the contract, or is down: 422.
SubmitReject(s) ==
    /\ intake[s] # None
    /\ intake' = [intake EXCEPT ![s] = None]
    /\ UNCHANGED storeVars

\* GET /contracts/:contractId/check/:submissionId.
CheckSubmissionStatus(c, s) ==
    IF Stored(s) /\ contractSubmissions[s].contractId = c
    THEN [status  |-> StatusOf(s),
          message |-> StatusOf(s) = "fail" /\ "result" \in contractSubmissions[s].filled]
    ELSE None

\* GET /contracts/:contractId and its /source: None is the answer 404.
GetVerifiedContract(c) == contracts[c]

\* GET /contracts?ids=...: the rows there are, in any order; 404 if none.
GetVerifiedContracts(ids) == {contracts[c] : c \in ids} \ {None}

=============================================================================
