------------------------------ MODULE ScvTypes ------------------------------
(***************************************************************************)
(* The vocabulary the components of the smart contract verifier share: who *)
(* is identified by what, and the shape of the two database rows that the  *)
(* verification pipeline reads and writes.                                 *)
(*                                                                         *)
(* Data is kept only as far as the properties tell it apart.  A submission *)
(* is `genuine' when its sources, compiled by the compiler the on-chain    *)
(* bytecode names, give that bytecode; the texts of its nullable columns   *)
(* are reduced to the set of columns that are not NULL.                    *)
(***************************************************************************)
CONSTANTS
    ContractIds,     \* addresses of contracts on the chain
    SubmissionIds,   \* uuids of submissions, one for each POST that is accepted
    None             \* SQL NULL, no row, nobody

VerificationStatus ==
    {"new", "pending", "processing", "success", "fail_retry", "fail"}

\* The two statuses that end a verification.
Verdicts == {"success", "fail"}

\* Columns of contract_submissions that the pipeline fills and clears.
NullableColumns == {"compiler", "result", "retryAfter"}

\* A row of contract_submissions.
Submission ==
    [contractId : ContractIds,
     genuine    : BOOLEAN,
     status     : VerificationStatus,
     filled     : SUBSET NullableColumns]

\* A row of contracts: the submission it was copied from, and whether the
\* compiler column was filled when it was copied.
Contract == [submission : SubmissionIds, compiler : BOOLEAN]

ASSUME NoneAssumption ==
    /\ None \notin ContractIds
    /\ None \notin SubmissionIds
    /\ None \notin Submission
    /\ None \notin Contract
    /\ None \notin VerificationStatus
=============================================================================
