---------------------------- MODULE GatewayStore ----------------------------
(***************************************************************************)
(* The gateway's PostgreSQL tables, as far as the pipeline uses them.      *)
(* Every statement is one atomic step; what TypeORM sends as two           *)
(* statements (`save' of an entity that has an id) is two steps of the     *)
(* caller.  The process that issued a statement may die, the rows stay.    *)
(***************************************************************************)
EXTENDS ScvTypes, FiniteSets

VARIABLES
    contractSubmissions,  \* table contract_submissions, by id
    contracts,            \* table contracts, by its unique column contractId
    history               \* table contract_verification_history

storeVars == <<contractSubmissions, contracts, history>>

VerificationRecord ==
    [submissionId : SubmissionIds,
     prevStatus   : VerificationStatus,
     newStatus    : VerificationStatus]

StoreTypeOK ==
    /\ contractSubmissions \in [SubmissionIds -> Submission \cup {None}]
    /\ contracts \in [ContractIds -> Contract \cup {None}]
    /\ history \subseteq VerificationRecord

StoreInit ==
    /\ contractSubmissions = [s \in SubmissionIds |-> None]
    /\ contracts = [c \in ContractIds |-> None]
    /\ history = {}

Stored(s) == contractSubmissions[s] # None

StatusOf(s) == contractSubmissions[s].status

\* repository.update(id, {status, columns}): one UPDATE statement.
UpdateSubmission(s, newStatus, columns) ==
    contractSubmissions' =
        [contractSubmissions EXCEPT
            ![s].status = newStatus,
            ![s].filled = @ \cup columns]

\* The columns in which an entity in memory differs from the row that save
\* has just loaded: TypeORM writes these and no others.
ChangedColumns(entity, loaded) ==
    {col \in NullableColumns : (col \in entity.filled) # (col \in loaded.filled)}

\* The UPDATE that repository.save(entity) ends with.
SaveSubmission(s, entity, loaded) ==
    LET changed == ChangedColumns(entity, loaded) IN
    contractSubmissions' =
        [contractSubmissions EXCEPT
            ![s].status = IF entity.status = loaded.status THEN @ ELSE entity.status,
            ![s].filled = (@ \ changed) \cup (entity.filled \cap changed)]

\* INSERT into contract_verification_history.
RecordTransition(s, from, to) ==
    history' = history \cup
        {[submissionId |-> s, prevStatus |-> from, newStatus |-> to]}

HasRecord(s, statuses) ==
    \E record \in history :
        record.submissionId = s /\ record.newStatus \in statuses
=============================================================================
