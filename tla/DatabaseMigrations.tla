------------------------- MODULE DatabaseMigrations -------------------------
(***************************************************************************)
(* The gateway's schema: the five TypeORM migrations, the operator's       *)
(* `migration:run' and `migration:revert', and beside them a gateway that  *)
(* keeps sending its statements.  What a command does is one transaction:  *)
(* it commits as a whole or leaves no trace.  A DDL statement locks its    *)
(* table to the end, so what it finds there stays and the order of the     *)
(* statements is abstracted; but the `down' of AutoDetectCompiler has an   *)
(* UPDATE before each of its ALTERs, and goes statement by statement.      *)
(* Commands are issued one after the other.                                *)
(*                                                                         *)
(* The schema is the set of its columns; type and constraint of a column   *)
(* are one name.  Of a row is known the submission it stems from and what  *)
(* its compiler column holds, of a submission its status.                  *)
(***************************************************************************)
EXTENDS Naturals, Sequences

CONSTANTS
    SubmissionIds,
    ContractIds,
    ContractOf        \* the contract a submission is about

ASSUME MigrationsAssumption == ContractOf \in [SubmissionIds -> ContractIds]

VARIABLES
    db,           \* schema, rows, statuses and compilers
    applied,      \* how many migrations the table `migrations' lists
    reverting,    \* how far a revert of the latest migration is
    filled        \* the rows of each table its UPDATEs have filled, and locked

revertVars == <<reverting, filled>>

vars == <<db, applied, revertVars>>

-----------------------------------------------------------------------------
(* Migrations.                                                             *)

\* A table's columns, each with what its DDL says.
Columns(table, columns) ==
    {[table |-> table, column |-> c, ddl |-> columns[c]] : c \in DOMAIN columns}

Id == "uuid PRIMARY KEY DEFAULT uuid_generate_v4()"
Varchar == "varchar NOT NULL"
Varchar63 == "varchar(63) NOT NULL"
Varchar127 == "varchar(127) NOT NULL"
UniqueVarchar63 == "varchar(63) NOT NULL UNIQUE"
Status == "status_enum NOT NULL"
Timestamp == "timestamp NOT NULL DEFAULT now()"
OldStatus == "status_enum('pending', 'success', 'fail') NOT NULL DEFAULT 'pending'"
NewStatus == "status_enum NOT NULL DEFAULT 'new'"
RetryCount == "integer NOT NULL DEFAULT 0"
ForeignKey == "uuid REFERENCES"
CascadingKey == "uuid REFERENCES ON DELETE CASCADE"

Required == {Varchar, Varchar63, Varchar127, UniqueVarchar63, Status}

\* ALTER of a column keeps its cells, DROP COLUMN does not.
NoChange == [dropTables |-> {}, dropColumns |-> {}, alter |-> {}, add |-> {}]

InitialSchemaUp == [NoChange EXCEPT
    !.add = Columns("contract_submission", [id |-> Id, contract_id |-> Varchar63])]

InitialSchemaDown == [NoChange EXCEPT !.dropTables = {"contract_submission"}]

UploadingContractsUp ==
    LET contract == [id |-> Id, contract_id |-> Varchar63, license |-> Varchar127,
                     compiler |-> Varchar63, entry_file |-> Varchar]
    IN  [NoChange EXCEPT !.add =
            Columns("contract_submissions", contract) \cup
            Columns("contract_submission_source_files",
                [id |-> Id, file_path |-> Varchar, content |-> Varchar,
                 submission_id |-> ForeignKey]) \cup
            Columns("contracts", contract) \cup
            Columns("contract_source_files",
                [id |-> Id, contract_id |-> Varchar63, file_path |-> Varchar127,
                 content |-> Varchar])]

\* Seeded bug: the tables of the uploads stay.
UploadingContractsDownPartly == [NoChange EXCEPT !.dropTables =
    {"contract_source_files", "contracts"}]

UploadingContractsDown == [NoChange EXCEPT !.dropTables =
    {"contract_source_files", "contracts", "contract_submission_source_files",
     "contract_submissions"}]

SubmissionVerificationUp == [NoChange EXCEPT
    !.dropColumns = {<<"contract_source_files", "file_path">>},
    !.add = Columns("contract_submissions",
                [submitted_at |-> Timestamp, status |-> OldStatus, result |-> "varchar"]) \cup
            Columns("contract_source_files", [file_path |-> Varchar])]

SubmissionVerificationDown == [NoChange EXCEPT
    !.dropColumns = {<<"contract_source_files", "file_path">>} \cup
                    ({"contract_submissions"} \X {"result", "status", "submitted_at"}),
    !.add = Columns("contract_source_files", [file_path |-> Varchar127])]

VerificationUp == [NoChange EXCEPT
    !.dropTables = {"contract_submission"},
    !.dropColumns = {<<"contract_source_files", "contract_id">>},
    !.alter = Columns("contracts", [contract_id |-> UniqueVarchar63]) \cup
              Columns("contract_submissions", [status |-> NewStatus]) \cup
              Columns("contract_submission_source_files", [submission_id |-> CascadingKey]),
    !.add = Columns("contract_verification_history",
                [id |-> Id, submission_id |-> Varchar63, created |-> Timestamp,
                 prev_status |-> Status, new_status |-> Status,
                 result |-> "varchar", source |-> "varchar"]) \cup
            Columns("contracts",
                [aci |-> Varchar, bytecode |-> Varchar, init_call_parameters |-> Varchar,
                 encoded_init_call_parameters |-> Varchar, verified_at |-> Timestamp]) \cup
            Columns("contract_submissions",
                [bytecode |-> Varchar, encoded_init_call_parameters |-> Varchar,
                 last_update |-> Timestamp, retry_count |-> RetryCount,
                 retry_after |-> "timestamp"]) \cup
            Columns("contract_source_files", [contract_id |-> CascadingKey])]

\* Seeded bug: the foreign key of the submissions' files keeps its CASCADE.
AlterVerificationBackButKey ==
    Columns("contracts", [contract_id |-> Varchar63]) \cup
    Columns("contract_submissions", [status |-> OldStatus])

\* Seeded bug: the status keeps its six values.
AlterVerificationBackButStatus ==
    Columns("contracts", [contract_id |-> Varchar63]) \cup
    Columns("contract_submission_source_files", [submission_id |-> ForeignKey])

AlterVerificationBack ==
    Columns("contracts", [contract_id |-> Varchar63]) \cup
    Columns("contract_submissions", [status |-> OldStatus]) \cup
    Columns("contract_submission_source_files", [submission_id |-> ForeignKey])

\* Seeded bug: contract_id comes back without its NOT NULL.
AddBeforeVerificationNullable ==
    Columns("contract_source_files", [contract_id |-> "varchar(63)"]) \cup
    Columns("contract_submission", [id |-> Id, contract_id |-> Varchar63])

AddBeforeVerification ==
    Columns("contract_source_files", [contract_id |-> Varchar63]) \cup
    Columns("contract_submission", [id |-> Id, contract_id |-> Varchar63])

VerificationDown == [NoChange EXCEPT
    !.dropTables = {"contract_verification_history"},
    !.dropColumns = {<<"contract_source_files", "contract_id">>} \cup
        ({"contract_submissions"} \X {"bytecode", "encoded_init_call_parameters",
                                      "last_update", "retry_count", "retry_after"}) \cup
        ({"contracts"} \X {"aci", "bytecode", "init_call_parameters",
                           "encoded_init_call_parameters", "verified_at"}),
    !.alter = AlterVerificationBack,
    !.add = AddBeforeVerification]

Compilers(ddl) == Columns("contract_submissions", [compiler |-> ddl]) \cup
                  Columns("contracts", [compiler |-> ddl])

\* Seeded bug: the column of the published contracts is forgotten.
AutoDetectCompilerUpPartly ==
    [NoChange EXCEPT !.alter = Columns("contract_submissions", [compiler |-> "varchar(63)"])]

AutoDetectCompilerUp == [NoChange EXCEPT !.alter = Compilers("varchar(63)")]

AutoDetectCompilerDown == [NoChange EXCEPT !.alter = Compilers(Varchar63)]

Ups == <<InitialSchemaUp, UploadingContractsUp, SubmissionVerificationUp, VerificationUp,
         AutoDetectCompilerUp>>

Downs == <<InitialSchemaDown, UploadingContractsDown, SubmissionVerificationDown,
           VerificationDown, AutoDetectCompilerDown>>

-----------------------------------------------------------------------------
(* Transactions of migrations.                                             *)

Tables == {"contract_submission", "contract_submissions", "contract_submission_source_files",
           "contracts", "contract_source_files", "contract_verification_history"}

\* Those with a compiler column, and what it holds of a row.
CompilerTables == {"contract_submissions", "contracts"}

CompilerCells == {"NULL", "empty", "detected"}

EmptyDatabase ==
    [schema   |-> {},
     rows     |-> [table \in Tables |-> {}],
     status   |-> [s \in SubmissionIds |-> "new"],
     compiler |-> [table \in CompilerTables |-> [s \in SubmissionIds |-> "NULL"]]]

OldStatusEnum == {"pending", "success", "fail"}

\* PostgreSQL refuses a NOT NULL column without default beside rows, and to
\* convert a status the enum does not have.
Refused(d, step) ==
    \/ \E c \in step.add : c.ddl \in Required /\ d.rows[c.table] # {}
    \/ /\ \E c \in step.alter : c.ddl = OldStatus
       /\ \E s \in d.rows["contract_submissions"] : d.status[s] \notin OldStatusEnum

Redefined(step) == {<<c.table, c.column>> : c \in step.alter \cup step.add}

\* A status column that is added has its default in every row.
After(d, step) ==
    [schema   |-> step.alter \cup step.add \cup
                  {c \in d.schema :
                      /\ c.table \notin step.dropTables
                      /\ <<c.table, c.column>> \notin step.dropColumns \cup Redefined(step)},
     rows     |-> [table \in Tables |->
                     IF table \in step.dropTables THEN {} ELSE d.rows[table]],
     status   |-> IF \E c \in step.add : c.ddl = OldStatus
                  THEN [s \in SubmissionIds |-> "pending"] ELSE d.status,
     compiler |-> d.compiler]

\* At most one database: none from the first step on that is refused.
Migrate(dbs, step) == {After(d, step) : d \in {x \in dbs : ~Refused(x, step)}}

\* The migrations after number `from' up to number `to', one after the other.
Migrated(d, from, to) ==
    LET Up(dbs, i) == IF from < i /\ i <= to THEN Migrate(dbs, Ups[i]) ELSE dbs
    IN  Up(Up(Up(Up(Up({d}, 1), 2), 3), 4), 5)

\* npm run migration:run applies what is pending, all in one transaction.
MigrationRun ==
    /\ applied < Len(Ups)
    /\ \E d \in Migrated(db, applied, Len(Ups)) : db' = d
    /\ applied' = Len(Ups)
    /\ UNCHANGED revertVars

\* npm run migration:revert reverts the last one.  Here one of the first four:
MigrationRevert ==
    /\ applied \in 1..(Len(Ups) - 1)
    /\ \E d \in Migrate({db}, Downs[applied]) : db' = d
    /\ applied' = applied - 1
    /\ UNCHANGED revertVars

\* Here AutoDetectCompiler, a statement a step: UPDATE and ALTER of contracts,
\* then UPDATE and ALTER of contract_submissions.
NullCompilers(table) == {s \in db.rows[table] : db.compiler[table][s] = "NULL"}

FillContracts ==
    /\ applied = Len(Ups)
    /\ reverting = "no"
    /\ reverting' = "contractsFilled"
    /\ filled' = [filled EXCEPT !["contracts"] = NullCompilers("contracts")]
    /\ UNCHANGED <<db, applied>>

\* SET NOT NULL waits for the table, and finds rows stored since the UPDATE.
AlterContracts ==
    /\ reverting = "contractsFilled"
    /\ NullCompilers("contracts") \subseteq filled["contracts"]
    /\ reverting' = "contractsLocked"
    /\ UNCHANGED <<db, applied, filled>>

\* Seeded bug: the UPDATE has no WHERE.
FillAllSubmissions ==
    /\ reverting = "contractsLocked"
    /\ reverting' = "submissionsFilled"
    /\ filled' = [filled EXCEPT !["contract_submissions"] = db.rows["contract_submissions"]]
    /\ UNCHANGED <<db, applied>>

FillSubmissions ==
    /\ reverting = "contractsLocked"
    /\ reverting' = "submissionsFilled"
    /\ filled' = [filled EXCEPT !["contract_submissions"] =
                     NullCompilers("contract_submissions")]
    /\ UNCHANGED <<db, applied>>

NothingFilled == [table \in CompilerTables |-> {}]

\* The last ALTER, and COMMIT: only now others see what the UPDATEs wrote.
AlterSubmissions ==
    /\ reverting = "submissionsFilled"
    /\ NullCompilers("contract_submissions") \subseteq filled["contract_submissions"]
    /\ db' = [After(db, AutoDetectCompilerDown) EXCEPT !.compiler =
                 [table \in CompilerTables |-> [s \in SubmissionIds |->
                    IF s \in filled[table] THEN "empty" ELSE db.compiler[table][s]]]]
    /\ applied' = applied - 1
    /\ reverting' = "no"
    /\ filled' = NothingFilled

FilledStage == [contracts |-> "contractsFilled", contract_submissions |-> "submissionsFilled"]

\* An ALTER that finds a NULL the UPDATE did not: ROLLBACK.
RevertFails ==
    /\ \E table \in CompilerTables :
         /\ reverting = FilledStage[table]
         /\ ~(NullCompilers(table) \subseteq filled[table])
    /\ reverting' = "no"
    /\ filled' = NothingFilled
    /\ UNCHANGED <<db, applied>>

-----------------------------------------------------------------------------
(* The gateway meanwhile.                                                  *)

ContractSubmissionEntity ==
    Columns("contract_submissions",
        [id |-> Id, contract_id |-> Varchar63, license |-> Varchar127, compiler |-> "varchar(63)",
         entry_file |-> Varchar, bytecode |-> Varchar, encoded_init_call_parameters |-> Varchar,
         submitted_at |-> Timestamp, last_update |-> Timestamp,
         status |-> NewStatus, result |-> "varchar",
         retry_count |-> RetryCount, retry_after |-> "timestamp"])

ContractSubmissionSourceFileEntity ==
    Columns("contract_submission_source_files",
        [id |-> Id, file_path |-> Varchar, content |-> Varchar, submission_id |-> CascadingKey])

ContractEntity ==
    Columns("contracts",
        [id |-> Id, contract_id |-> UniqueVarchar63, license |-> Varchar127,
         compiler |-> "varchar(63)", entry_file |-> Varchar, aci |-> Varchar,
         bytecode |-> Varchar, encoded_init_call_parameters |-> Varchar,
         init_call_parameters |-> Varchar, verified_at |-> Timestamp])

ContractSourceFileEntity ==
    Columns("contract_source_files",
        [id |-> Id, file_path |-> Varchar, content |-> Varchar, contract_id |-> CascadingKey])

ContractVerificationRecordEntity ==
    Columns("contract_verification_history",
        [id |-> Id, submission_id |-> Varchar63, created |-> Timestamp, prev_status |-> Status,
         new_status |-> Status, result |-> "varchar", source |-> "varchar"])

\* The schema the gateway's entities stand for.
Entities ==
    ContractSubmissionEntity \cup ContractSubmissionSourceFileEntity \cup ContractEntity
    \cup ContractSourceFileEntity \cup ContractVerificationRecordEntity

Named(columns, table) == {c.column : c \in {x \in columns : x.table = table}}

\* TypeORM names every column of the entity where it reads or inserts one.
Usable(table) == Named(Entities, table) \subseteq Named(db.schema, table)

\* A row whose compiler is NULL is accepted.
CompilerMayBeNull(table) ==
    \A c \in db.schema : c.table = table /\ c.column = "compiler" => c.ddl \notin Required

WithRow(tables, s) ==
    [table \in Tables |-> IF table \in tables THEN db.rows[table] \cup {s} ELSE db.rows[table]]

\* ContractsService.submit inserts the submission and its files.  Its check for a
\* published contract is a statement of its own, long before.
Submit(s) ==
    /\ s \notin db.rows["contract_submissions"]
    /\ Usable("contract_submissions") /\ CompilerMayBeNull("contract_submissions")
    /\ Usable("contract_submission_source_files")
    /\ db' = [db EXCEPT
         !.rows = WithRow({"contract_submissions", "contract_submission_source_files"}, s),
         !.status[s] = "new",
         !.compiler["contract_submissions"][s] = "NULL"]
    /\ UNCHANGED <<applied, revertVars>>

\* What the UPDATEs of the scheduler and the supervisor set; the entity was read
\* by a statement before.
SetColumns ==
    [pending    |-> {"status"},
     processing |-> {"status", "retry_after"},
     success    |-> {"status", "compiler"},
     fail       |-> {"status", "result"}]

\* Waits while a revert has filled the row.
UpdateStatus(s, status) ==
    /\ s \in db.rows["contract_submissions"] \ filled["contract_submissions"]
    /\ SetColumns[status] \subseteq Named(db.schema, "contract_submissions")
    /\ db' = [db EXCEPT
         !.status[s] = status,
         !.compiler["contract_submissions"][s] = IF status = "success" THEN "detected" ELSE @]
    /\ UNCHANGED <<applied, revertVars>>

RecordTransition(s) ==
    /\ s \in db.rows["contract_submissions"]
    /\ Usable("contract_verification_history")
    /\ db' = [db EXCEPT !.rows = WithRow({"contract_verification_history"}, s)]
    /\ UNCHANGED <<applied, revertVars>>

\* confirmSubmission inserts the contract and its files.  Waits while a revert has
\* locked the table.
Publish(s) ==
    /\ reverting \in {"no", "contractsFilled"}
    /\ s \in db.rows["contract_submissions"]
    /\ db.status[s] = "success"
    /\ Usable("contract_submissions") /\ Usable("contract_submission_source_files")
    /\ \A other \in db.rows["contracts"] : ContractOf[other] # ContractOf[s]
    /\ Usable("contracts")
    /\ s \notin NullCompilers("contract_submissions") \/ CompilerMayBeNull("contracts")
    /\ Usable("contract_source_files")
    /\ db' = [db EXCEPT
         !.rows = WithRow({"contracts", "contract_source_files"}, s),
         !.compiler["contracts"][s] = db.compiler["contract_submissions"][s]]
    /\ UNCHANGED <<applied, revertVars>>

\* What GET /status says of the database.
LastMigration ==
    IF applied = 0 THEN "none"
    ELSE <<"InitialSchema", "UploadingContracts", "SubmissionVerification", "Verification",
           "AutoDetectCompiler">>[applied]

Init ==
    /\ db = EmptyDatabase
    /\ applied = 0
    /\ reverting = "no"
    /\ filled = NothingFilled

Next ==
    \/ MigrationRun
    \/ MigrationRevert
    \/ FillContracts
    \/ AlterContracts
    \/ FillSubmissions
    \/ AlterSubmissions
    \/ RevertFails
    \/ \E s \in SubmissionIds :
         \/ Submit(s)
         \/ \E status \in {"pending", "processing", "success", "fail"} : UpdateStatus(s, status)
         \/ RecordTransition(s)
         \/ Publish(s)

Spec == Init /\ [][Next]_vars
=============================================================================
