--------------------------- MODULE MigrationProofs ---------------------------
(***************************************************************************)
(* Every migration command, whatever it meets, leaves the schema that      *)
(* belongs to the list of migrations it leaves, and only the rows that     *)
(* such a schema can have.                                                 *)
(***************************************************************************)
EXTENDS MigrationProperties, TLAPS

-----------------------------------------------------------------------------
(* Schemas, table by table.                                                *)

\* The column n of table t, with what its DDL says.
Col(t, n, d) == [table |-> t, column |-> n, ddl |-> d]

\* The schema a migration leaves.
Changed(S, step) ==
    step.alter \cup step.add \cup
    {c \in S : /\ c.table \notin step.dropTables
               /\ <<c.table, c.column>> \notin step.dropColumns \cup Redefined(step)}

\* The columns of each table after the first i migrations.
NoColumns == [n \in {} |-> Id]

OldColumns(i) ==
    IF i \in 1..3 THEN [id |-> Id, contract_id |-> Varchar63] ELSE NoColumns

SubmissionColumns(i) ==
    CASE i < 2 -> NoColumns
      [] i = 2 -> [id |-> Id, contract_id |-> Varchar63, license |-> Varchar127,
                   compiler |-> Varchar63, entry_file |-> Varchar]
      [] i = 3 -> [id |-> Id, contract_id |-> Varchar63, license |-> Varchar127,
                   compiler |-> Varchar63, entry_file |-> Varchar,
                   submitted_at |-> Timestamp, status |-> OldStatus, result |-> "varchar"]
      [] OTHER ->
         [id |-> Id, contract_id |-> Varchar63, license |-> Varchar127,
          compiler |-> IF i = 5 THEN "varchar(63)" ELSE Varchar63,
          entry_file |-> Varchar, bytecode |-> Varchar,
          encoded_init_call_parameters |-> Varchar, submitted_at |-> Timestamp,
          last_update |-> Timestamp, status |-> NewStatus, result |-> "varchar",
          retry_count |-> RetryCount, retry_after |-> "timestamp"]

FileColumns(i) ==
    IF i < 2 THEN NoColumns
    ELSE [id |-> Id, file_path |-> Varchar, content |-> Varchar,
          submission_id |-> IF i < 4 THEN ForeignKey ELSE CascadingKey]

ContractColumns(i) ==
    CASE i < 2 -> NoColumns
      [] i \in {2, 3} -> [id |-> Id, contract_id |-> Varchar63, license |-> Varchar127,
                         compiler |-> Varchar63, entry_file |-> Varchar]
      [] OTHER ->
         [id |-> Id, contract_id |-> UniqueVarchar63, license |-> Varchar127,
          compiler |-> IF i = 5 THEN "varchar(63)" ELSE Varchar63,
          entry_file |-> Varchar, aci |-> Varchar, bytecode |-> Varchar,
          encoded_init_call_parameters |-> Varchar, init_call_parameters |-> Varchar,
          verified_at |-> Timestamp]

ContractFileColumns(i) ==
    IF i < 2 THEN NoColumns
    ELSE [id |-> Id, content |-> Varchar,
          file_path |-> IF i = 2 THEN Varchar127 ELSE Varchar,
          contract_id |-> IF i < 4 THEN Varchar63 ELSE CascadingKey]

HistoryColumns(i) ==
    IF i < 4 THEN NoColumns
    ELSE [id |-> Id, submission_id |-> Varchar63, created |-> Timestamp,
          prev_status |-> Status, new_status |-> Status, result |-> "varchar",
          source |-> "varchar"]

\* S has these columns of table t.
Has(S, t, columns) ==
    \A n, d : Col(t, n, d) \in S <=> n \in DOMAIN columns /\ d = columns[n]

\* S is a set of columns of the tables.
ColumnsOnly(S) == \A c \in S : c.table \in Tables /\ c = Col(c.table, c.column, c.ddl)

\* S is the schema the first i migrations make, whatever order they were run and
\* reverted in.
IsSchema(S, i) ==
    /\ ColumnsOnly(S)
    /\ Has(S, "contract_submission", OldColumns(i))
    /\ Has(S, "contract_submissions", SubmissionColumns(i))
    /\ Has(S, "contract_submission_source_files", FileColumns(i))
    /\ Has(S, "contracts", ContractColumns(i))
    /\ Has(S, "contract_source_files", ContractFileColumns(i))
    /\ Has(S, "contract_verification_history", HistoryColumns(i))

-----------------------------------------------------------------------------
(* A migration, table by table.                                            *)

\* Columns are the same if table, name and DDL are.
LEMMA ColFields ==
    ASSUME NEW t, NEW n, NEW d, NEW t2, NEW n2, NEW d2
    PROVE  /\ Col(t, n, d).table = t /\ Col(t, n, d).column = n /\ Col(t, n, d).ddl = d
           /\ Col(t, n, d) = Col(t2, n2, d2) <=> t = t2 /\ n = n2 /\ d = d2
<1>1. \A x, y, z : Col(x, y, z).table = x /\ Col(x, y, z).column = y /\ Col(x, y, z).ddl = z
  BY DEF Col
<1>. QED
  BY <1>1

\* The columns of a table are those of its table with their DDL.
LEMMA InColumns ==
    ASSUME NEW t, NEW n, NEW d, NEW t2, NEW columns
    PROVE  Col(t, n, d) \in Columns(t2, columns) <=>
             t = t2 /\ n \in DOMAIN columns /\ d = columns[n]
<1>1. Columns(t2, columns) = {Col(t2, m, columns[m]) : m \in DOMAIN columns}
  BY DEF Columns, Col
<1>. QED
  BY <1>1, ColFields

\* A column is new, or old and not touched.
LEMMA InChanged ==
    ASSUME NEW S, NEW step, NEW t, NEW n, NEW d
    PROVE  Col(t, n, d) \in Changed(S, step) <=>
             \/ Col(t, n, d) \in step.alter
             \/ Col(t, n, d) \in step.add
             \/ /\ Col(t, n, d) \in S
                /\ t \notin step.dropTables
                /\ <<t, n>> \notin step.dropColumns
                /\ <<t, n>> \notin Redefined(step)
<1>1. Col(t, n, d).table = t /\ Col(t, n, d).column = n
  BY ColFields
<1>. QED
  BY <1>1 DEF Changed

\* What Columns gives is a set of columns.
LEMMA ColumnsAreColumns ==
    ASSUME NEW t \in Tables, NEW columns
    PROVE  ColumnsOnly(Columns(t, columns))
<1>1. Columns(t, columns) = {Col(t, n, columns[n]) : n \in DOMAIN columns}
  BY DEF Columns, Col
<1>. QED
  BY <1>1, ColFields DEF ColumnsOnly

\* So is what a migration leaves.
LEMMA ChangedColumns ==
    ASSUME NEW S, NEW step, ColumnsOnly(S), ColumnsOnly(step.alter), ColumnsOnly(step.add)
    PROVE  ColumnsOnly(Changed(S, step))
BY DEF ColumnsOnly, Changed

\* The columns `old' become `new' by these changes.
Merged(new, old, alter, add, dropped) ==
    \A n, d :
        (n \in DOMAIN new /\ d = new[n]) <=>
          \/ n \in DOMAIN alter /\ d = alter[n]
          \/ n \in DOMAIN add /\ d = add[n]
          \/ /\ n \in DOMAIN old /\ d = old[n]
             /\ n \notin DOMAIN alter \cup DOMAIN add \cup dropped

\* What the step does to table t: it stays, these of its columns go.
Does(step, t, alter, add, dropped) ==
    /\ Has(step.alter, t, alter)
    /\ Has(step.add, t, add)
    /\ t \notin step.dropTables
    /\ \A n : <<t, n>> \in step.dropColumns <=> n \in dropped

\* A migration redefines the columns it alters and adds.
LEMMA InRedefined ==
    ASSUME NEW step, ColumnsOnly(step.alter), ColumnsOnly(step.add), NEW t, NEW n
    PROVE  <<t, n>> \in Redefined(step) <=>
             \E d : Col(t, n, d) \in step.alter \/ Col(t, n, d) \in step.add
<1>1. ASSUME NEW d PROVE Col(t, n, d).table = t /\ Col(t, n, d).column = n
  BY ColFields
<1>. QED
  BY <1>1 DEF Redefined, ColumnsOnly

\* So a table is what its own changes make of it.
LEMMA ChangedTable ==
    ASSUME NEW S, NEW step, ColumnsOnly(step.alter), ColumnsOnly(step.add),
           NEW t, NEW old, NEW alter, NEW add, NEW dropped, NEW new,
           Has(S, t, old), Does(step, t, alter, add, dropped),
           Merged(new, old, alter, add, dropped)
    PROVE  Has(Changed(S, step), t, new)
<1>1. ASSUME NEW n
      PROVE  <<t, n>> \in Redefined(step) <=> n \in DOMAIN alter \cup DOMAIN add
  BY InRedefined DEF Does, Has
<1>2. ASSUME NEW n, NEW d
      PROVE  Col(t, n, d) \in Changed(S, step) <=> n \in DOMAIN new /\ d = new[n]
  <2>1. /\ Col(t, n, d) \in S <=> n \in DOMAIN old /\ d = old[n]
        /\ Col(t, n, d) \in step.alter <=> n \in DOMAIN alter /\ d = alter[n]
        /\ Col(t, n, d) \in step.add <=> n \in DOMAIN add /\ d = add[n]
        /\ t \notin step.dropTables
        /\ <<t, n>> \in step.dropColumns <=> n \in dropped
    BY DEF Does, Has
  <2>2. n \in DOMAIN new /\ d = new[n] <=>
          \/ n \in DOMAIN alter /\ d = alter[n]
          \/ n \in DOMAIN add /\ d = add[n]
          \/ /\ n \in DOMAIN old /\ d = old[n]
             /\ n \notin DOMAIN alter \cup DOMAIN add \cup dropped
    BY DEF Merged
  <2>. QED
    BY <1>1, <2>1, <2>2, InChanged
<1>. QED
  BY <1>2 DEF Has

\* A table that is dropped has no columns.
LEMMA DroppedTable ==
    ASSUME NEW S, NEW step, NEW t, Has(step.alter, t, NoColumns), Has(step.add, t, NoColumns),
           t \in step.dropTables
    PROVE  Has(Changed(S, step), t, NoColumns)
BY InChanged DEF Has, NoColumns

\* A table that a migration does not name keeps its columns.
LEMMA UntouchedTable ==
    ASSUME NEW S, NEW step, ColumnsOnly(step.alter), ColumnsOnly(step.add),
           NEW t, NEW columns, Has(S, t, columns), Does(step, t, NoColumns, NoColumns, {})
    PROVE  Has(Changed(S, step), t, columns)
<1>1. Merged(columns, columns, NoColumns, NoColumns, {})
  BY DEF Merged, NoColumns
<1>. QED
  BY <1>1, ChangedTable

-----------------------------------------------------------------------------
(* The ten migrations: each takes the schema of its number to the next, or *)
(* back.                                                                   *)

\* InitialSchema brings the table that no entity stands for.
LEMMA InitialSchemaUpSchema ==
    ASSUME NEW S, IsSchema(S, 0)
    PROVE  IsSchema(Changed(S, InitialSchemaUp), 1)
<1> DEFINE step == InitialSchemaUp
           oldAdd == [id |-> Id, contract_id |-> Varchar63]
<1>1. /\ step.dropTables = {}
      /\ step.dropColumns = {}
      /\ step.alter = {}
      /\ step.add = Columns("contract_submission", oldAdd)
  BY DEF InitialSchemaUp, NoChange
<1> HIDE DEF step, oldAdd
<1>2. ColumnsOnly(step.alter) /\ ColumnsOnly(step.add)
  BY <1>1, ColumnsAreColumns DEF ColumnsOnly, Tables
<1>3. /\ Does(step, "contract_submission", NoColumns, oldAdd, {})
      /\ Does(step, "contract_submissions", NoColumns, NoColumns, {})
      /\ Does(step, "contract_submission_source_files", NoColumns, NoColumns, {})
      /\ Does(step, "contracts", NoColumns, NoColumns, {})
      /\ Does(step, "contract_source_files", NoColumns, NoColumns, {})
      /\ Does(step, "contract_verification_history", NoColumns, NoColumns, {})
  BY <1>1, InColumns DEF Does, Has, NoColumns
<1>4. Merged(OldColumns(1), OldColumns(0), NoColumns, oldAdd, {})
  BY DEF Merged, OldColumns, NoColumns, oldAdd
<1>5. /\ SubmissionColumns(1) = SubmissionColumns(0)
      /\ FileColumns(1) = FileColumns(0)
      /\ ContractColumns(1) = ContractColumns(0)
      /\ ContractFileColumns(1) = ContractFileColumns(0)
      /\ HistoryColumns(1) = HistoryColumns(0)
  BY DEF SubmissionColumns, FileColumns, ContractColumns, ContractFileColumns,
         HistoryColumns
<1>. QED
  BY <1>1, <1>2, <1>3, <1>4, <1>5,
     ChangedTable, UntouchedTable, DroppedTable, ChangedColumns
  DEF IsSchema, step

\* And takes it back.
LEMMA InitialSchemaDownSchema ==
    ASSUME NEW S, IsSchema(S, 1)
    PROVE  IsSchema(Changed(S, InitialSchemaDown), 0)
<1> DEFINE step == InitialSchemaDown
<1>1. /\ step.dropTables = {"contract_submission"}
      /\ step.dropColumns = {}
      /\ step.alter = {}
      /\ step.add = {}
  BY DEF InitialSchemaDown, NoChange
<1> HIDE DEF step
<1>2. ColumnsOnly(step.alter) /\ ColumnsOnly(step.add)
  BY <1>1, ColumnsAreColumns DEF ColumnsOnly, Tables
<1>3. /\ Has(step.alter, "contract_submission", NoColumns)
      /\ Has(step.add, "contract_submission", NoColumns)
      /\ Does(step, "contract_submissions", NoColumns, NoColumns, {})
      /\ Does(step, "contract_submission_source_files", NoColumns, NoColumns, {})
      /\ Does(step, "contracts", NoColumns, NoColumns, {})
      /\ Does(step, "contract_source_files", NoColumns, NoColumns, {})
      /\ Does(step, "contract_verification_history", NoColumns, NoColumns, {})
  BY <1>1, InColumns DEF Does, Has, NoColumns
<1>4. /\ OldColumns(0) = NoColumns
      /\ SubmissionColumns(0) = SubmissionColumns(1)
      /\ FileColumns(0) = FileColumns(1)
      /\ ContractColumns(0) = ContractColumns(1)
      /\ ContractFileColumns(0) = ContractFileColumns(1)
      /\ HistoryColumns(0) = HistoryColumns(1)
  BY DEF OldColumns, SubmissionColumns, FileColumns, ContractColumns,
         ContractFileColumns, HistoryColumns
<1>. QED
  BY <1>1, <1>2, <1>3, <1>4,
     ChangedTable, UntouchedTable, DroppedTable, ChangedColumns
  DEF IsSchema, step

\* UploadingContracts brings submissions, contracts and their files.
LEMMA UploadingContractsUpSchema ==
    ASSUME NEW S, IsSchema(S, 1)
    PROVE  IsSchema(Changed(S, UploadingContractsUp), 2)
<1> DEFINE step == UploadingContractsUp
           submissionsAdd == [id |-> Id, contract_id |-> Varchar63,
                              license |-> Varchar127, compiler |-> Varchar63,
                              entry_file |-> Varchar]
           filesAdd == [id |-> Id, file_path |-> Varchar, content |-> Varchar,
                        submission_id |-> ForeignKey]
           sourcesAdd == [id |-> Id, contract_id |-> Varchar63,
                          file_path |-> Varchar127, content |-> Varchar]
<1>1. /\ step.dropTables = {}
      /\ step.dropColumns = {}
      /\ step.alter = {}
      /\ step.add = Columns("contract_submissions", submissionsAdd) \cup
                       Columns("contract_submission_source_files", filesAdd) \cup
                       Columns("contracts", submissionsAdd) \cup
                       Columns("contract_source_files", sourcesAdd)
  BY DEF UploadingContractsUp, NoChange
<1> HIDE DEF step, submissionsAdd, filesAdd, sourcesAdd
<1>2. ColumnsOnly(step.alter) /\ ColumnsOnly(step.add)
  BY <1>1, ColumnsAreColumns DEF ColumnsOnly, Tables
<1>3. /\ Does(step, "contract_submission", NoColumns, NoColumns, {})
      /\ Does(step, "contract_submissions", NoColumns, submissionsAdd, {})
      /\ Does(step, "contract_submission_source_files", NoColumns, filesAdd, {})
      /\ Does(step, "contracts", NoColumns, submissionsAdd, {})
      /\ Does(step, "contract_source_files", NoColumns, sourcesAdd, {})
      /\ Does(step, "contract_verification_history", NoColumns, NoColumns, {})
  BY <1>1, InColumns DEF Does, Has, NoColumns
<1>4. Merged(SubmissionColumns(2), SubmissionColumns(1), NoColumns, submissionsAdd, {})
  BY DEF Merged, SubmissionColumns, NoColumns, submissionsAdd
<1>5. Merged(FileColumns(2), FileColumns(1), NoColumns, filesAdd, {})
  BY DEF Merged, FileColumns, NoColumns, filesAdd
<1>6. Merged(ContractColumns(2), ContractColumns(1), NoColumns, submissionsAdd, {})
  BY DEF Merged, ContractColumns, NoColumns, submissionsAdd
<1>7. Merged(ContractFileColumns(2), ContractFileColumns(1), NoColumns, sourcesAdd, {})
  BY DEF Merged, ContractFileColumns, NoColumns, sourcesAdd
<1>8. /\ OldColumns(2) = OldColumns(1)
      /\ HistoryColumns(2) = HistoryColumns(1)
  BY DEF OldColumns, HistoryColumns
<1>. QED
  BY <1>1, <1>2, <1>3, <1>4, <1>5, <1>6, <1>7, <1>8,
     ChangedTable, UntouchedTable, DroppedTable, ChangedColumns
  DEF IsSchema, step

\* And takes the four tables back.
LEMMA UploadingContractsDownSchema ==
    ASSUME NEW S, IsSchema(S, 2)
    PROVE  IsSchema(Changed(S, UploadingContractsDown), 1)
<1> DEFINE step == UploadingContractsDown
<1>1. /\ step.dropTables = {"contract_source_files", "contracts",
                            "contract_submission_source_files", "contract_submissions"}
      /\ step.dropColumns = {}
      /\ step.alter = {}
      /\ step.add = {}
  BY DEF UploadingContractsDown, NoChange
<1> HIDE DEF step
<1>2. ColumnsOnly(step.alter) /\ ColumnsOnly(step.add)
  BY <1>1, ColumnsAreColumns DEF ColumnsOnly, Tables
<1>3. /\ Does(step, "contract_submission", NoColumns, NoColumns, {})
      /\ Has(step.alter, "contract_submissions", NoColumns)
      /\ Has(step.add, "contract_submissions", NoColumns)
      /\ Has(step.alter, "contract_submission_source_files", NoColumns)
      /\ Has(step.add, "contract_submission_source_files", NoColumns)
      /\ Has(step.alter, "contracts", NoColumns)
      /\ Has(step.add, "contracts", NoColumns)
      /\ Has(step.alter, "contract_source_files", NoColumns)
      /\ Has(step.add, "contract_source_files", NoColumns)
      /\ Does(step, "contract_verification_history", NoColumns, NoColumns, {})
  BY <1>1, InColumns DEF Does, Has, NoColumns
<1>4. /\ OldColumns(1) = OldColumns(2)
      /\ SubmissionColumns(1) = NoColumns
      /\ FileColumns(1) = NoColumns
      /\ ContractColumns(1) = NoColumns
      /\ ContractFileColumns(1) = NoColumns
      /\ HistoryColumns(1) = HistoryColumns(2)
  BY DEF OldColumns, SubmissionColumns, FileColumns, ContractColumns,
         ContractFileColumns, HistoryColumns
<1>. QED
  BY <1>1, <1>2, <1>3, <1>4,
     ChangedTable, UntouchedTable, DroppedTable, ChangedColumns
  DEF IsSchema, step

\* SubmissionVerification brings status and result, and widens a path.
LEMMA SubmissionVerificationUpSchema ==
    ASSUME NEW S, IsSchema(S, 2)
    PROVE  IsSchema(Changed(S, SubmissionVerificationUp), 3)
<1> DEFINE step == SubmissionVerificationUp
           submissionsAdd == [submitted_at |-> Timestamp, status |-> OldStatus,
                              result |-> "varchar"]
           sourcesAdd == [file_path |-> Varchar]
<1>1. /\ step.dropTables = {}
      /\ step.dropColumns = {<<"contract_source_files", "file_path">>}
      /\ step.alter = {}
      /\ step.add = Columns("contract_submissions", submissionsAdd) \cup
                       Columns("contract_source_files", sourcesAdd)
  BY DEF SubmissionVerificationUp, NoChange
<1> HIDE DEF step, submissionsAdd, sourcesAdd
<1>2. ColumnsOnly(step.alter) /\ ColumnsOnly(step.add)
  BY <1>1, ColumnsAreColumns DEF ColumnsOnly, Tables
<1>3. /\ Does(step, "contract_submission", NoColumns, NoColumns, {})
      /\ Does(step, "contract_submissions", NoColumns, submissionsAdd, {})
      /\ Does(step, "contract_submission_source_files", NoColumns, NoColumns, {})
      /\ Does(step, "contracts", NoColumns, NoColumns, {})
      /\ Does(step, "contract_source_files", NoColumns, sourcesAdd, {"file_path"})
      /\ Does(step, "contract_verification_history", NoColumns, NoColumns, {})
  BY <1>1, InColumns DEF Does, Has, NoColumns
<1>4. Merged(SubmissionColumns(3), SubmissionColumns(2), NoColumns, submissionsAdd, {})
  BY DEF Merged, SubmissionColumns, NoColumns, submissionsAdd
<1>5. Merged(ContractFileColumns(3), ContractFileColumns(2), NoColumns, sourcesAdd,
            {"file_path"})
  BY DEF Merged, ContractFileColumns, NoColumns, sourcesAdd
<1>6. /\ OldColumns(3) = OldColumns(2)
      /\ FileColumns(3) = FileColumns(2)
      /\ ContractColumns(3) = ContractColumns(2)
      /\ HistoryColumns(3) = HistoryColumns(2)
  BY DEF OldColumns, FileColumns, ContractColumns, HistoryColumns
<1>. QED
  BY <1>1, <1>2, <1>3, <1>4, <1>5, <1>6,
     ChangedTable, UntouchedTable, DroppedTable, ChangedColumns
  DEF IsSchema, step

\* And takes the three columns back and narrows the path.
LEMMA SubmissionVerificationDownSchema ==
    ASSUME NEW S, IsSchema(S, 3)
    PROVE  IsSchema(Changed(S, SubmissionVerificationDown), 2)
<1> DEFINE step == SubmissionVerificationDown
           sourcesAdd == [file_path |-> Varchar127]
           submissionsDrop == {"result", "status", "submitted_at"}
<1>1. /\ step.dropTables = {}
      /\ step.dropColumns = ({"contract_submissions"} \X submissionsDrop) \cup
                       {<<"contract_source_files", "file_path">>}
      /\ step.alter = {}
      /\ step.add = Columns("contract_source_files", sourcesAdd)
  BY DEF SubmissionVerificationDown, NoChange
<1> HIDE DEF step, sourcesAdd, submissionsDrop
<1>2. ColumnsOnly(step.alter) /\ ColumnsOnly(step.add)
  BY <1>1, ColumnsAreColumns DEF ColumnsOnly, Tables
<1>3. /\ Does(step, "contract_submission", NoColumns, NoColumns, {})
      /\ Does(step, "contract_submissions", NoColumns, NoColumns, submissionsDrop)
      /\ Does(step, "contract_submission_source_files", NoColumns, NoColumns, {})
      /\ Does(step, "contracts", NoColumns, NoColumns, {})
      /\ Does(step, "contract_source_files", NoColumns, sourcesAdd, {"file_path"})
      /\ Does(step, "contract_verification_history", NoColumns, NoColumns, {})
  BY <1>1, InColumns DEF Does, Has, NoColumns
<1>4. Merged(SubmissionColumns(2), SubmissionColumns(3), NoColumns, NoColumns,
            submissionsDrop)
  BY DEF Merged, SubmissionColumns, NoColumns, submissionsDrop
<1>5. Merged(ContractFileColumns(2), ContractFileColumns(3), NoColumns, sourcesAdd,
            {"file_path"})
  BY DEF Merged, ContractFileColumns, NoColumns, sourcesAdd
<1>6. /\ OldColumns(2) = OldColumns(3)
      /\ FileColumns(2) = FileColumns(3)
      /\ ContractColumns(2) = ContractColumns(3)
      /\ HistoryColumns(2) = HistoryColumns(3)
  BY DEF OldColumns, FileColumns, ContractColumns, HistoryColumns
<1>. QED
  BY <1>1, <1>2, <1>3, <1>4, <1>5, <1>6,
     ChangedTable, UntouchedTable, DroppedTable, ChangedColumns
  DEF IsSchema, step

\* Verification changes every table.
LEMMA VerificationUpSchema ==
    ASSUME NEW S, IsSchema(S, 3)
    PROVE  IsSchema(Changed(S, VerificationUp), 4)
<1> DEFINE step == VerificationUp
           submissionsAlter == [status |-> NewStatus]
           submissionsAdd == [bytecode |-> Varchar,
                              encoded_init_call_parameters |-> Varchar,
                              last_update |-> Timestamp, retry_count |-> RetryCount,
                              retry_after |-> "timestamp"]
           filesAlter == [submission_id |-> CascadingKey]
           contractsAlter == [contract_id |-> UniqueVarchar63]
           contractsAdd == [aci |-> Varchar, bytecode |-> Varchar,
                            init_call_parameters |-> Varchar,
                            encoded_init_call_parameters |-> Varchar,
                            verified_at |-> Timestamp]
           sourcesAdd == [contract_id |-> CascadingKey]
           historyAdd == [id |-> Id, submission_id |-> Varchar63,
                          created |-> Timestamp, prev_status |-> Status,
                          new_status |-> Status, result |-> "varchar",
                          source |-> "varchar"]
<1>1. /\ step.dropTables = {"contract_submission"}
      /\ step.dropColumns = {<<"contract_source_files", "contract_id">>}
      /\ step.alter = Columns("contract_submissions", submissionsAlter) \cup
                       Columns("contract_submission_source_files", filesAlter) \cup
                       Columns("contracts", contractsAlter)
      /\ step.add = Columns("contract_submissions", submissionsAdd) \cup
                       Columns("contracts", contractsAdd) \cup
                       Columns("contract_source_files", sourcesAdd) \cup
                       Columns("contract_verification_history", historyAdd)
  BY DEF VerificationUp, NoChange
<1> HIDE DEF step, submissionsAlter, submissionsAdd, filesAlter, contractsAlter,
             contractsAdd, sourcesAdd, historyAdd
<1>2. ColumnsOnly(step.alter) /\ ColumnsOnly(step.add)
  BY <1>1, ColumnsAreColumns DEF ColumnsOnly, Tables
<1>3. /\ Has(step.alter, "contract_submission", NoColumns)
      /\ Has(step.add, "contract_submission", NoColumns)
      /\ Does(step, "contract_submissions", submissionsAlter, submissionsAdd, {})
      /\ Does(step, "contract_submission_source_files", filesAlter, NoColumns, {})
      /\ Does(step, "contracts", contractsAlter, contractsAdd, {})
      /\ Does(step, "contract_source_files", NoColumns, sourcesAdd, {"contract_id"})
      /\ Does(step, "contract_verification_history", NoColumns, historyAdd, {})
  BY <1>1, InColumns DEF Does, Has, NoColumns
<1>4. Merged(SubmissionColumns(4), SubmissionColumns(3), submissionsAlter,
            submissionsAdd, {})
  BY DEF Merged, SubmissionColumns, NoColumns, submissionsAlter, submissionsAdd
<1>5. Merged(FileColumns(4), FileColumns(3), filesAlter, NoColumns, {})
  BY DEF Merged, FileColumns, NoColumns, filesAlter
<1>6. Merged(ContractColumns(4), ContractColumns(3), contractsAlter, contractsAdd, {})
  BY DEF Merged, ContractColumns, NoColumns, contractsAlter, contractsAdd
<1>7. Merged(ContractFileColumns(4), ContractFileColumns(3), NoColumns, sourcesAdd,
            {"contract_id"})
  BY DEF Merged, ContractFileColumns, NoColumns, sourcesAdd
<1>8. Merged(HistoryColumns(4), HistoryColumns(3), NoColumns, historyAdd, {})
  BY DEF Merged, HistoryColumns, NoColumns, historyAdd
<1>9. OldColumns(4) = NoColumns
  BY DEF OldColumns
<1>. QED
  BY <1>1, <1>2, <1>3, <1>4, <1>5, <1>6, <1>7, <1>8, <1>9,
     ChangedTable, UntouchedTable, DroppedTable, ChangedColumns
  DEF IsSchema, step

\* And changes every table back, the dropped one included.
LEMMA VerificationDownSchema ==
    ASSUME NEW S, IsSchema(S, 4)
    PROVE  IsSchema(Changed(S, VerificationDown), 3)
<1> DEFINE step == VerificationDown
           oldAdd == [id |-> Id, contract_id |-> Varchar63]
           submissionsAlter == [status |-> OldStatus]
           filesAlter == [submission_id |-> ForeignKey]
           contractsAlter == [contract_id |-> Varchar63]
           submissionsDrop == {"bytecode", "encoded_init_call_parameters",
                               "last_update", "retry_count", "retry_after"}
           contractsDrop == {"aci", "bytecode", "init_call_parameters",
                             "encoded_init_call_parameters", "verified_at"}
<1>1. /\ step.dropTables = {"contract_verification_history"}
      /\ step.dropColumns = ({"contract_submissions"} \X submissionsDrop) \cup
                       ({"contracts"} \X contractsDrop) \cup
                       {<<"contract_source_files", "contract_id">>}
      /\ step.alter = Columns("contract_submissions", submissionsAlter) \cup
                       Columns("contract_submission_source_files", filesAlter) \cup
                       Columns("contracts", contractsAlter)
      /\ step.add = Columns("contract_submission", oldAdd) \cup
                       Columns("contract_source_files", contractsAlter)
  BY DEF VerificationDown, NoChange, AlterVerificationBack, AddBeforeVerification
<1> HIDE DEF step, oldAdd, submissionsAlter, filesAlter, contractsAlter,
             submissionsDrop, contractsDrop
<1>2. ColumnsOnly(step.alter) /\ ColumnsOnly(step.add)
  BY <1>1, ColumnsAreColumns DEF ColumnsOnly, Tables
<1>3. /\ Does(step, "contract_submission", NoColumns, oldAdd, {})
      /\ Does(step, "contract_submissions", submissionsAlter, NoColumns, submissionsDrop)
      /\ Does(step, "contract_submission_source_files", filesAlter, NoColumns, {})
      /\ Does(step, "contracts", contractsAlter, NoColumns, contractsDrop)
      /\ Does(step, "contract_source_files", NoColumns, contractsAlter, {"contract_id"})
      /\ Has(step.alter, "contract_verification_history", NoColumns)
      /\ Has(step.add, "contract_verification_history", NoColumns)
  BY <1>1, InColumns DEF Does, Has, NoColumns
<1>4. Merged(OldColumns(3), OldColumns(4), NoColumns, oldAdd, {})
  BY DEF Merged, OldColumns, NoColumns, oldAdd
<1>5. Merged(SubmissionColumns(3), SubmissionColumns(4), submissionsAlter, NoColumns,
            submissionsDrop)
  BY DEF Merged, SubmissionColumns, NoColumns, submissionsAlter, submissionsDrop
<1>6. Merged(FileColumns(3), FileColumns(4), filesAlter, NoColumns, {})
  BY DEF Merged, FileColumns, NoColumns, filesAlter
<1>7. Merged(ContractColumns(3), ContractColumns(4), contractsAlter, NoColumns,
            contractsDrop)
  BY DEF Merged, ContractColumns, NoColumns, contractsAlter, contractsDrop
<1>8. Merged(ContractFileColumns(3), ContractFileColumns(4), NoColumns, contractsAlter,
            {"contract_id"})
  BY DEF Merged, ContractFileColumns, NoColumns, contractsAlter
<1>9. HistoryColumns(3) = NoColumns
  BY DEF HistoryColumns
<1>. QED
  BY <1>1, <1>2, <1>3, <1>4, <1>5, <1>6, <1>7, <1>8, <1>9,
     ChangedTable, UntouchedTable, DroppedTable, ChangedColumns
  DEF IsSchema, step

\* AutoDetectCompiler lets the compiler be NULL.
LEMMA AutoDetectCompilerUpSchema ==
    ASSUME NEW S, IsSchema(S, 4)
    PROVE  IsSchema(Changed(S, AutoDetectCompilerUp), 5)
<1> DEFINE step == AutoDetectCompilerUp
           submissionsAlter == [compiler |-> "varchar(63)"]
<1>1. /\ step.dropTables = {}
      /\ step.dropColumns = {}
      /\ step.alter = Columns("contract_submissions", submissionsAlter) \cup
                       Columns("contracts", submissionsAlter)
      /\ step.add = {}
  BY DEF AutoDetectCompilerUp, NoChange, Compilers
<1> HIDE DEF step, submissionsAlter
<1>2. ColumnsOnly(step.alter) /\ ColumnsOnly(step.add)
  BY <1>1, ColumnsAreColumns DEF ColumnsOnly, Tables
<1>3. /\ Does(step, "contract_submission", NoColumns, NoColumns, {})
      /\ Does(step, "contract_submissions", submissionsAlter, NoColumns, {})
      /\ Does(step, "contract_submission_source_files", NoColumns, NoColumns, {})
      /\ Does(step, "contracts", submissionsAlter, NoColumns, {})
      /\ Does(step, "contract_source_files", NoColumns, NoColumns, {})
      /\ Does(step, "contract_verification_history", NoColumns, NoColumns, {})
  BY <1>1, InColumns DEF Does, Has, NoColumns
<1>4. Merged(SubmissionColumns(5), SubmissionColumns(4), submissionsAlter, NoColumns, {})
  BY DEF Merged, SubmissionColumns, NoColumns, submissionsAlter
<1>5. Merged(ContractColumns(5), ContractColumns(4), submissionsAlter, NoColumns, {})
  BY DEF Merged, ContractColumns, NoColumns, submissionsAlter
<1>6. /\ OldColumns(5) = OldColumns(4)
      /\ FileColumns(5) = FileColumns(4)
      /\ ContractFileColumns(5) = ContractFileColumns(4)
      /\ HistoryColumns(5) = HistoryColumns(4)
  BY DEF OldColumns, FileColumns, ContractFileColumns, HistoryColumns
<1>. QED
  BY <1>1, <1>2, <1>3, <1>4, <1>5, <1>6,
     ChangedTable, UntouchedTable, DroppedTable, ChangedColumns
  DEF IsSchema, step

\* And forbids that again.
LEMMA AutoDetectCompilerDownSchema ==
    ASSUME NEW S, IsSchema(S, 5)
    PROVE  IsSchema(Changed(S, AutoDetectCompilerDown), 4)
<1> DEFINE step == AutoDetectCompilerDown
           submissionsAlter == [compiler |-> Varchar63]
<1>1. /\ step.dropTables = {}
      /\ step.dropColumns = {}
      /\ step.alter = Columns("contract_submissions", submissionsAlter) \cup
                       Columns("contracts", submissionsAlter)
      /\ step.add = {}
  BY DEF AutoDetectCompilerDown, NoChange, Compilers
<1> HIDE DEF step, submissionsAlter
<1>2. ColumnsOnly(step.alter) /\ ColumnsOnly(step.add)
  BY <1>1, ColumnsAreColumns DEF ColumnsOnly, Tables
<1>3. /\ Does(step, "contract_submission", NoColumns, NoColumns, {})
      /\ Does(step, "contract_submissions", submissionsAlter, NoColumns, {})
      /\ Does(step, "contract_submission_source_files", NoColumns, NoColumns, {})
      /\ Does(step, "contracts", submissionsAlter, NoColumns, {})
      /\ Does(step, "contract_source_files", NoColumns, NoColumns, {})
      /\ Does(step, "contract_verification_history", NoColumns, NoColumns, {})
  BY <1>1, InColumns DEF Does, Has, NoColumns
<1>4. Merged(SubmissionColumns(4), SubmissionColumns(5), submissionsAlter, NoColumns, {})
  BY DEF Merged, SubmissionColumns, NoColumns, submissionsAlter
<1>5. Merged(ContractColumns(4), ContractColumns(5), submissionsAlter, NoColumns, {})
  BY DEF Merged, ContractColumns, NoColumns, submissionsAlter
<1>6. /\ OldColumns(4) = OldColumns(5)
      /\ FileColumns(4) = FileColumns(5)
      /\ ContractFileColumns(4) = ContractFileColumns(5)
      /\ HistoryColumns(4) = HistoryColumns(5)
  BY DEF OldColumns, FileColumns, ContractFileColumns, HistoryColumns
<1>. QED
  BY <1>1, <1>2, <1>3, <1>4, <1>5, <1>6,
     ChangedTable, UntouchedTable, DroppedTable, ChangedColumns
  DEF IsSchema, step

-----------------------------------------------------------------------------
(* Whole databases.                                                        *)

\* The rows a database with the first i migrations can have: a published contract
\* has its files, nothing is published before Verification, and the status
\* column of the migrations before that one holds its three values.
RowsFit(d, i) ==
    /\ d = [schema |-> d.schema, rows |-> d.rows, status |-> d.status,
            compiler |-> d.compiler]
    /\ d.rows \in [Tables -> SUBSET SubmissionIds]
    /\ d.compiler \in [CompilerTables -> [SubmissionIds -> CompilerCells]]
    /\ DOMAIN d.status = SubmissionIds
    /\ d.rows["contract_submission"] = {}
    /\ d.rows["contract_submission_source_files"] = d.rows["contract_submissions"]
    /\ d.rows["contracts"] \subseteq d.rows["contract_source_files"]
    /\ i < 2 => d.rows["contract_submissions"] = {}
    /\ i < 4 => /\ d.rows["contract_source_files"] = {}
                /\ d.rows["contract_verification_history"] = {}
    /\ i \in {2, 3} => \A s \in d.rows["contract_submissions"] : d.status[s] \in OldStatusEnum

Sound(d, i) == IsSchema(d.schema, i) /\ RowsFit(d, i)

MigrationInv == applied \in 0..5 /\ Sound(db, applied)

\* The migrations by number.
LEMMA FiveMigrations ==
    /\ Len(Ups) = 5
    /\ Ups[1] = InitialSchemaUp /\ Downs[1] = InitialSchemaDown
    /\ Ups[2] = UploadingContractsUp /\ Downs[2] = UploadingContractsDown
    /\ Ups[3] = SubmissionVerificationUp /\ Downs[3] = SubmissionVerificationDown
    /\ Ups[4] = VerificationUp /\ Downs[4] = VerificationDown
    /\ Ups[5] = AutoDetectCompilerUp /\ Downs[5] = AutoDetectCompilerDown
BY DEF Ups, Downs

\* The old enum is its own, and which columns need a value.
LEMMA DdlsDiffer ==
    /\ OldStatus \notin {Id, Varchar, Varchar63, Varchar127, UniqueVarchar63, Status, Timestamp,
                         NewStatus, ForeignKey, CascadingKey, RetryCount, "varchar",
                         "timestamp", "varchar(63)"}
    /\ "varchar(63)" \notin Required
    /\ {Varchar, Varchar63} \subseteq Required
BY DEF Id, Varchar, Varchar63, Varchar127, UniqueVarchar63, Status, Timestamp, NewStatus,
       ForeignKey, CascadingKey, RetryCount, OldStatus, Required

\* What After leaves alone.
LEMMA AfterFields ==
    ASSUME NEW d, NEW step
    PROVE  /\ After(d, step) = [schema |-> After(d, step).schema, rows |-> After(d, step).rows,
                                status |-> After(d, step).status,
                                compiler |-> After(d, step).compiler]
           /\ After(d, step).schema = Changed(d.schema, step)
           /\ After(d, step).rows =
                [table \in Tables |-> IF table \in step.dropTables THEN {} ELSE d.rows[table]]
           /\ After(d, step).compiler = d.compiler
           /\ \/ After(d, step).status = d.status
              \/ After(d, step).status = [s \in SubmissionIds |-> "pending"]
BY DEF After, Changed

\* Rows go with their table only.
LEMMA AfterRows ==
    ASSUME NEW d, NEW step, NEW table \in Tables
    PROVE  After(d, step).rows[table] = IF table \in step.dropTables THEN {} ELSE d.rows[table]
BY DEF After

\* The tables each migration drops.
LEMMA Drops ==
    /\ \A i \in 1..3 : Ups[i].dropTables = {}
    /\ Ups[4].dropTables = {"contract_submission"}
    /\ Ups[5].dropTables = {}
    /\ Downs[1].dropTables = {"contract_submission"}
    /\ Downs[2].dropTables = {"contract_source_files", "contracts",
                              "contract_submission_source_files", "contract_submissions"}
    /\ Downs[3].dropTables = {}
    /\ Downs[4].dropTables = {"contract_verification_history"}
    /\ Downs[5].dropTables = {}
<1>1. InitialSchemaUp.dropTables = {} /\ InitialSchemaDown.dropTables = {"contract_submission"}
  BY DEF InitialSchemaUp, InitialSchemaDown, NoChange
<1>2. /\ UploadingContractsUp.dropTables = {}
      /\ UploadingContractsDown.dropTables =
           {"contract_source_files", "contracts", "contract_submission_source_files",
            "contract_submissions"}
  BY DEF UploadingContractsUp, UploadingContractsDown, NoChange
<1>3. SubmissionVerificationUp.dropTables = {} /\ SubmissionVerificationDown.dropTables = {}
  BY DEF SubmissionVerificationUp, SubmissionVerificationDown, NoChange
<1>4. /\ VerificationUp.dropTables = {"contract_submission"}
      /\ VerificationDown.dropTables = {"contract_verification_history"}
  BY DEF VerificationUp, VerificationDown, NoChange
<1>5. AutoDetectCompilerUp.dropTables = {} /\ AutoDetectCompilerDown.dropTables = {}
  BY DEF AutoDetectCompilerUp, AutoDetectCompilerDown, NoChange
<1>. QED
  BY <1>1, <1>2, <1>3, <1>4, <1>5, FiveMigrations

\* A migration applied.
LEMMA UpKeeps ==
    ASSUME NEW d, NEW i \in 1..5, Sound(d, i - 1)
    PROVE  Sound(After(d, Ups[i]), i)
<1> DEFINE e == After(d, Ups[i])
<1>1. /\ e = [schema |-> e.schema, rows |-> e.rows, status |-> e.status,
                compiler |-> e.compiler]
      /\ e.schema = Changed(d.schema, Ups[i])
      /\ e.rows =
           [table \in Tables |-> IF table \in Ups[i].dropTables THEN {} ELSE d.rows[table]]
      /\ e.compiler = d.compiler
      /\ e.status = d.status \/ e.status = [s \in SubmissionIds |-> "pending"]
  BY AfterFields
<1> HIDE DEF e
<1>2. RowsFit(d, i - 1) /\ IsSchema(d.schema, i - 1)
  BY DEF Sound
<1>3. IsSchema(e.schema, i)
  <2>1. CASE i = 1
    BY <1>1, <1>2, <2>1, FiveMigrations, InitialSchemaUpSchema
  <2>2. CASE i = 2
    BY <1>1, <1>2, <2>2, FiveMigrations, UploadingContractsUpSchema
  <2>3. CASE i = 3
    BY <1>1, <1>2, <2>3, FiveMigrations, SubmissionVerificationUpSchema
  <2>4. CASE i = 4
    BY <1>1, <1>2, <2>4, FiveMigrations, VerificationUpSchema
  <2>5. CASE i = 5
    BY <1>1, <1>2, <2>5, FiveMigrations, AutoDetectCompilerUpSchema
  <2>. QED
    BY <2>1, <2>2, <2>3, <2>4, <2>5
<1>4. RowsFit(e, i)
  <2>1. Ups[i].dropTables \subseteq {"contract_submission"}
    BY Drops
  <2>2. \A table \in Tables : e.rows[table] = d.rows[table]
    BY <1>1, <1>2, <2>1 DEF RowsFit
  <2>3. e.rows = d.rows
    BY <1>1, <1>2, <2>2 DEF RowsFit
  <2>4. /\ DOMAIN e.status = SubmissionIds
        /\ \A s \in SubmissionIds : e.status[s] = d.status[s] \/ e.status[s] = "pending"
    BY <1>1, <1>2 DEF RowsFit
  <2>5. ASSUME i \in {2, 3}, NEW s \in e.rows["contract_submissions"]
        PROVE  e.status[s] \in OldStatusEnum
    <3>1. s \in SubmissionIds
      BY <1>2, <2>3, <2>5 DEF RowsFit, Tables
    <3>2. CASE i = 2
      BY <1>2, <2>3, <2>5, <3>2 DEF RowsFit
    <3>3. CASE i = 3
      <4>1. d.status[s] \in OldStatusEnum
        BY <1>2, <2>3, <2>5, <3>3 DEF RowsFit
      <4>. QED
        BY <2>4, <3>1, <4>1 DEF OldStatusEnum
    <3>. QED
      BY <2>5, <3>2, <3>3
  <2>6. /\ i < 2 => e.rows["contract_submissions"] = {}
        /\ i < 4 => /\ e.rows["contract_source_files"] = {}
                    /\ e.rows["contract_verification_history"] = {}
    BY <1>2, <2>3 DEF RowsFit
  <2>7. /\ e.rows \in [Tables -> SUBSET SubmissionIds]
        /\ e.rows["contract_submission"] = {}
        /\ e.rows["contract_submission_source_files"] = e.rows["contract_submissions"]
        /\ e.rows["contracts"] \subseteq e.rows["contract_source_files"]
    BY <1>2, <2>3 DEF RowsFit
  <2>. QED
    BY <1>1, <1>2, <2>3, <2>4, <2>5, <2>6, <2>7 DEF RowsFit
<1>. QED
  BY <1>3, <1>4 DEF Sound, e

\* What the rows themselves keep from being reverted.
LEMMA VerificationStays ==
    ASSUME NEW d, ~Refused(d, VerificationDown)
    PROVE  /\ d.rows["contract_source_files"] = {}
           /\ \A s \in d.rows["contract_submissions"] : d.status[s] \in OldStatusEnum
<1>1. /\ VerificationDown.alter = AlterVerificationBack
      /\ VerificationDown.add = AddBeforeVerification
  BY DEF VerificationDown, NoChange
<1>2. Col("contract_source_files", "contract_id", Varchar63) \in AddBeforeVerification
  BY InColumns DEF AddBeforeVerification
<1>3. Col("contract_submissions", "status", OldStatus) \in AlterVerificationBack
  BY InColumns DEF AlterVerificationBack
<1>4. /\ Col("contract_source_files", "contract_id", Varchar63).table = "contract_source_files"
      /\ Col("contract_source_files", "contract_id", Varchar63).ddl \in Required
      /\ Col("contract_submissions", "status", OldStatus).ddl = OldStatus
  BY ColFields, DdlsDiffer
<1>. QED
  BY <1>1, <1>2, <1>3, <1>4 DEF Refused

\* A migration reverted.
LEMMA DownKeeps ==
    ASSUME NEW d, NEW i \in 1..5, Sound(d, i), ~Refused(d, Downs[i])
    PROVE  Sound(After(d, Downs[i]), i - 1)
<1> DEFINE e == After(d, Downs[i])
<1>1. /\ e = [schema |-> e.schema, rows |-> e.rows, status |-> e.status,
                compiler |-> e.compiler]
      /\ e.schema = Changed(d.schema, Downs[i])
      /\ e.rows =
           [table \in Tables |-> IF table \in Downs[i].dropTables THEN {} ELSE d.rows[table]]
      /\ e.compiler = d.compiler
      /\ e.status = d.status \/ e.status = [s \in SubmissionIds |-> "pending"]
  BY AfterFields
<1> HIDE DEF e
<1>2. RowsFit(d, i) /\ IsSchema(d.schema, i)
  BY DEF Sound
<1>3. IsSchema(e.schema, i - 1)
  <2>1. CASE i = 1
    BY <1>1, <1>2, <2>1, FiveMigrations, InitialSchemaDownSchema
  <2>2. CASE i = 2
    BY <1>1, <1>2, <2>2, FiveMigrations, UploadingContractsDownSchema
  <2>3. CASE i = 3
    BY <1>1, <1>2, <2>3, FiveMigrations, SubmissionVerificationDownSchema
  <2>4. CASE i = 4
    BY <1>1, <1>2, <2>4, FiveMigrations, VerificationDownSchema
  <2>5. CASE i = 5
    BY <1>1, <1>2, <2>5, FiveMigrations, AutoDetectCompilerDownSchema
  <2>. QED
    BY <2>1, <2>2, <2>3, <2>4, <2>5
<1>4. RowsFit(e, i - 1)
  <2>1. /\ e.rows \in [Tables -> SUBSET SubmissionIds]
        /\ DOMAIN e.status = SubmissionIds
        /\ \A s \in SubmissionIds : e.status[s] = d.status[s] \/ e.status[s] = "pending"
    BY <1>1, <1>2 DEF RowsFit
  <2>2. \A table \in Tables :
          e.rows[table] = IF table \in Downs[i].dropTables THEN {} ELSE d.rows[table]
    BY <1>1
  <2>3. /\ e.rows["contract_submission"] = {}
        /\ e.rows["contract_submission_source_files"] = e.rows["contract_submissions"]
        /\ e.rows["contracts"] \subseteq e.rows["contract_source_files"]
    <3>1. CASE i = 2
      BY <1>2, <2>2, <3>1, Drops DEF RowsFit, Tables
    <3>2. CASE i # 2
      <4>1. i \in {1, 3, 4, 5}
        BY <3>2
      <4>2. Downs[i].dropTables \subseteq {"contract_submission", "contract_verification_history"}
        BY <4>1, Drops
      <4>. QED
        BY <1>2, <2>2, <4>2 DEF RowsFit, Tables
    <3>. QED
      BY <3>1, <3>2
  <2>4. i - 1 < 2 => e.rows["contract_submissions"] = {}
    <3>1. CASE i = 2
      BY <2>2, <3>1, Drops DEF Tables
    <3>2. CASE i = 1
      BY <1>2, <2>2, <3>2, Drops DEF Tables, RowsFit
    <3>. QED
      BY <3>1, <3>2
  <2>5. i - 1 < 4 => /\ e.rows["contract_source_files"] = {}
                     /\ e.rows["contract_verification_history"] = {}
    <3>1. CASE i = 4
      BY <1>2, <2>2, <3>1, Drops, FiveMigrations, VerificationStays DEF Tables
    <3>2. CASE i < 4
      BY <1>2, <2>2, <3>2 DEF Tables, RowsFit
    <3>. QED
      BY <3>1, <3>2
  <2>6. ASSUME i - 1 \in {2, 3}, NEW s \in e.rows["contract_submissions"]
        PROVE  e.status[s] \in OldStatusEnum
    <3>1. s \in SubmissionIds /\ s \in d.rows["contract_submissions"]
      BY <1>2, <2>1, <2>2, <2>6 DEF RowsFit, Tables
    <3>2. d.status[s] \in OldStatusEnum
      <4>1. CASE i = 3
        BY <1>2, <3>1, <4>1 DEF RowsFit
      <4>2. CASE i = 4
        BY <3>1, <4>2, FiveMigrations, VerificationStays
      <4>. QED
        BY <2>6, <4>1, <4>2
    <3>. QED
      BY <2>1, <3>1, <3>2 DEF OldStatusEnum
  <2>. QED
    BY <1>1, <1>2, <2>1, <2>3, <2>4, <2>5, <2>6 DEF RowsFit
<1>. QED
  BY <1>3, <1>4 DEF Sound, e

-----------------------------------------------------------------------------
(* Several migrations in one transaction.                                  *)

\* A transaction that starts at migration number from has got to number Reached
\* when the i-th one has had its turn.
Reached(from, to, i) == IF i <= from THEN from ELSE IF i <= to THEN i ELSE to

Turn(dbs, i, from, to) == IF from < i /\ i <= to THEN Migrate(dbs, Ups[i]) ELSE dbs

\* Each turn leaves sound databases.
LEMMA TurnKeeps ==
    ASSUME NEW dbs, NEW from \in 0..5, NEW to \in from..5, NEW i \in 1..5,
           \A d \in dbs : Sound(d, Reached(from, to, i - 1))
    PROVE  \A d \in Turn(dbs, i, from, to) : Sound(d, Reached(from, to, i))
<1>1. CASE from < i /\ i <= to
  <2>1. Reached(from, to, i - 1) = i - 1 /\ Reached(from, to, i) = i
    BY <1>1 DEF Reached
  <2>2. ASSUME NEW d \in Turn(dbs, i, from, to)
        PROVE  Sound(d, i)
    <3>1. PICK x \in dbs : d = After(x, Ups[i])
      BY <1>1 DEF Turn, Migrate
    <3>. QED
      BY <2>1, <3>1, UpKeeps
  <2>. QED
    BY <2>1, <2>2
<1>2. CASE ~(from < i /\ i <= to)
  <2>1. Reached(from, to, i - 1) = Reached(from, to, i)
    BY <1>2 DEF Reached
  <2>. QED
    BY <1>2, <2>1 DEF Turn
<1>. QED
  BY <1>1, <1>2

\* A transaction is five turns.
LEMMA MigratedInTurns ==
    ASSUME NEW d, NEW from, NEW to
    PROVE  Migrated(d, from, to) =
             Turn(Turn(Turn(Turn(Turn({d}, 1, from, to), 2, from, to), 3, from, to),
                       4, from, to), 5, from, to)
BY DEF Migrated, Turn

\* A transaction that goes through leaves a sound database.
LEMMA MigratedKeeps ==
    ASSUME NEW d, NEW from \in 0..5, NEW to \in from..5, Sound(d, from)
    PROVE  \A e \in Migrated(d, from, to) : Sound(e, to)
<1> DEFINE X1 == Turn({d}, 1, from, to)
           X2 == Turn(X1, 2, from, to)
           X3 == Turn(X2, 3, from, to)
           X4 == Turn(X3, 4, from, to)
           X5 == Turn(X4, 5, from, to)
<1>0. Migrated(d, from, to) = X5
  BY MigratedInTurns
<1>1. \A e \in {d} : Sound(e, Reached(from, to, 0))
  BY DEF Reached
<1> HIDE DEF X1, X2, X3, X4, X5
<1>2. \A e \in X1 : Sound(e, Reached(from, to, 1))
  BY <1>1, TurnKeeps DEF X1
<1>3. \A e \in X2 : Sound(e, Reached(from, to, 2))
  BY <1>2, TurnKeeps DEF X2
<1>4. \A e \in X3 : Sound(e, Reached(from, to, 3))
  BY <1>3, TurnKeeps DEF X3
<1>5. \A e \in X4 : Sound(e, Reached(from, to, 4))
  BY <1>4, TurnKeeps DEF X4
<1>6. \A e \in X5 : Sound(e, Reached(from, to, 5))
  BY <1>5, TurnKeeps DEF X5
<1>7. Reached(from, to, 5) = to
  BY DEF Reached
<1>. QED
  BY <1>0, <1>6, <1>7

\* A database some of whose rows are gone or pending again, but with their compilers.
Milder(e, d) ==
    /\ \A table \in Tables : e.rows[table] \subseteq d.rows[table]
    /\ e.status = d.status \/ e.status = [s \in SubmissionIds |-> "pending"]
    /\ e.compiler = d.compiler

\* A migration takes rows and statuses away at most.
LEMMA AfterMilder ==
    ASSUME NEW d, NEW x, Milder(x, d), NEW step
    PROVE  Milder(After(x, step), d)
<1>1. \A table \in Tables : After(x, step).rows[table] \subseteq x.rows[table]
  BY AfterRows
<1>2. /\ After(x, step).status \in {x.status, [s \in SubmissionIds |-> "pending"]}
      /\ After(x, step).compiler = x.compiler
  BY DEF After
<1>. QED
  BY <1>1, <1>2 DEF Milder

\* So does each turn.
LEMMA TurnMilder ==
    ASSUME NEW d, NEW dbs, NEW from, NEW to, NEW i, \A e \in dbs : Milder(e, d)
    PROVE  \A e \in Turn(dbs, i, from, to) : Milder(e, d)
<1>1. ASSUME NEW e \in Migrate(dbs, Ups[i])
      PROVE  Milder(e, d)
  <2>1. PICK x \in dbs : e = After(x, Ups[i])
    BY <1>1 DEF Migrate
  <2>. QED
    BY <2>1, AfterMilder
<1>. QED
  BY <1>1 DEF Turn

\* And so does a transaction.
LEMMA MigratedMilder ==
    ASSUME NEW d, NEW from, NEW to
    PROVE  \A e \in Migrated(d, from, to) : Milder(e, d)
<1> DEFINE X1 == Turn({d}, 1, from, to)
           X2 == Turn(X1, 2, from, to)
           X3 == Turn(X2, 3, from, to)
           X4 == Turn(X3, 4, from, to)
           X5 == Turn(X4, 5, from, to)
<1>0. Migrated(d, from, to) = X5
  BY MigratedInTurns
<1>1. \A e \in {d} : Milder(e, d)
  BY DEF Milder
<1> HIDE DEF X1, X2, X3, X4, X5
<1>2. \A e \in X1 : Milder(e, d)
  BY <1>1, TurnMilder DEF X1
<1>3. \A e \in X2 : Milder(e, d)
  BY <1>2, TurnMilder DEF X2
<1>4. \A e \in X3 : Milder(e, d)
  BY <1>3, TurnMilder DEF X3
<1>5. \A e \in X4 : Milder(e, d)
  BY <1>4, TurnMilder DEF X4
<1>6. \A e \in X5 : Milder(e, d)
  BY <1>5, TurnMilder DEF X5
<1>. QED
  BY <1>0, <1>6

-----------------------------------------------------------------------------
(* The invariant.                                                          *)

\* The columns a table has by name.
LEMMA NamedColumns ==
    ASSUME NEW S, NEW t, NEW columns, ColumnsOnly(S), Has(S, t, columns)
    PROVE  Named(S, t) = DOMAIN columns
<1>1. ASSUME NEW n \in DOMAIN columns
      PROVE  n \in Named(S, t)
  <2>1. Col(t, n, columns[n]) \in S
    BY DEF Has
  <2>. QED
    BY <2>1, ColFields DEF Named
<1>2. ASSUME NEW n \in Named(S, t)
      PROVE  n \in DOMAIN columns
  <2>1. PICK c \in S : c.table = t /\ c.column = n
    BY DEF Named
  <2>. QED
    BY <2>1 DEF ColumnsOnly, Has
<1>. QED
  BY <1>1, <1>2

\* The entities stand for the schema with all five migrations.
LEMMA EntitiesSchema == IsSchema(Entities, 5)
<1>1. ColumnsOnly(Entities)
  BY ColumnsAreColumns
  DEF ColumnsOnly, Tables, Entities, ContractSubmissionEntity, ContractSubmissionSourceFileEntity,
      ContractEntity, ContractSourceFileEntity, ContractVerificationRecordEntity
<1> DEFINE submissions == SubmissionColumns(5)
           files == FileColumns(5)
           contracts == ContractColumns(5)
           sources == ContractFileColumns(5)
           history == HistoryColumns(5)
<1>2. /\ ContractSubmissionEntity = Columns("contract_submissions", submissions)
      /\ ContractSubmissionSourceFileEntity = Columns("contract_submission_source_files", files)
  BY DEF ContractSubmissionEntity, ContractSubmissionSourceFileEntity, SubmissionColumns,
         FileColumns
<1>3. /\ ContractEntity = Columns("contracts", contracts)
      /\ ContractVerificationRecordEntity = Columns("contract_verification_history", history)
  BY DEF ContractEntity, ContractVerificationRecordEntity, ContractColumns, HistoryColumns
<1>4. ContractSourceFileEntity = Columns("contract_source_files", sources)
  BY DEF ContractSourceFileEntity, ContractFileColumns, Columns
<1> HIDE DEF submissions, files, contracts, sources, history
<1>5. /\ Has(Entities, "contract_submission", NoColumns)
      /\ Has(Entities, "contract_submissions", submissions)
      /\ Has(Entities, "contract_submission_source_files", files)
      /\ Has(Entities, "contracts", contracts)
      /\ Has(Entities, "contract_source_files", sources)
      /\ Has(Entities, "contract_verification_history", history)
  BY <1>2, <1>3, <1>4, InColumns DEF Entities, Has, NoColumns
<1>. QED
  BY <1>1, <1>5 DEF IsSchema, OldColumns, submissions, files, contracts, sources, history

\* The gateway can store, publish and record only where Verification was run.
LEMMA UsableFrom ==
    ASSUME NEW i \in 0..5, IsSchema(db.schema, i),
           Usable("contract_submissions") \/ Usable("contracts")
             \/ Usable("contract_verification_history")
    PROVE  i >= 4
<1>1. /\ "last_update" \in Named(Entities, "contract_submissions")
      /\ "aci" \in Named(Entities, "contracts")
      /\ "source" \in Named(Entities, "contract_verification_history")
  <2>1. /\ "last_update" \in DOMAIN SubmissionColumns(5)
        /\ "aci" \in DOMAIN ContractColumns(5)
        /\ "source" \in DOMAIN HistoryColumns(5)
    BY DEF SubmissionColumns, ContractColumns, HistoryColumns
  <2>. QED
    BY <2>1, EntitiesSchema, NamedColumns DEF IsSchema
<1>2. ASSUME i < 4
      PROVE  /\ "last_update" \notin Named(db.schema, "contract_submissions")
             /\ "aci" \notin Named(db.schema, "contracts")
             /\ "source" \notin Named(db.schema, "contract_verification_history")
  <2>1. /\ "last_update" \notin DOMAIN SubmissionColumns(i)
        /\ "aci" \notin DOMAIN ContractColumns(i)
        /\ "source" \notin DOMAIN HistoryColumns(i)
    BY <1>2 DEF SubmissionColumns, ContractColumns, HistoryColumns, NoColumns
  <2>. QED
    BY <2>1, NamedColumns DEF IsSchema
<1>. QED
  BY <1>1, <1>2 DEF Usable

\* Only the status of a row and its compiler change with an update, and the old enum
\* is updated with values of its own.
LEMMA UpdateKeeps ==
    ASSUME MigrationInv, NEW s \in SubmissionIds,
           NEW new \in {"pending", "processing", "success", "fail"}, UpdateStatus(s, new)
    PROVE  MigrationInv'
<1>1. applied \in 0..5 /\ IsSchema(db.schema, applied) /\ RowsFit(db, applied)
  BY DEF MigrationInv, Sound
<1>2. /\ db = [schema |-> db.schema, rows |-> db.rows, status |-> db.status,
               compiler |-> db.compiler]
      /\ db.compiler \in [CompilerTables -> [SubmissionIds -> CompilerCells]]
      /\ DOMAIN db.status = SubmissionIds
  BY <1>1 DEF RowsFit
<1> DEFINE status == [db.status EXCEPT ![s] = new]
           compiler == [db.compiler EXCEPT !["contract_submissions"][s] =
                          IF new = "success" THEN "detected" ELSE @]
<1>3. db' = [schema |-> db.schema, rows |-> db.rows, status |-> status, compiler |-> compiler]
      /\ applied' = applied
  BY <1>2 DEF UpdateStatus
<1>4. compiler \in [CompilerTables -> [SubmissionIds -> CompilerCells]]
  BY <1>2 DEF CompilerTables, CompilerCells
<1>5. DOMAIN status = SubmissionIds /\ \A x \in SubmissionIds : status[x] \in {db.status[x], new}
  BY <1>2
<1> HIDE DEF status, compiler
<1>6. applied \in {2, 3} => new \in OldStatusEnum
  <2>. SUFFICES ASSUME applied \in {2, 3}, new = "processing" PROVE FALSE
    BY DEF OldStatusEnum
  <2>1. "retry_after" \in SetColumns[new]
    BY DEF SetColumns
  <2>2. "retry_after" \in DOMAIN SubmissionColumns(applied)
    BY <1>1, <2>1, NamedColumns DEF UpdateStatus, IsSchema
  <2>. QED
    BY <2>2 DEF SubmissionColumns
<1>7. RowsFit(db', applied)
  BY <1>1, <1>3, <1>4, <1>5, <1>6 DEF RowsFit, Tables
<1>. QED
  BY <1>1, <1>3, <1>7 DEF MigrationInv, Sound

\* Rows are inserted with all they need, where Verification was run.
LEMMA InsertKeeps ==
    ASSUME MigrationInv, NEW s \in SubmissionIds, Submit(s) \/ RecordTransition(s) \/ Publish(s)
    PROVE  MigrationInv'
<1>1. applied' = applied /\ applied >= 4
  BY UsableFrom DEF MigrationInv, Sound, Submit, RecordTransition, Publish
<1>2. db'.schema = db.schema
  BY DEF MigrationInv, Sound, RowsFit, Submit, RecordTransition, Publish
<1>3. RowsFit(db, applied)
  BY DEF MigrationInv, Sound
<1>4. /\ db = [schema |-> db.schema, rows |-> db.rows, status |-> db.status,
               compiler |-> db.compiler]
      /\ db.rows \in [Tables -> SUBSET SubmissionIds]
      /\ db.compiler \in [CompilerTables -> [SubmissionIds -> CompilerCells]]
      /\ DOMAIN db.status = SubmissionIds
  BY <1>3 DEF RowsFit
<1>5. \E tables, status, compiler :
        /\ compiler \in [CompilerTables -> [SubmissionIds -> CompilerCells]]
        /\ DOMAIN status = SubmissionIds
        /\ db' = [schema |-> db.schema, rows |-> WithRow(tables, s), status |-> status,
                  compiler |-> compiler]
        /\ tables \in {{"contract_submissions", "contract_submission_source_files"},
                        {"contract_verification_history"},
                        {"contracts", "contract_source_files"}}
  <2>1. CASE Submit(s)
    <3> DEFINE status == [db.status EXCEPT ![s] = "new"]
               compiler == [db.compiler EXCEPT !["contract_submissions"][s] = "NULL"]
    <3>1. DOMAIN status = SubmissionIds
      BY <1>4
    <3>2. compiler \in [CompilerTables -> [SubmissionIds -> CompilerCells]]
      BY <1>4 DEF CompilerTables, CompilerCells
    <3>3. db' = [schema |-> db.schema, status |-> status, compiler |-> compiler,
                 rows |-> WithRow({"contract_submissions", "contract_submission_source_files"}, s)]
      BY <1>4, <2>1 DEF Submit
    <3>. QED
      BY <3>1, <3>2, <3>3
  <2>2. CASE RecordTransition(s)
    <3>1. db' = [schema |-> db.schema, status |-> db.status, compiler |-> db.compiler,
                 rows |-> WithRow({"contract_verification_history"}, s)]
      BY <1>4, <2>2 DEF RecordTransition
    <3>. QED
      BY <1>4, <3>1
  <2>3. CASE Publish(s)
    <3> DEFINE compiler == [db.compiler EXCEPT !["contracts"][s] =
                              db.compiler["contract_submissions"][s]]
    <3>1. compiler \in [CompilerTables -> [SubmissionIds -> CompilerCells]]
      BY <1>4 DEF CompilerTables
    <3>2. db' = [schema |-> db.schema, status |-> db.status, compiler |-> compiler,
                 rows |-> WithRow({"contracts", "contract_source_files"}, s)]
      BY <1>4, <2>3 DEF Publish
    <3>. QED
      BY <1>4, <3>1, <3>2
  <2>. QED
    BY <2>1, <2>2, <2>3
<1>6. PICK tables, status, compiler :
        /\ compiler \in [CompilerTables -> [SubmissionIds -> CompilerCells]]
        /\ DOMAIN status = SubmissionIds
        /\ db' = [schema |-> db.schema, rows |-> WithRow(tables, s), status |-> status,
                  compiler |-> compiler]
        /\ tables \in {{"contract_submissions", "contract_submission_source_files"},
                        {"contract_verification_history"},
                        {"contracts", "contract_source_files"}}
  BY <1>5
<1>7. /\ db'.rows \in [Tables -> SUBSET SubmissionIds]
      /\ \A table \in Tables :
           db'.rows[table] = IF table \in tables THEN db.rows[table] \cup {s} ELSE db.rows[table]
  BY <1>4, <1>6 DEF WithRow
<1>8. /\ db'.rows["contract_submission"] = {}
      /\ db'.rows["contract_submission_source_files"] = db'.rows["contract_submissions"]
      /\ db'.rows["contracts"] \subseteq db'.rows["contract_source_files"]
  BY <1>3, <1>6, <1>7 DEF RowsFit, Tables
<1>9. RowsFit(db', applied)
  BY <1>1, <1>6, <1>7, <1>8 DEF RowsFit, MigrationInv
<1>. QED
  BY <1>1, <1>2, <1>9 DEF MigrationInv, Sound

\* The `down' of the latest migration meets nothing it does not fit.
LEMMA LatestDownGoes ==
    ASSUME NEW d
    PROVE  ~Refused(d, AutoDetectCompilerDown)
<1>1. /\ AutoDetectCompilerDown.add = {}
      /\ AutoDetectCompilerDown.alter = Columns("contract_submissions", [compiler |-> Varchar63])
                               \cup Columns("contracts", [compiler |-> Varchar63])
  BY DEF AutoDetectCompilerDown, NoChange, Compilers
<1>2. \A c \in AutoDetectCompilerDown.alter : c.ddl = Varchar63
  BY <1>1 DEF Columns
<1>. QED
  BY <1>1, <1>2, DdlsDiffer DEF Refused

\* What its commit leaves.
LEMMA AlterSubmissionsEffect ==
    ASSUME MigrationInv, AlterSubmissions
    PROVE  LET after == After(db, AutoDetectCompilerDown) IN
           /\ db'.schema = after.schema /\ db'.rows = after.rows /\ db'.status = after.status
           /\ db' = [schema |-> db'.schema, rows |-> db'.rows, status |-> db'.status,
                     compiler |-> db'.compiler]
           /\ db'.compiler =
                [table \in CompilerTables |-> [s \in SubmissionIds |->
                   IF s \in filled[table] THEN "empty" ELSE db.compiler[table][s]]]
<1> DEFINE after == After(db, AutoDetectCompilerDown)
           cells == [table \in CompilerTables |-> [s \in SubmissionIds |->
                       IF s \in filled[table] THEN "empty" ELSE db.compiler[table][s]]]
<1>1. after = [schema |-> after.schema, rows |-> after.rows, status |-> after.status,
               compiler |-> after.compiler]
  BY AfterFields
<1>2. db' = [after EXCEPT !.compiler = cells]
  BY DEF AlterSubmissions
<1> HIDE DEF after, cells
<1>3. db' = [schema |-> after.schema, rows |-> after.rows, status |-> after.status,
             compiler |-> cells]
  BY <1>1, <1>2
<1>. QED
  BY <1>3 DEF after, cells

\* So it leaves a sound database.
LEMMA AlterSubmissionsKeeps ==
    ASSUME MigrationInv, applied = 5, AlterSubmissions
    PROVE  MigrationInv'
<1> DEFINE after == After(db, AutoDetectCompilerDown)
<1>1. RowsFit(after, 4) /\ IsSchema(after.schema, 4)
  BY LatestDownGoes, DownKeeps, FiveMigrations DEF MigrationInv, Sound
<1>2. db.compiler \in [CompilerTables -> [SubmissionIds -> CompilerCells]]
  BY DEF MigrationInv, Sound, RowsFit
<1>3. /\ db'.schema = after.schema /\ db'.rows = after.rows /\ db'.status = after.status
      /\ db' = [schema |-> db'.schema, rows |-> db'.rows, status |-> db'.status,
                compiler |-> db'.compiler]
      /\ db'.compiler =
           [table \in CompilerTables |-> [s \in SubmissionIds |->
              IF s \in filled[table] THEN "empty" ELSE db.compiler[table][s]]]
  BY AlterSubmissionsEffect
<1>4. db'.compiler \in [CompilerTables -> [SubmissionIds -> CompilerCells]]
  BY <1>2, <1>3 DEF CompilerCells
<1> HIDE DEF after
<1>5. RowsFit(db', 4)
  BY <1>1, <1>3, <1>4 DEF RowsFit
<1>6. applied' = 4
  BY DEF AlterSubmissions
<1>. QED
  BY <1>1, <1>3, <1>5, <1>6 DEF MigrationInv, Sound

\* An empty database is sound.
LEMMA SoundFromTheStart == Sound(EmptyDatabase, 0)
<1>1. IsSchema({}, 0)
  BY DEF IsSchema, ColumnsOnly, Has, NoColumns, OldColumns, SubmissionColumns, FileColumns,
         ContractColumns, ContractFileColumns, HistoryColumns
<1>2. RowsFit(EmptyDatabase, 0)
  BY DEF RowsFit, EmptyDatabase, Tables, CompilerCells
<1>. QED
  BY <1>1, <1>2 DEF Sound, EmptyDatabase

\* What a revert under way has filled stays NULL to everyone else, and as long as it
\* is under way no other command runs.
RevertInv ==
    /\ reverting \in {"no", "contractsFilled", "contractsLocked", "submissionsFilled"}
    /\ reverting # "no" => applied = 5
    /\ filled \in [CompilerTables -> SUBSET SubmissionIds]
    /\ reverting = "no" => filled = NothingFilled
    /\ \A table \in CompilerTables : filled[table] \subseteq NullCompilers(table)

\* Every command and every statement leaves a sound database.
LEMMA StepKeepsMigrationInv ==
    ASSUME MigrationInv, RevertInv, [Next]_vars
    PROVE  MigrationInv'
<1>1. CASE MigrationRun
  <2>1. PICK d \in Migrated(db, applied, 5) : db' = d
    BY <1>1, FiveMigrations DEF MigrationRun
  <2>2. Sound(d, 5)
    BY <2>1, MigratedKeeps DEF MigrationInv
  <2>. QED
    BY <1>1, <2>1, <2>2, FiveMigrations DEF MigrationRun, MigrationInv
<1>2. CASE MigrationRevert
  <2>1. applied \in 1..4 /\ applied' = applied - 1 /\ Sound(db, applied)
    BY <1>2, FiveMigrations DEF MigrationRevert, MigrationInv
  <2>2. ~Refused(db, Downs[applied]) /\ db' = After(db, Downs[applied])
    BY <1>2 DEF MigrationRevert, Migrate
  <2>3. Sound(db', applied - 1)
    BY <2>1, <2>2, DownKeeps
  <2>. QED
    BY <2>1, <2>3 DEF MigrationInv
<1>3. CASE AlterSubmissions
  <2>1. applied = 5
    BY <1>3 DEF RevertInv, AlterSubmissions
  <2>. QED
    BY <1>3, <2>1, AlterSubmissionsKeeps
<1>4. CASE FillContracts \/ AlterContracts \/ FillSubmissions \/ RevertFails
  BY <1>4 DEF FillContracts, AlterContracts, FillSubmissions, RevertFails, MigrationInv
<1>5. CASE \E s \in SubmissionIds :
              \/ Submit(s)
              \/ \E status \in {"pending", "processing", "success", "fail"} :
                   UpdateStatus(s, status)
              \/ RecordTransition(s)
              \/ Publish(s)
  BY <1>5, UpdateKeeps, InsertKeeps
<1>6. CASE UNCHANGED vars
  BY <1>6 DEF vars, MigrationInv
<1>. QED
  BY <1>1, <1>2, <1>3, <1>4, <1>5, <1>6 DEF Next

\* No statement touches a row that is filled, and none makes another one's NULL go.
LEMMA GatewayKeepsFilled ==
    ASSUME MigrationInv, RevertInv, NEW s \in SubmissionIds,
           \/ Submit(s)
           \/ \E status \in {"pending", "processing", "success", "fail"} : UpdateStatus(s, status)
           \/ RecordTransition(s)
           \/ Publish(s)
    PROVE  \A table \in CompilerTables : filled[table] \subseteq NullCompilers(table)'
<1>1. /\ db = [schema |-> db.schema, rows |-> db.rows, status |-> db.status,
               compiler |-> db.compiler]
      /\ db.rows \in [Tables -> SUBSET SubmissionIds]
      /\ db.compiler \in [CompilerTables -> [SubmissionIds -> CompilerCells]]
      /\ CompilerTables \subseteq Tables
  BY DEF MigrationInv, Sound, RowsFit, CompilerTables, Tables
<1>. SUFFICES ASSUME NEW table \in CompilerTables, NEW x \in filled[table]
              PROVE  x \in db'.rows[table] /\ db'.compiler[table][x] = "NULL"
  BY DEF NullCompilers
<1>2. x \in SubmissionIds /\ x \in db.rows[table] /\ db.compiler[table][x] = "NULL"
  BY DEF RevertInv, NullCompilers
<1>3. CASE Submit(s)
  <2>1. /\ db'.rows = WithRow({"contract_submissions", "contract_submission_source_files"}, s)
        /\ db'.compiler = [db.compiler EXCEPT !["contract_submissions"][s] = "NULL"]
    BY <1>1, <1>3 DEF Submit
  <2>. QED
    BY <1>1, <1>2, <2>1 DEF WithRow, CompilerTables
<1>4. CASE \E status \in {"pending", "processing", "success", "fail"} : UpdateStatus(s, status)
  <2>1. PICK status : UpdateStatus(s, status)
    BY <1>4
  <2>2. /\ db'.rows = db.rows
        /\ db'.compiler = [db.compiler EXCEPT !["contract_submissions"][s] =
                             IF status = "success" THEN "detected" ELSE @]
        /\ s \notin filled["contract_submissions"]
    BY <1>1, <2>1 DEF UpdateStatus
  <2>. QED
    BY <1>1, <1>2, <2>2 DEF CompilerTables
<1>5. CASE RecordTransition(s)
  <2>1. /\ db'.rows = WithRow({"contract_verification_history"}, s)
        /\ db'.compiler = db.compiler
    BY <1>1, <1>5 DEF RecordTransition
  <2>. QED
    BY <1>1, <1>2, <2>1 DEF WithRow
<1>6. CASE Publish(s)
  <2>1. /\ db'.rows = WithRow({"contracts", "contract_source_files"}, s)
        /\ db'.compiler = [db.compiler EXCEPT !["contracts"][s] =
                             db.compiler["contract_submissions"][s]]
        /\ s \notin db.rows["contracts"]
    BY <1>1, <1>6 DEF Publish
  <2>. QED
    BY <1>1, <1>2, <2>1 DEF WithRow, CompilerTables
<1>. QED
  BY <1>3, <1>4, <1>5, <1>6

\* Every command and every statement keeps what is known of a revert under way.
LEMMA StepKeepsRevertInv ==
    ASSUME MigrationInv, RevertInv, [Next]_vars
    PROVE  RevertInv'
<1>0. \A table \in CompilerTables : NullCompilers(table) \subseteq SubmissionIds
  BY DEF MigrationInv, Sound, RowsFit, NullCompilers, CompilerTables, Tables
<1>1. CASE MigrationRun \/ MigrationRevert
  <2>1. applied < 5 /\ UNCHANGED revertVars
    BY <1>1, FiveMigrations DEF MigrationRun, MigrationRevert, MigrationInv
  <2>2. reverting = "no" /\ filled = NothingFilled /\ reverting' = reverting /\ filled' = filled
    BY <2>1 DEF RevertInv, revertVars
  <2>. QED
    BY <2>2 DEF RevertInv, NothingFilled
<1>2. CASE AlterSubmissions \/ RevertFails
  BY <1>2 DEF AlterSubmissions, RevertFails, RevertInv, NothingFilled
<1>3. CASE FillContracts \/ AlterContracts \/ FillSubmissions
  <2>1. UNCHANGED <<db, applied>> /\ applied = 5
    BY <1>3, FiveMigrations DEF FillContracts, AlterContracts, FillSubmissions, RevertInv
  <2>2. /\ filled' \in [CompilerTables -> SUBSET SubmissionIds]
        /\ \A table \in CompilerTables : filled'[table] \in {filled[table], NullCompilers(table)}
    BY <1>0, <1>3 DEF FillContracts, AlterContracts, FillSubmissions, RevertInv, CompilerTables
  <2>3. \A table \in CompilerTables : NullCompilers(table)' = NullCompilers(table)
    BY <2>1 DEF NullCompilers
  <2>4. reverting' \in {"contractsFilled", "contractsLocked", "submissionsFilled"}
    BY <1>3 DEF FillContracts, AlterContracts, FillSubmissions
  <2>. QED
    BY <2>1, <2>2, <2>3, <2>4 DEF RevertInv
<1>4. CASE \E s \in SubmissionIds :
              \/ Submit(s)
              \/ \E status \in {"pending", "processing", "success", "fail"} :
                   UpdateStatus(s, status)
              \/ RecordTransition(s)
              \/ Publish(s)
  <2>1. UNCHANGED <<applied, reverting, filled>>
    BY <1>4 DEF Submit, UpdateStatus, RecordTransition, Publish, revertVars
  <2>2. \A table \in CompilerTables : filled[table] \subseteq NullCompilers(table)'
    BY <1>4, GatewayKeepsFilled
  <2>. QED
    BY <2>1, <2>2 DEF RevertInv
<1>5. CASE UNCHANGED vars
  BY <1>5 DEF vars, revertVars, RevertInv, NullCompilers
<1>. QED
  BY <1>1, <1>2, <1>3, <1>4, <1>5 DEF Next

\* The schema belongs to the list and the rows fit it, whatever was run, refused
\* and reverted beside whatever the gateway stored.
THEOREM MigrationInvariant == Spec => [](MigrationInv /\ RevertInv)
<1>1. Init => MigrationInv /\ RevertInv
  BY SoundFromTheStart DEF Init, MigrationInv, RevertInv, NothingFilled
<1>. QED
  BY <1>1, StepKeepsMigrationInv, StepKeepsRevertInv, PTL DEF Spec

-----------------------------------------------------------------------------
(* What follows for the schema.                                            *)

\* A table has one column of a name.
LEMMA SchemaIsOne ==
    ASSUME NEW S, NEW i, IsSchema(S, i), NEW c \in S, NEW x \in S,
           c.table = x.table, c.column = x.column
    PROVE  c = x
<1> DEFINE t == c.table
           n == c.column
<1>1. c = Col(t, n, c.ddl) /\ x = Col(t, n, x.ddl) /\ t \in Tables
  BY DEF IsSchema, ColumnsOnly
<1>2. \E columns : Has(S, t, columns)
  BY <1>1 DEF IsSchema, Tables
<1>3. c.ddl = x.ddl
  BY <1>1, <1>2 DEF Has
<1>. QED
  BY <1>1, <1>3

\* The number of migrations determines the schema.
LEMMA SchemasAgree ==
    ASSUME NEW S, NEW R, NEW i, IsSchema(S, i), IsSchema(R, i)
    PROVE  S = R
<1>1. ASSUME NEW A, NEW B, IsSchema(A, i), IsSchema(B, i), NEW c \in A
      PROVE  c \in B
  <2>1. c = Col(c.table, c.column, c.ddl) /\ c.table \in Tables
    BY <1>1 DEF IsSchema, ColumnsOnly
  <2>2. \E columns : Has(A, c.table, columns) /\ Has(B, c.table, columns)
    BY <1>1, <2>1 DEF IsSchema, Tables
  <2>. QED
    BY <1>1, <2>1, <2>2 DEF Has
<1>. QED
  BY <1>1

\* A database without rows.  Nothing refuses an `up' of it:
Blank(d) == \A table \in Tables : d.rows[table] = {}

\* Every `up' is about columns of the tables.
LEMMA UpColumns ==
    ASSUME NEW i \in 1..5
    PROVE  ColumnsOnly(Ups[i].alter) /\ ColumnsOnly(Ups[i].add)
<1>1. ColumnsOnly(InitialSchemaUp.alter) /\ ColumnsOnly(InitialSchemaUp.add)
  BY ColumnsAreColumns DEF InitialSchemaUp, NoChange, ColumnsOnly, Tables
<1>2. ColumnsOnly(UploadingContractsUp.alter) /\ ColumnsOnly(UploadingContractsUp.add)
  BY ColumnsAreColumns DEF UploadingContractsUp, NoChange, ColumnsOnly, Tables
<1>3. ColumnsOnly(SubmissionVerificationUp.alter) /\ ColumnsOnly(SubmissionVerificationUp.add)
  BY ColumnsAreColumns DEF SubmissionVerificationUp, NoChange, ColumnsOnly, Tables
<1>4. ColumnsOnly(VerificationUp.alter) /\ ColumnsOnly(VerificationUp.add)
  BY ColumnsAreColumns DEF VerificationUp, NoChange, ColumnsOnly, Tables
<1>5. ColumnsOnly(AutoDetectCompilerUp.alter) /\ ColumnsOnly(AutoDetectCompilerUp.add)
  BY ColumnsAreColumns DEF AutoDetectCompilerUp, NoChange, Compilers, ColumnsOnly, Tables
<1>. QED
  BY <1>1, <1>2, <1>3, <1>4, <1>5, FiveMigrations

\* So it goes through where there are no rows, and leaves none.
LEMMA BlankUp ==
    ASSUME NEW d, Blank(d), NEW i \in 1..5
    PROVE  ~Refused(d, Ups[i]) /\ Blank(After(d, Ups[i]))
<1>1. \A c \in Ups[i].alter \cup Ups[i].add : d.rows[c.table] = {}
  BY UpColumns DEF ColumnsOnly, Blank
<1>2. d.rows["contract_submissions"] = {}
  BY DEF Blank, Tables
<1>3. ~Refused(d, Ups[i])
  BY <1>1, <1>2 DEF Refused
<1>4. Blank(After(d, Ups[i]))
  BY AfterRows DEF Blank
<1>. QED
  BY <1>3, <1>4

\* And so does a turn.
LEMMA BlankTurn ==
    ASSUME NEW dbs, NEW from, NEW to, NEW i \in 1..5, \E d \in dbs : Blank(d)
    PROVE  \E d \in Turn(dbs, i, from, to) : Blank(d)
<1>1. PICK d \in dbs : Blank(d)
  OBVIOUS
<1>2. CASE from < i /\ i <= to
  <2>1. ~Refused(d, Ups[i]) /\ Blank(After(d, Ups[i]))
    BY <1>1, BlankUp
  <2>2. After(d, Ups[i]) \in Turn(dbs, i, from, to)
    BY <1>1, <1>2, <2>1 DEF Turn, Migrate
  <2>. QED
    BY <2>1, <2>2
<1>3. CASE ~(from < i /\ i <= to)
  BY <1>1, <1>3 DEF Turn
<1>. QED
  BY <1>2, <1>3

\* And so does a transaction.
LEMMA BlankMigrated ==
    ASSUME NEW d, Blank(d), NEW from, NEW to
    PROVE  \E e \in Migrated(d, from, to) : Blank(e)
<1> DEFINE X1 == Turn({d}, 1, from, to)
           X2 == Turn(X1, 2, from, to)
           X3 == Turn(X2, 3, from, to)
           X4 == Turn(X3, 4, from, to)
           X5 == Turn(X4, 5, from, to)
<1>0. Migrated(d, from, to) = X5
  BY MigratedInTurns
<1> HIDE DEF X1, X2, X3, X4, X5
<1>1. \E e \in X1 : Blank(e)
  BY BlankTurn DEF X1
<1>2. \E e \in X2 : Blank(e)
  BY <1>1, BlankTurn DEF X2
<1>3. \E e \in X3 : Blank(e)
  BY <1>2, BlankTurn DEF X3
<1>4. \E e \in X4 : Blank(e)
  BY <1>3, BlankTurn DEF X4
<1>5. \E e \in X5 : Blank(e)
  BY <1>4, BlankTurn DEF X5
<1>. QED
  BY <1>0, <1>5

\* Every `down' undoes its `up' and no more, in any order they are run in.
THEOREM SchemaTheorem == Spec => []SchemaIsTheListedOne
<1>1. MigrationInv => SchemaIsTheListedOne
  <2>. SUFFICES ASSUME MigrationInv PROVE SchemaIsTheListedOne
    OBVIOUS
  <2>1. Blank(EmptyDatabase)
    BY DEF Blank, EmptyDatabase
  <2>2. PICK d \in Migrated(EmptyDatabase, 0, applied) : TRUE
    BY <2>1, BlankMigrated
  <2>3. Sound(d, applied)
    BY <2>2, SoundFromTheStart, MigratedKeeps DEF MigrationInv
  <2>4. db.schema = d.schema
    BY <2>3, SchemasAgree DEF MigrationInv, Sound
  <2>. QED
    BY <2>2, <2>4 DEF SchemaIsTheListedOne
<1>. QED
  BY <1>1, MigrationInvariant, PTL

\* GET /status names the last migration: that names the schema.
THEOREM StatusTheorem == Spec => []StatusTellsSchema
<1>1. MigrationInv => StatusTellsSchema
  <2>. SUFFICES ASSUME MigrationInv, LastMigration = "AutoDetectCompiler"
                PROVE  db.schema = Entities
    BY DEF StatusTellsSchema
  <2>1. applied = 5
    BY DEF LastMigration, MigrationInv
  <2>. QED
    BY <2>1, EntitiesSchema, SchemasAgree DEF MigrationInv, Sound
<1>. QED
  BY <1>1, MigrationInvariant, PTL

\* What TypeOK says of the schema and of what is in its tables.
THEOREM MigrationTypeCorrect == Spec => []TypeOK
<1>1. MigrationInv /\ RevertInv => TypeOK
  <2>. SUFFICES ASSUME MigrationInv, RevertInv PROVE TypeOK
    OBVIOUS
  <2>1. applied \in 0..5 /\ IsSchema(db.schema, applied) /\ RowsFit(db, applied)
    BY DEF MigrationInv, Sound
  <2>5. /\ reverting \in {"no", "contractsFilled", "contractsLocked", "submissionsFilled"}
        /\ reverting # "no" => applied = Len(Ups)
        /\ db.compiler \in [CompilerTables -> [SubmissionIds -> CompilerCells]]
        /\ \A table \in CompilerTables : filled[table] \subseteq NullCompilers(table)
    BY <2>1, FiveMigrations DEF RevertInv, RowsFit
  <2>2. ASSUME NEW c \in db.schema, NEW x \in db.schema, c.table = x.table, c.column = x.column
        PROVE  c = x
    BY <2>1, <2>2, SchemaIsOne
  <2>3. ASSUME NEW table \in Tables, db.rows[table] # {}
        PROVE  Named(db.schema, table) # {}
    <3>1. CASE table \in {"contract_submissions", "contract_submission_source_files"}
      <4>1. applied >= 2
        BY <2>1, <2>3, <3>1 DEF RowsFit
      <4>2. "id" \in DOMAIN SubmissionColumns(applied) /\ "id" \in DOMAIN FileColumns(applied)
        BY <2>1, <4>1 DEF SubmissionColumns, FileColumns
      <4>. QED
        BY <2>1, <3>1, <4>2, NamedColumns DEF IsSchema
    <3>2. CASE table \in {"contracts", "contract_source_files", "contract_verification_history"}
      <4>1. applied >= 4
        BY <2>1, <2>3, <3>2 DEF RowsFit
      <4>2. /\ "id" \in DOMAIN ContractColumns(applied)
            /\ "id" \in DOMAIN ContractFileColumns(applied)
            /\ "id" \in DOMAIN HistoryColumns(applied)
        BY <2>1, <4>1 DEF ContractColumns, ContractFileColumns, HistoryColumns
      <4>. QED
        BY <2>1, <3>2, <4>2, NamedColumns DEF IsSchema
    <3>. QED
      BY <2>1, <2>3, <3>1, <3>2 DEF RowsFit, Tables
  <2>4. ASSUME NEW s \in db.rows["contract_submissions"], NEW c \in db.schema, c.ddl = OldStatus
        PROVE  db.status[s] \in OldStatusEnum
    <3>1. CASE applied < 2
      BY <2>1, <2>4, <3>1 DEF RowsFit
    <3>2. CASE applied \in {2, 3}
      BY <2>1, <2>4, <3>2 DEF RowsFit
    <3>3. CASE applied \in {4, 5}
      <4>1. /\ \A n \in DOMAIN SubmissionColumns(applied) :
                 SubmissionColumns(applied)[n] # OldStatus
            /\ \A n \in DOMAIN FileColumns(applied) : FileColumns(applied)[n] # OldStatus
        BY <3>3, DdlsDiffer DEF SubmissionColumns, FileColumns
      <4>2. /\ \A n \in DOMAIN ContractColumns(applied) :
                 ContractColumns(applied)[n] # OldStatus
            /\ \A n \in DOMAIN ContractFileColumns(applied) :
                 ContractFileColumns(applied)[n] # OldStatus
        BY <3>3, DdlsDiffer DEF ContractColumns, ContractFileColumns
      <4>3. \A n \in DOMAIN HistoryColumns(applied) : HistoryColumns(applied)[n] # OldStatus
        BY <3>3, DdlsDiffer DEF HistoryColumns
      <4>4. \A n \in DOMAIN OldColumns(applied) : OldColumns(applied)[n] # OldStatus
        BY <3>3 DEF OldColumns, NoColumns
      <4>5. c = Col(c.table, c.column, OldStatus) /\ c.table \in Tables
        BY <2>1, <2>4 DEF IsSchema, ColumnsOnly
      <4>. QED
        BY <2>1, <2>4, <4>1, <4>2, <4>3, <4>4, <4>5 DEF IsSchema, Has, Tables
    <3>. QED
      BY <2>1, <3>1, <3>2, <3>3
  <2>. QED
    BY <2>1, <2>2, <2>3, <2>4, <2>5, FiveMigrations DEF TypeOK
<1>. QED
  BY <1>1, MigrationInvariant, PTL

-----------------------------------------------------------------------------
(* What follows for the commands.                                          *)

\* The latest `up' asks nothing of the rows.
LEMMA LatestUpGoes ==
    ASSUME NEW d
    PROVE  ~Refused(d, AutoDetectCompilerUp)
<1>1. /\ AutoDetectCompilerUp.add = {}
      /\ AutoDetectCompilerUp.alter = Columns("contract_submissions", [compiler |-> "varchar(63)"])
                               \cup Columns("contracts", [compiler |-> "varchar(63)"])
  BY DEF AutoDetectCompilerUp, NoChange, Compilers
<1>2. \A c \in AutoDetectCompilerUp.alter : c.ddl = "varchar(63)"
  BY <1>1 DEF Columns
<1>. QED
  BY <1>1, <1>2, DdlsDiffer DEF Refused

\* Beside submissions Verification is refused: it has no bytecode for them.
LEMMA VerificationNeedsNoRows ==
    ASSUME NEW d, d.rows["contract_submissions"] # {}
    PROVE  Refused(d, VerificationUp)
<1>1. Columns("contract_submissions",
                [bytecode |-> Varchar, encoded_init_call_parameters |-> Varchar,
                 last_update |-> Timestamp, retry_count |-> RetryCount,
                 retry_after |-> "timestamp"]) \subseteq VerificationUp.add
  BY DEF VerificationUp, NoChange
<1>2. Col("contract_submissions", "bytecode", Varchar) \in VerificationUp.add
  BY <1>1, InColumns
<1>. QED
  BY <1>2, ColFields, DdlsDiffer DEF Refused

\* What migration:run does from each number on.
LEMMA RunFrom ==
    ASSUME NEW d
    PROVE  /\ Migrated(d, 5, 5) = {d}
           /\ Migrated(d, 4, 5) = {After(d, AutoDetectCompilerUp)}
           /\ d.rows["contract_submissions"] # {} =>
                Migrated(d, 3, 5) = {} /\ Migrated(d, 2, 5) = {}
<1>1. ASSUME NEW dbs, NEW from \in 2..5, NEW i \in 1..5
      PROVE  Turn(dbs, i, from, 5) = IF i <= from THEN dbs ELSE Migrate(dbs, Ups[i])
  BY DEF Turn
<1>2. Migrated(d, 5, 5) = {d}
  <2>1. \A i \in 1..5 : Turn({d}, i, 5, 5) = {d}
    BY <1>1
  <2>. QED
    BY <2>1, MigratedInTurns
<1>3. /\ Migrated(d, 4, 5) = Migrate({d}, AutoDetectCompilerUp)
      /\ Migrate({d}, AutoDetectCompilerUp) = {After(d, AutoDetectCompilerUp)}
  <2>1. Migrated(d, 4, 5) = Turn({d}, 5, 4, 5)
    BY <1>1, MigratedInTurns
  <2>. QED
    BY <1>1, <2>1, FiveMigrations, LatestUpGoes DEF Migrate
<1>4. Migrated(d, 3, 5) = Migrate(Migrate({d}, VerificationUp), AutoDetectCompilerUp)
  <2>1. Migrated(d, 3, 5) = Turn(Turn({d}, 4, 3, 5), 5, 3, 5)
    BY <1>1, MigratedInTurns
  <2>. QED
    BY <1>1, <2>1, FiveMigrations
<1>5. Migrated(d, 2, 5) =
        Migrate(Migrate(Migrate({d}, SubmissionVerificationUp), VerificationUp),
                AutoDetectCompilerUp)
  <2>1. Migrated(d, 2, 5) = Turn(Turn(Turn({d}, 3, 2, 5), 4, 2, 5), 5, 2, 5)
    BY <1>1, MigratedInTurns
  <2>. QED
    BY <1>1, <2>1, FiveMigrations
<1>6. ASSUME d.rows["contract_submissions"] # {}
      PROVE  Migrate({d}, VerificationUp) = {}
  BY <1>6, VerificationNeedsNoRows DEF Migrate
<1>7. ASSUME d.rows["contract_submissions"] # {}
      PROVE  Migrate(Migrate({d}, SubmissionVerificationUp), VerificationUp) = {}
  <2>1. SubmissionVerificationUp.dropTables = {}
    BY Drops, FiveMigrations
  <2>2. After(d, SubmissionVerificationUp).rows["contract_submissions"] # {}
    BY <1>7, <2>1, AfterRows DEF Tables
  <2>. QED
    BY <2>2, VerificationNeedsNoRows DEF Migrate
<1>8. Migrate({}, AutoDetectCompilerUp) = {}
  BY DEF Migrate
<1>. QED
  BY <1>2, <1>3, <1>4, <1>5, <1>6, <1>7, <1>8

\* migration:run is stranded only between a reverted Verification and rows.
THEOREM RunTheorem == Spec => []RunFailsOnlyWhenStranded
<1>1. MigrationInv => RunFailsOnlyWhenStranded
  <2>. SUFFICES ASSUME MigrationInv PROVE RunFailsOnlyWhenStranded
    OBVIOUS
  <2>1. applied \in 0..5 /\ RowsFit(db, applied)
    BY DEF MigrationInv, Sound
  <2>2. CASE applied \in {4, 5}
    <3>1. Migrated(db, applied, 5) # {}
      BY <2>2, RunFrom
    <3>. QED
      BY <2>2, <3>1, FiveMigrations DEF RunFailsOnlyWhenStranded
  <2>3. CASE applied < 4 /\ db.rows["contract_submissions"] = {}
    <3>1. Blank(db)
      BY <2>1, <2>3 DEF RowsFit, Blank, Tables
    <3>2. Migrated(db, applied, 5) # {}
      BY <3>1, BlankMigrated
    <3>. QED
      BY <2>3, <3>2, FiveMigrations DEF RunFailsOnlyWhenStranded
  <2>4. CASE applied < 4 /\ db.rows["contract_submissions"] # {}
    <3>1. applied \in {2, 3}
      BY <2>1, <2>4 DEF RowsFit
    <3>2. Migrated(db, applied, 5) = {}
      BY <2>4, <3>1, RunFrom
    <3>. QED
      BY <2>4, <3>1, <3>2, FiveMigrations DEF RunFailsOnlyWhenStranded
  <2>. QED
    BY <2>1, <2>2, <2>3, <2>4
<1>. QED
  BY <1>1, MigrationInvariant, PTL

\* What a command does with the rows and their statuses.
LeavesRowsOf(d) == db'.rows = d.rows /\ db'.status = d.status

\* A command that goes through where Verification was run is one of three.
LEMMA CommandsFromVerification ==
    ASSUME MigrationInv, RevertInv, Next, applied' # applied, applied >= 4
    PROVE  \/ applied = 4 /\ applied' = 5 /\ LeavesRowsOf(After(db, AutoDetectCompilerUp))
           \/ applied = 5 /\ applied' = 4 /\ LeavesRowsOf(After(db, AutoDetectCompilerDown))
           \/ /\ applied = 4 /\ ~Refused(db, VerificationDown)
              /\ LeavesRowsOf(After(db, VerificationDown))
<1>1. applied \in {4, 5}
  BY DEF MigrationInv
<1>2. CASE MigrationRun
  <2>1. applied < 5 /\ applied' = 5 /\ db' \in Migrated(db, applied, 5)
    BY <1>2, FiveMigrations DEF MigrationRun
  <2>. QED
    BY <1>1, <2>1, RunFrom DEF LeavesRowsOf
<1>3. CASE MigrationRevert
  <2>1. /\ ~Refused(db, Downs[applied]) /\ db' = After(db, Downs[applied])
        /\ applied \in 1..4
    BY <1>3, FiveMigrations DEF MigrationRevert, Migrate
  <2>. QED
    BY <1>1, <2>1, FiveMigrations DEF LeavesRowsOf
<1>4. CASE AlterSubmissions
  <2>1. applied' = applied - 1
    BY <1>4 DEF AlterSubmissions
  <2>2. LeavesRowsOf(After(db, AutoDetectCompilerDown))
    BY <1>4, AlterSubmissionsEffect DEF LeavesRowsOf
  <2>3. applied = 5
    BY <1>4 DEF AlterSubmissions, RevertInv
  <2>. QED
    BY <2>1, <2>2, <2>3
<1>. QED
  BY <1>2, <1>3, <1>4 DEF Next, FillContracts, AlterContracts, FillSubmissions, RevertFails,
     Submit, UpdateStatus, RecordTransition, Publish

\* Neither direction of the latest migration touches rows or statuses, nor the names of
\* columns.
LEMMA LatestKeepsRows ==
    ASSUME MigrationInv, MigrationInv', applied >= 4, applied' >= 4,
           \/ LeavesRowsOf(After(db, AutoDetectCompilerUp))
           \/ LeavesRowsOf(After(db, AutoDetectCompilerDown))
    PROVE  /\ \A table \in Tables : db'.rows[table] = db.rows[table]
           /\ db'.status = db.status
           /\ \A table \in {"contracts", "contract_source_files"} :
                Named(Entities, table) \subseteq Named(db'.schema, table)
<1>1. /\ AutoDetectCompilerUp.dropTables = {} /\ AutoDetectCompilerUp.add = {}
      /\ AutoDetectCompilerDown.dropTables = {} /\ AutoDetectCompilerDown.add = {}
  BY DEF AutoDetectCompilerUp, AutoDetectCompilerDown, NoChange
<1>2. \A table \in Tables : db'.rows[table] = db.rows[table]
  BY <1>1, AfterRows DEF LeavesRowsOf
<1>3. db'.status = db.status
  BY <1>1 DEF After, LeavesRowsOf
<1>4. applied' \in {4, 5} /\ IsSchema(db'.schema, applied')
  BY DEF MigrationInv, Sound
<1>5. /\ DOMAIN ContractColumns(5) = DOMAIN ContractColumns(4)
      /\ DOMAIN ContractFileColumns(5) = DOMAIN ContractFileColumns(4)
  BY DEF ContractColumns, ContractFileColumns
<1>6. \A table \in {"contracts", "contract_source_files"} :
        Named(Entities, table) = Named(db'.schema, table)
  <2>1. /\ Named(Entities, "contracts") = DOMAIN ContractColumns(5)
        /\ Named(Entities, "contract_source_files") = DOMAIN ContractFileColumns(5)
    BY EntitiesSchema, NamedColumns DEF IsSchema
  <2>2. /\ Named(db'.schema, "contracts") = DOMAIN ContractColumns(applied')
        /\ Named(db'.schema, "contract_source_files") = DOMAIN ContractFileColumns(applied')
    BY <1>4, NamedColumns DEF IsSchema
  <2>. QED
    BY <1>4, <1>5, <2>1, <2>2
<1>. QED
  BY <1>2, <1>3, <1>6

\* A command that would take a published contract away is refused by its files.
THEOREM PublishedTheorem == Spec => PublishedSurvives
<1>1. ASSUME MigrationInv, RevertInv, MigrationInv', [Next]_vars, applied' # applied,
             NEW s \in db.rows["contracts"], NEW table \in {"contracts", "contract_source_files"}
      PROVE  s \in db.rows[table]' /\ Named(Entities, table) \subseteq Named(db.schema, table)'
  <2>1. s \in db.rows["contract_source_files"]
    BY <1>1 DEF MigrationInv, Sound, RowsFit
  <2>2. applied >= 4
    BY <1>1, <2>1 DEF MigrationInv, Sound, RowsFit
  <2>3. Refused(db, VerificationDown)
    BY <2>1, VerificationStays
  <2>4. Next
    BY <1>1 DEF vars
  <2>5. /\ applied' >= 4
        /\ \/ LeavesRowsOf(After(db, AutoDetectCompilerUp))
           \/ LeavesRowsOf(After(db, AutoDetectCompilerDown))
    BY <1>1, <2>2, <2>3, <2>4, CommandsFromVerification
  <2>. QED
    BY <1>1, <2>1, <2>2, <2>5, LatestKeepsRows DEF Tables
<1>2. MigrationInv /\ RevertInv /\ MigrationInv' /\ [Next]_vars =>
        [applied' # applied =>
           \A s \in db.rows["contracts"], table \in {"contracts", "contract_source_files"} :
              /\ s \in db.rows[table]'
              /\ Named(Entities, table) \subseteq Named(db.schema, table)']_vars
  BY <1>1
<1>. QED
  BY <1>2, MigrationInvariant, PTL DEF Spec, PublishedSurvives

\* The revert of Verification leaves the submissions and their statuses.
LEMMA VerificationDownKeepsSubmissions ==
    ASSUME NEW d
    PROVE  LET after == After(d, VerificationDown) IN
           /\ after.rows["contract_submissions"] = d.rows["contract_submissions"]
           /\ after.status = d.status
<1>1. VerificationDown.add = AddBeforeVerification
  BY DEF VerificationDown, NoChange
<1>2. \A c \in AddBeforeVerification : c.ddl # OldStatus
  BY DdlsDiffer DEF AddBeforeVerification, Columns
<1>3. After(d, VerificationDown).status = d.status
  BY <1>1, <1>2 DEF After
<1>4. "contract_submissions" \notin VerificationDown.dropTables
  BY Drops, FiveMigrations
<1>. QED
  BY <1>3, <1>4, AfterRows DEF Tables

\* Nor is a submission lost that is new or processing: the status it has does not
\* fit the enum that Verification's down brings back.  A pending one fits, and is kept
\* by that command and those after it in the list.
THEOREM UnfinishedTheorem == Spec => UnfinishedSurvives
<1> DEFINE Unfinished(s) ==
             db.status[s] \in {"new", "processing"} \/ (db.status[s] = "pending" /\ applied >= 4)
<1>1. ASSUME MigrationInv, RevertInv, MigrationInv', [Next]_vars, applied' # applied,
             NEW s \in db.rows["contract_submissions"], Unfinished(s)
      PROVE  s \in db.rows["contract_submissions"]' /\ db.status'[s] = db.status[s]
  <2>1. db.status[s] \in {"new", "processing"} => db.status[s] \notin OldStatusEnum
    BY DEF OldStatusEnum
  <2>2. applied >= 4
    BY <1>1, <2>1 DEF MigrationInv, Sound, RowsFit
  <2>3. Next
    BY <1>1 DEF vars
  <2>4. CASE LeavesRowsOf(After(db, VerificationDown))
    BY <1>1, <2>4, VerificationDownKeepsSubmissions DEF LeavesRowsOf
  <2>5. CASE /\ applied' >= 4
             /\ \/ LeavesRowsOf(After(db, AutoDetectCompilerUp))
                \/ LeavesRowsOf(After(db, AutoDetectCompilerDown))
    BY <1>1, <2>2, <2>5, LatestKeepsRows DEF Tables
  <2>. QED
    BY <1>1, <2>2, <2>3, <2>4, <2>5, CommandsFromVerification
<1>2. MigrationInv /\ RevertInv /\ MigrationInv' /\ [Next]_vars =>
        [applied' # applied =>
           \A s \in db.rows["contract_submissions"] :
              (db.status[s] \in {"new", "processing"} \/ (db.status[s] = "pending" /\ applied >= 4))
                => s \in db.rows["contract_submissions"]' /\ db.status'[s] = db.status[s]]_vars
  BY <1>1
<1>. QED
  BY <1>2, MigrationInvariant, PTL DEF Spec, UnfinishedSurvives

-----------------------------------------------------------------------------
(* What follows for the compilers.                                         *)

\* The compilers of the rows change where something is verified or published, and
\* where a revert commits; a row is filled only while it has no compiler.
LEMMA StepKeepsCompilers ==
    ASSUME MigrationInv, RevertInv, VerifiedKeepsCompiler, [Next]_vars
    PROVE  VerifiedKeepsCompiler'
<1>1. /\ db = [schema |-> db.schema, rows |-> db.rows, status |-> db.status,
               compiler |-> db.compiler]
      /\ db.rows \in [Tables -> SUBSET SubmissionIds]
      /\ db.compiler \in [CompilerTables -> [SubmissionIds -> CompilerCells]]
      /\ DOMAIN db.status = SubmissionIds
      /\ CompilerTables \subseteq Tables
      /\ {"contract_submissions", "contracts"} = CompilerTables
  BY DEF MigrationInv, Sound, RowsFit, CompilerTables, Tables
<1>2. ASSUME Milder(db', db)
      PROVE  VerifiedKeepsCompiler'
  <2>1. ASSUME NEW s \in db'.rows["contract_submissions"], db'.status[s] = "success"
        PROVE  db.status[s] = "success" /\ s \in db.rows["contract_submissions"]
    BY <1>1, <1>2, <2>1 DEF Milder
  <2>. QED
    BY <1>1, <1>2, <2>1 DEF VerifiedKeepsCompiler, Milder
<1>3. ASSUME NEW step
      PROVE  Milder(After(db, step), db)
  <2>1. Milder(db, db)
    BY DEF Milder
  <2>. QED
    BY <2>1, AfterMilder
<1>4. CASE MigrationRun
  BY <1>2, <1>4, MigratedMilder DEF MigrationRun
<1>5. CASE MigrationRevert
  BY <1>2, <1>3, <1>5 DEF MigrationRevert, Migrate
<1>6. CASE AlterSubmissions
  <2> DEFINE after == After(db, AutoDetectCompilerDown)
  <2>1. /\ db'.rows = after.rows /\ db'.status = after.status
        /\ \A table \in CompilerTables : \A s \in SubmissionIds :
             db'.compiler[table][s] =
               IF s \in filled[table] THEN "empty" ELSE db.compiler[table][s]
    BY <1>6, AlterSubmissionsEffect
  <2>2. /\ \A table \in CompilerTables : after.rows[table] \subseteq db.rows[table]
        /\ after.status = db.status \/ after.status = [s \in SubmissionIds |-> "pending"]
    BY <1>1, <1>3 DEF Milder
  <2> HIDE DEF after
  <2>3. \A table \in CompilerTables : \A s \in filled[table] : db.compiler[table][s] = "NULL"
    BY DEF RevertInv, NullCompilers
  <2>4. ASSUME NEW s \in db'.rows["contract_submissions"], db'.status[s] = "success"
        PROVE  db'.compiler["contract_submissions"][s] = "detected"
    <3>1. s \in db.rows["contract_submissions"] /\ s \in SubmissionIds
      BY <1>1, <2>1, <2>2, <2>4
    <3>2. db.status[s] = "success"
      BY <2>1, <2>2, <2>4, <3>1
    <3>. QED
      BY <1>1, <2>1, <2>3, <3>1, <3>2 DEF VerifiedKeepsCompiler
  <2>5. ASSUME NEW s \in db'.rows["contracts"]
        PROVE  db'.compiler["contracts"][s] = "detected"
    <3>1. s \in db.rows["contracts"] /\ s \in SubmissionIds
      BY <1>1, <2>1, <2>2, <2>5
    <3>. QED
      BY <1>1, <2>1, <2>3, <3>1 DEF VerifiedKeepsCompiler
  <2>. QED
    BY <2>4, <2>5 DEF VerifiedKeepsCompiler
<1>7. CASE UNCHANGED db
  BY <1>7 DEF VerifiedKeepsCompiler
<1>8. ASSUME NEW s \in SubmissionIds, Submit(s)
      PROVE  VerifiedKeepsCompiler'
  <2>1. /\ db'.rows = WithRow({"contract_submissions", "contract_submission_source_files"}, s)
        /\ db'.status = [db.status EXCEPT ![s] = "new"]
        /\ db'.compiler = [db.compiler EXCEPT !["contract_submissions"][s] = "NULL"]
    BY <1>1, <1>8 DEF Submit
  <2>2. /\ db'.rows["contract_submissions"] = db.rows["contract_submissions"] \cup {s}
        /\ db'.rows["contracts"] = db.rows["contracts"]
    BY <1>1, <2>1 DEF WithRow
  <2>. QED
    BY <1>1, <2>1, <2>2 DEF VerifiedKeepsCompiler
<1>9. ASSUME NEW s \in SubmissionIds,
             NEW new \in {"pending", "processing", "success", "fail"}, UpdateStatus(s, new)
      PROVE  VerifiedKeepsCompiler'
  <2>1. /\ db'.rows = db.rows
        /\ db'.status = [db.status EXCEPT ![s] = new]
        /\ db'.compiler = [db.compiler EXCEPT !["contract_submissions"][s] =
                             IF new = "success" THEN "detected" ELSE @]
    BY <1>1, <1>9 DEF UpdateStatus
  <2>. QED
    BY <1>1, <2>1 DEF VerifiedKeepsCompiler
<1>10. ASSUME NEW s \in SubmissionIds, RecordTransition(s)
       PROVE  VerifiedKeepsCompiler'
  <2>1. /\ db'.rows = WithRow({"contract_verification_history"}, s)
        /\ db'.status = db.status /\ db'.compiler = db.compiler
    BY <1>1, <1>10 DEF RecordTransition
  <2>2. \A table \in CompilerTables : db'.rows[table] = db.rows[table]
    BY <1>1, <2>1 DEF WithRow
  <2>. QED
    BY <1>1, <2>1, <2>2 DEF VerifiedKeepsCompiler
<1>11. ASSUME NEW s \in SubmissionIds, Publish(s)
       PROVE  VerifiedKeepsCompiler'
  <2>1. /\ db'.rows = WithRow({"contracts", "contract_source_files"}, s)
        /\ db'.status = db.status
        /\ db'.compiler = [db.compiler EXCEPT !["contracts"][s] =
                             db.compiler["contract_submissions"][s]]
        /\ s \in db.rows["contract_submissions"] /\ db.status[s] = "success"
    BY <1>1, <1>11 DEF Publish
  <2>2. /\ db'.rows["contract_submissions"] = db.rows["contract_submissions"]
        /\ db'.rows["contracts"] = db.rows["contracts"] \cup {s}
    BY <1>1, <2>1 DEF WithRow
  <2>. QED
    BY <1>1, <2>1, <2>2 DEF VerifiedKeepsCompiler
<1>. QED
  BY <1>4, <1>5, <1>6, <1>7, <1>8, <1>9, <1>10, <1>11
     DEF Next, vars, FillContracts, AlterContracts, FillSubmissions, RevertFails

\* What is verified or published has the compiler the worker detected.
THEOREM CompilersTheorem == Spec => []VerifiedKeepsCompiler
<1>1. Init => VerifiedKeepsCompiler
  BY DEF Init, EmptyDatabase, VerifiedKeepsCompiler, Tables
<1>. QED
  BY <1>1, StepKeepsCompilers, MigrationInvariant, PTL DEF Spec
=============================================================================
