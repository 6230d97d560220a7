------------------------ MODULE MigrationProperties ------------------------
(***************************************************************************)
(* What running and reverting migrations beside a gateway must guarantee.  *)
(***************************************************************************)
EXTENDS DatabaseMigrations

\* Every column is one, rows are in tables that exist, and cells in enums.  What a
\* revert has filled is NULL to everyone else until it commits.
TypeOK ==
    /\ applied \in 0..Len(Ups)
    /\ reverting \in {"no", "contractsFilled", "contractsLocked", "submissionsFilled"}
    /\ reverting # "no" => applied = Len(Ups)
    /\ db.compiler \in [CompilerTables -> [SubmissionIds -> CompilerCells]]
    /\ \A table \in CompilerTables : filled[table] \subseteq NullCompilers(table)
    /\ \A c, x \in db.schema : c.table = x.table /\ c.column = x.column => c = x
    /\ \A table \in Tables : db.rows[table] # {} => Named(db.schema, table) # {}
    /\ \A s \in db.rows["contract_submissions"], c \in db.schema :
         c.ddl = OldStatus => db.status[s] \in OldStatusEnum

\* Whatever was run and reverted, the schema is the one that running the listed
\* migrations on an empty database gives: every `down' undoes its `up' and no more.
SchemaIsTheListedOne ==
    \E d \in Migrated(EmptyDatabase, 0, applied) : db.schema = d.schema

\* A status that names this release's last migration means that the schema is
\* the one the entities stand for, to the last default.
StatusTellsSchema == LastMigration = "AutoDetectCompiler" => db.schema = Entities

\* A migration command never takes a published contract away, nor a column of
\* it or of its files: the command that would is refused by the rows themselves.
PublishedSurvives ==
    [][applied' # applied =>
         \A s \in db.rows["contracts"], table \in {"contracts", "contract_source_files"} :
            /\ s \in db.rows[table]'
            /\ Named(Entities, table) \subseteq Named(db.schema, table)']_vars

\* Nor a submission that is new or processing, nor its status.  A pending one, whose
\* task is queued, is kept by the commands down to the revert of Verification, whose
\* enum has that status; the reverts below that one drop it like the rest.
UnfinishedSurvives ==
    [][applied' # applied =>
         \A s \in db.rows["contract_submissions"] :
            (db.status[s] \in {"new", "processing"} \/ (db.status[s] = "pending" /\ applied >= 4))
              => s \in db.rows["contract_submissions"]' /\ db.status'[s] = db.status[s]]_vars

\* migration:run fails on one kind of database only: Verification was reverted
\* beside submissions, for which it has no bytecode when it comes back.
RunFailsOnlyWhenStranded ==
    Migrated(db, applied, Len(Ups)) = {} <=>
        applied \in {2, 3} /\ db.rows["contract_submissions"] # {}

\* A verified submission and a published contract have the compiler the worker
\* detected, never NULL and never the empty string with which a revert of
\* AutoDetectCompiler fills NULLs, however its statements fall between those of the
\* gateway and whatever is run and reverted afterwards.
VerifiedKeepsCompiler ==
    /\ \A s \in db.rows["contract_submissions"] :
         db.status[s] = "success" => db.compiler["contract_submissions"][s] = "detected"
    /\ \A s \in db.rows["contracts"] : db.compiler["contracts"][s] = "detected"
=============================================================================
