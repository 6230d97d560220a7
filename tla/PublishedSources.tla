-------------------------- MODULE PublishedSources --------------------------
(***************************************************************************)
(* What becomes of the files that SourceIntake keeps: a worker writes them *)
(* to its contract directory, all at once, the compiler reads what is      *)
(* there in each of its three runs, and the gateway publishes the rows of  *)
(* the submission and serves them.  Of the pipeline in between             *)
(* (VerificationPipeline) is left that the worker may die and get the task *)
(* again.                                                                  *)
(*                                                                         *)
(* A file's content is its index in sourceFiles; what is at a location is  *)
(* the set of the contents of which it has bytes.                          *)
(***************************************************************************)
EXTENDS SourceIntakeProperties

CONSTANTS
    Locations,       \* paths of files
    Inside,          \* those in CONTRACT_DIRECTORY
    ResultFile,      \* _result.json there
    LocationOf,      \* path.resolve of a name: "a/./b.aes" is "a/b.aes", and a name
                     \* that starts with a slash, which is valid, may leave it
    Leftovers,       \* where earlier tasks may have left something
    EarlierWrites    \* what an earlier task may have left running

\* Library names are plain names, and a valid name ends in .aes.
ASSUME PublishedSourcesAssumption ==
    /\ Inside \subseteq Locations
    /\ ResultFile \in Inside
    /\ LocationOf \in [FileNames -> Locations]
    /\ \A name \in DefaultIncludes : LocationOf[name] \in Inside
    /\ \A u \in Uploads : \A i \in 1..Len(u.sourceFiles) :
         u.sourceFiles[i].valid => LocationOf[u.sourceFiles[i].originalname] # ResultFile
    /\ Leftovers \subseteq SUBSET Locations
    /\ EarlierWrites \subseteq SUBSET Locations

VARIABLES
    phase,       \* of the submission: queued, taken, write, aci, validated, compiled,
                 \* published, failed
    writes,      \* how far writeFile is with each kept file
    directory,   \* what is at each location
    earlier,     \* locations this process may still write for an earlier task
    compiled,    \* the locations as each run of the compiler found them
    published    \* the published contract's rows, by content

fileVars == <<phase, writes, directory, earlier, compiled, published>>

allVars == <<vars, fileVars>>

\* Content of no file of this upload: another submission's, or the compiler's output.
Foreign == 0

Place(i) == LocationOf[upload.sourceFiles[i].originalname]

EntryPlace == LocationOf[upload.entryFile]

\* The compiler is run to create the ACI, to validate the bytecode and to decode
\* the parameters of init.
CompilerRuns == {"aci", "validate", "decode"}

Nothing == [l \in Locations |-> {}]

Working == phase \in {"taken", "write", "aci", "validated"}

\* An earlier task whose first failed write ended Promise.all leaves its other
\* writes running; the directory is as that task left it.
TakeTask ==
    /\ pc = "submitted"
    /\ phase = "queued"
    /\ phase' = "taken"
    /\ writes' = [i \in keptFiles |-> "idle"]
    /\ \E used \in Leftovers :
         directory' = [l \in Locations |-> IF l \in used THEN {Foreign} ELSE {}]
    /\ earlier' \in EarlierWrites
    /\ UNCHANGED <<vars, compiled, published>>

\* Seeded bug: the pattern matches nothing.
ClearDirectoryNot ==
    /\ phase = "taken"
    /\ phase' = "write"
    /\ UNCHANGED <<vars, writes, directory, earlier, compiled, published>>

\* rm -rf of what is inside, before anything is written.
ClearDirectory ==
    /\ phase = "taken"
    /\ phase' = "write"
    /\ directory' = [l \in Locations |-> IF l \in Inside THEN {} ELSE directory[l]]
    /\ UNCHANGED <<vars, writes, earlier, compiled, published>>

\* writeFile truncates the file,
OpenFile(i) ==
    /\ phase = "write"
    /\ writes[i] = "idle"
    /\ writes' = [writes EXCEPT ![i] = "open"]
    /\ directory' = [directory EXCEPT ![Place(i)] = {}]
    /\ UNCHANGED <<vars, phase, earlier, compiled, published>>

\* and writes from its start: of what was written meanwhile stays what is longer.
WriteContent(i) ==
    /\ phase = "write"
    /\ writes[i] = "open"
    /\ writes' = [writes EXCEPT ![i] = "done"]
    /\ \E tail \in SUBSET (directory[Place(i)] \cap {Foreign}) :
         directory' = [directory EXCEPT ![Place(i)] =
             {i} \cup tail \cup
             {j \in @ \ {Foreign} : upload.sourceFiles[j].size > upload.sourceFiles[i].size}]
    /\ UNCHANGED <<vars, phase, earlier, compiled, published>>

EarlierWrite(l) ==
    /\ Working
    /\ l \in earlier
    /\ \E content \in {{}, {Foreign}, {Foreign} \cup directory[l]} :
         directory' = [directory EXCEPT ![l] = content]
    /\ UNCHANGED <<vars, phase, writes, earlier, compiled, published>>

\* rm, a write or one of the compiler's runs fails, or the bytecode differs.
VerificationFails ==
    /\ Working
    /\ phase' = "failed"
    /\ UNCHANGED <<vars, writes, directory, earlier, compiled, published>>

\* The process dies with all it had running; the task comes back.
WorkerRestarts ==
    /\ Working
    /\ phase' = "taken"
    /\ writes' = [i \in keptFiles |-> "idle"]
    /\ earlier' = {}
    /\ compiled' = [run \in CompilerRuns |-> Nothing]
    /\ UNCHANGED <<vars, directory, published>>

\* The compiler runs on the entry file, which must be there.
RunCompiler(run) ==
    /\ directory[EntryPlace] # {}
    /\ compiled' = [compiled EXCEPT ![run] = directory]
    /\ UNCHANGED <<vars, writes, earlier, published>>

\* Seeded bug: the promises are not awaited.
GenerateAciAtOnce ==
    /\ phase = "write"
    /\ phase' = "aci"
    /\ RunCompiler("aci")
    /\ directory' = [directory EXCEPT ![ResultFile] = {Foreign}]

\* Once every file is written; the result is a file beside them.
GenerateAci ==
    /\ phase = "write"
    /\ \A i \in keptFiles : writes[i] = "done"
    /\ phase' = "aci"
    /\ RunCompiler("aci")
    /\ directory' = [directory EXCEPT ![ResultFile] = {Foreign}]

ValidateBytecode ==
    /\ phase = "aci"
    /\ phase' = "validated"
    /\ RunCompiler("validate")
    /\ UNCHANGED directory

DecodeInit ==
    /\ phase = "validated"
    /\ phase' = "compiled"
    /\ RunCompiler("decode")
    /\ UNCHANGED directory

\* Seeded bug: the files the filter dropped are published as well.
PublishAll ==
    /\ phase = "compiled"
    /\ phase' = "published"
    /\ published' = Indices
    /\ UNCHANGED <<vars, writes, directory, earlier, compiled>>

\* convertSubmissionToContract copies the submission's rows.
Publish ==
    /\ phase = "compiled"
    /\ phase' = "published"
    /\ published' = keptFiles
    /\ UNCHANGED <<vars, writes, directory, earlier, compiled>>

\* Seeded bug: of several files with the entry's name the first is flagged.
GetVerifiedContractSourceFirst ==
    {[filePath    |-> upload.sourceFiles[i].originalname,
      content     |-> i,
      isEntryFile |-> i = FindFile(upload.entryFile)] : i \in published}

\* The published files, as a list or an archive; their order is any.
GetVerifiedContractSource ==
    {[filePath    |-> upload.sourceFiles[i].originalname,
      content     |-> i,
      isEntryFile |-> upload.sourceFiles[i].originalname = upload.entryFile] : i \in published}

\* One file by its path: the first of the list, so any of several; 404 if none.
GetVerifiedContractSourceFile(filePath) ==
    {file.content : file \in {f \in GetVerifiedContractSource : f.filePath = filePath}}

FilesInit ==
    /\ Init
    /\ phase = "queued"
    /\ writes = <<>>
    /\ directory = Nothing
    /\ earlier = {}
    /\ compiled = [run \in CompilerRuns |-> Nothing]
    /\ published = {}

FilesNext ==
    \/ Next /\ UNCHANGED fileVars
    \/ TakeTask
    \/ ClearDirectory
    \/ \E i \in keptFiles : OpenFile(i) \/ WriteContent(i)
    \/ \E l \in Locations : EarlierWrite(l)
    \/ VerificationFails
    \/ WorkerRestarts
    \/ GenerateAci
    \/ ValidateBytecode
    \/ DecodeInit
    \/ Publish

FilesSpec == FilesInit /\ [][FilesNext]_allVars

FairFilesSpec == FilesSpec /\ WF_vars(Next)
=============================================================================
