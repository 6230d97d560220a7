---------------------------- MODULE SourceIntake ----------------------------
(***************************************************************************)
(* ContractsController.submit, up to the call of ContractsService.submit   *)
(* (SubmissionApi): the recaptcha check, the validation of the uploaded    *)
(* files, the traversal of their include lines from the entry file, and    *)
(* the filter that keeps the files it reached.                             *)
(*                                                                         *)
(* A file is its name and the names on its include lines, in their order;  *)
(* an include line without quotes gives the empty name, which is a name no *)
(* file has.                                                               *)
(***************************************************************************)
EXTENDS Sequences, Naturals, FiniteSetsExt

CONSTANTS
    FileNames,           \* names of files, uploaded or only included
    DefaultIncludes,     \* those of the standard library
    Uploads,             \* the bodies of the POSTs considered
    RecaptchaRequired,   \* a recaptcha secret is configured
    CountLimit,          \* CONTRACT_FILES_COUNT_LIMIT
    SizeLimit            \* CONTRACT_SIZE_LIMIT

\* What Google says of the recaptcha token, if it was given and Google answers.
RecaptchaOutcomes == {"missing", "unreachable", "invalid", "lowScore", "good"}

SourceFile ==
    [originalname : FileNames,
     valid        : BOOLEAN,      \* ends in .aes and passes ContractFilenameValidator
     size         : Nat,
     includes     : Seq(FileNames)]

Upload ==
    [entryFile   : FileNames,
     sourceFiles : Seq(SourceFile),
     recaptcha   : RecaptchaOutcomes]

ASSUME SourceIntakeAssumption ==
    /\ DefaultIncludes \subseteq FileNames
    /\ \A u \in Uploads : u \in Upload
    /\ RecaptchaRequired \in BOOLEAN
    /\ CountLimit \in Nat
    /\ SizeLimit \in Nat

VARIABLES
    upload,           \* the body being served
    pc,
    includedFiles,    \* what the traversal has marked
    filesToProcess,   \* its stack
    keptFiles         \* indices in sourceFiles of the files that are stored

vars == <<upload, pc, includedFiles, filesToProcess, keptFiles>>

TypeOK ==
    /\ upload \in Uploads
    /\ pc \in {"recaptcha", "validate", "traverse", "rejected", "submitted"}
    /\ includedFiles \subseteq FileNames \ DefaultIncludes
    /\ filesToProcess \in Seq(FileNames)
    /\ keptFiles \subseteq 1..Len(upload.sourceFiles)

Init ==
    /\ upload \in Uploads
    /\ pc = "recaptcha"
    /\ includedFiles = {}
    /\ filesToProcess = <<>>
    /\ keptFiles = {}

Indices == 1..Len(upload.sourceFiles)

Uploaded(name) == \E i \in Indices : upload.sourceFiles[i].originalname = name

\* sourceFiles.find: of several files of one name the first.
FindFile(name) ==
    CHOOSE i \in Indices :
        /\ upload.sourceFiles[i].originalname = name
        /\ \A j \in 1..(i - 1) : upload.sourceFiles[j].originalname # name

\* What the include lines of a file name, nothing if it was not uploaded.
IncludesOf(name) ==
    IF Uploaded(name) THEN upload.sourceFiles[FindFile(name)].includes ELSE <<>>

CheckRecaptcha ==
    /\ pc = "recaptcha"
    /\ pc' = IF RecaptchaRequired /\ upload.recaptcha # "good"
             THEN "rejected" ELSE "validate"
    /\ UNCHANGED <<upload, includedFiles, filesToProcess, keptFiles>>

FilesAreValid ==
    /\ Uploaded(upload.entryFile)
    /\ Len(upload.sourceFiles) <= CountLimit
    /\ \A i \in Indices : upload.sourceFiles[i].valid
    /\ MapThenSumSet(LAMBDA i : upload.sourceFiles[i].size, Indices) <= SizeLimit

\* ContractFilesValidator, and the start of the traversal.
ValidateFiles ==
    /\ pc = "validate"
    /\ \/ /\ FilesAreValid
          /\ pc' = "traverse"
          /\ filesToProcess' = <<upload.entryFile>>
       \/ /\ ~FilesAreValid
          /\ pc' = "rejected"
          /\ UNCHANGED filesToProcess
    /\ UNCHANGED <<upload, includedFiles, keptFiles>>

\* Seeded bug: library files are marked and their own includes not followed.
ProcessFileOnly ==
    LET currentFile == filesToProcess[Len(filesToProcess)]
        rest == SubSeq(filesToProcess, 1, Len(filesToProcess) - 1)
    IN
    /\ pc = "traverse"
    /\ filesToProcess # <<>>
    /\ IF currentFile \in includedFiles \cup DefaultIncludes
       THEN filesToProcess' = rest /\ UNCHANGED includedFiles
       ELSE /\ includedFiles' = includedFiles \cup {currentFile}
            /\ filesToProcess' = rest \o IncludesOf(currentFile)
    /\ UNCHANGED <<upload, pc, keptFiles>>

\* Seeded bug: library names are marked as well.
ProcessFileMarking ==
    LET currentFile == filesToProcess[Len(filesToProcess)]
        rest == SubSeq(filesToProcess, 1, Len(filesToProcess) - 1)
    IN
    /\ pc = "traverse"
    /\ filesToProcess # <<>>
    /\ includedFiles' = includedFiles \cup {currentFile}
    /\ filesToProcess' = rest \o (IF currentFile \in includedFiles
                                  THEN <<>> ELSE IncludesOf(currentFile))
    /\ UNCHANGED <<upload, pc, keptFiles>>

\* Seeded bug: a file that includes just one other is followed each time.
ProcessFileAgain ==
    LET currentFile == filesToProcess[Len(filesToProcess)]
        rest == SubSeq(filesToProcess, 1, Len(filesToProcess) - 1)
    IN
    /\ pc = "traverse"
    /\ filesToProcess # <<>>
    /\ includedFiles' = includedFiles \cup ({currentFile} \ DefaultIncludes)
    /\ filesToProcess' = rest \o (IF Len(IncludesOf(currentFile)) = 1
                                  \/ currentFile \notin includedFiles
                                  THEN IncludesOf(currentFile) ELSE <<>>)
    /\ UNCHANGED <<upload, pc, keptFiles>>

\* One turn of the loop: pop, mark unless it is a library name, push what the
\* file includes.  Library names are never marked, so they are followed each time.
ProcessFile ==
    LET currentFile == filesToProcess[Len(filesToProcess)]
        rest == SubSeq(filesToProcess, 1, Len(filesToProcess) - 1)
    IN
    /\ pc = "traverse"
    /\ filesToProcess # <<>>
    /\ \/ /\ currentFile \in includedFiles
          /\ filesToProcess' = rest
          /\ UNCHANGED includedFiles
       \/ /\ currentFile \notin includedFiles
          /\ includedFiles' = includedFiles \cup ({currentFile} \ DefaultIncludes)
          /\ filesToProcess' = rest \o IncludesOf(currentFile)
    /\ UNCHANGED <<upload, pc, keptFiles>>

\* The files that were reached go to ContractsService.submit.
FilterFiles ==
    /\ pc = "traverse"
    /\ filesToProcess = <<>>
    /\ keptFiles' = {i \in Indices : upload.sourceFiles[i].originalname \in includedFiles}
    /\ pc' = "submitted"
    /\ UNCHANGED <<upload, includedFiles, filesToProcess>>

Next == CheckRecaptcha \/ ValidateFiles \/ ProcessFile \/ FilterFiles

\* The handler is synchronous but for the request to Google, which ends.
Spec == Init /\ [][Next]_vars

FairSpec == Spec /\ WF_vars(Next)
=============================================================================
