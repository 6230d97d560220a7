----------------------- MODULE PublishedSourcesProofs -----------------------
(***************************************************************************)
(* Readers get what was compiled, for any uploads, names and locations.    *)
(* DirectoryInv is the inductive invariant: from the moment the directory  *)
(* is cleared, only this task's files come into it, each at its place, and *)
(* the compiler runs when all are there.  An upload does not change once   *)
(* its files are kept, so what SourceIntake guarantees goes with them.     *)
(***************************************************************************)
EXTENDS PublishedSourcesProperties, SourceIntakeProofs

\* What was found valid stays so: the upload is not changed.
ValidatedInv ==
    pc \in {"traverse", "submitted"} =>
        /\ Uploaded(upload.entryFile)
        /\ \A i \in Indices : upload.sourceFiles[i].valid

FilesInv == TypeOK /\ ValidatedInv /\ FilesTypeOK /\ DirectoryInv

\* Every step of the composition is one of SourceIntake or leaves it alone.
LEMMA StepOfIntake ==
    [FilesNext]_allVars => [Next]_vars
BY DEF FilesNext, allVars, TakeTask, ClearDirectory, OpenFile, WriteContent, EarlierWrite,
       VerificationFails, WorkerRestarts, GenerateAci, ValidateBytecode, DecodeInit,
       RunCompiler, Publish, Next

\* The composition does with an upload what SourceIntake does.
THEOREM FilesRefineIntake == FilesSpec => Spec
<1>1. FilesInit => Init
  BY DEF FilesInit
<1>. QED
  BY <1>1, StepOfIntake, PTL DEF FilesSpec, Spec

\* What passed the validator has its entry file and valid names.
LEMMA UploadIsValidated == Spec => []ValidatedInv
<1>1. Init => ValidatedInv
  BY DEF Init, ValidatedInv
<1>2. ASSUME ValidatedInv, [Next]_vars
      PROVE  ValidatedInv'
  <2>1. upload' = upload
    BY <1>2 DEF Next, CheckRecaptcha, ValidateFiles, ProcessFile, FilterFiles, vars
  <2>2. /\ Uploaded(upload.entryFile)' <=> Uploaded(upload.entryFile)
        /\ (\A i \in Indices : upload.sourceFiles[i].valid)'
             <=> \A i \in Indices : upload.sourceFiles[i].valid
    BY <2>1 DEF Uploaded, Indices
  <2>. QED
    BY <1>2, <2>2 DEF ValidatedInv, Next, CheckRecaptcha, ValidateFiles, ProcessFile,
       FilterFiles, vars, FilesAreValid
<1>. QED
  BY <1>1, <1>2, PTL DEF Spec

\* The kept files of an upload are indices, so none is foreign; each has a place,
\* which is not the compiler's result.
LEMMA KeptHavePlaces ==
    ASSUME TypeOK
    PROVE  /\ keptFiles \subseteq Indices
           /\ Foreign \notin Indices
           /\ \A i \in Indices : Place(i) \in Locations
           /\ \A i \in Indices :
                upload.sourceFiles[i].valid => Place(i) # ResultFile
           /\ EntryPlace \in Locations
           /\ ResultFile \in Locations
           /\ Inside \subseteq Locations
<1>1. upload \in Uploads /\ upload \in Upload
  BY SourceIntakeAssumption DEF TypeOK
<1>2. upload.sourceFiles \in Seq(SourceFile)
  BY <1>1 DEF Upload
<1>3. \A i \in Indices : upload.sourceFiles[i] \in SourceFile
  BY <1>2, ElementOfSeq DEF Indices
<1>4. \A i \in Indices : upload.sourceFiles[i].originalname \in FileNames
  BY <1>3 DEF SourceFile
<1>5. Foreign \notin Indices
  BY <1>2, LenProperties DEF Foreign, Indices
<1>6. upload.entryFile \in FileNames
  BY <1>1 DEF Upload
<1>7. \A i \in Indices : upload.sourceFiles[i].valid => Place(i) # ResultFile
  BY <1>1, PublishedSourcesAssumption DEF Indices, Place
<1>. QED
  BY <1>4, <1>5, <1>6, <1>7, PublishedSourcesAssumption
     DEF TypeOK, Place, EntryPlace, Indices

\* Once the task is taken its files are kept files of a validated upload.
LEMMA KeptAreValid ==
    ASSUME FilesInv, phase # "queued"
    PROVE  /\ pc = "submitted"
           /\ writes \in [keptFiles -> {"idle", "open", "done"}]
           /\ \A i \in keptFiles : i \in Indices /\ Place(i) \in Locations \ {ResultFile}
BY KeptHavePlaces DEF FilesInv, FilesTypeOK, ValidatedInv

\* The worker and the gateway leave the upload and the kept files as they are.
LEMMA PlacesStay ==
    ASSUME UNCHANGED vars
    PROVE  /\ upload' = upload /\ keptFiles' = keptFiles /\ pc' = pc
           /\ Indices' = Indices /\ EntryPlace' = EntryPlace
           /\ \A i : Place(i)' = Place(i)
           /\ \A i : Alone(i)' <=> Alone(i)
BY DEF vars, Indices, EntryPlace, Place, Alone

\* Until the task is taken nothing has happened to the files.
LEMMA IntakeStep ==
    ASSUME FilesInv, TypeOK', Next, UNCHANGED fileVars
    PROVE  FilesTypeOK' /\ DirectoryInv'
<1>1. phase = "queued" /\ published = {}
  BY DEF FilesInv, FilesTypeOK, Next, CheckRecaptcha, ValidateFiles, ProcessFile, FilterFiles
<1>2. upload' = upload
  BY DEF Next, CheckRecaptcha, ValidateFiles, ProcessFile, FilterFiles
<1>3. DirectoryInv'
  BY <1>1 DEF DirectoryInv, fileVars
<1>. QED
  BY <1>1, <1>2, <1>3 DEF FilesInv, FilesTypeOK, fileVars, Indices

\* The steps before the writes: none of them says anything of a written file.
LEMMA BeforeWritesStep ==
    ASSUME FilesInv, TakeTask \/ ClearDirectory \/ WorkerRestarts \/ VerificationFails
    PROVE  FilesTypeOK' /\ DirectoryInv'
<1>. USE PlacesStay
<1>1. CASE TakeTask
  <2>1. EarlierWrites \subseteq SUBSET Locations
    BY PublishedSourcesAssumption
  <2>2. /\ phase' = "taken" /\ keptFiles' = keptFiles
        /\ \A i \in keptFiles : writes'[i] = "idle"
    BY <1>1 DEF TakeTask
  <2>3. directory' \in [Locations -> SUBSET (Indices \cup {Foreign})]
    BY <1>1 DEF TakeTask
  <2>4. DirectoryInv'
    BY <2>2 DEF DirectoryInv
  <2>. QED
    BY <1>1, <2>1, <2>3, <2>4 DEF FilesInv, FilesTypeOK, TakeTask
<1>2. CASE ClearDirectory
  <2>1. /\ phase = "taken" /\ phase' = "write"
        /\ directory' = [l \in Locations |-> IF l \in Inside THEN {} ELSE directory[l]]
        /\ UNCHANGED <<keptFiles, writes>>
    BY <1>2 DEF ClearDirectory, vars
  <2>2. FilesTypeOK'
    BY <1>2, <2>1 DEF FilesInv, FilesTypeOK, ClearDirectory
  <2>3. \A i \in keptFiles' : writes'[i] = "idle"
    BY <2>1 DEF FilesInv, DirectoryInv
  <2>4. \A l \in Locations : Emptied(l)' => directory'[l] = {}
    BY <2>1, <2>3 DEF Emptied
  <2>5. RunsDone' = {}
    BY <2>1 DEF RunsDone
  <2>6. DirectoryInv'
    BY <2>1, <2>3, <2>4, <2>5 DEF DirectoryInv
  <2>. QED
    BY <2>2, <2>6
<1>3. CASE WorkerRestarts
  <2>1. /\ phase' = "taken" /\ keptFiles' = keptFiles
        /\ \A i \in keptFiles : writes'[i] = "idle"
    BY <1>3 DEF WorkerRestarts
  <2>2. DirectoryInv'
    BY <2>1 DEF DirectoryInv
  <2>3. /\ phase # "queued" /\ phase # "published"
        /\ compiled' \in [CompilerRuns -> [Locations -> SUBSET (Indices \cup {Foreign})]]
    BY <1>3 DEF WorkerRestarts, Working, Nothing
  <2>. QED
    BY <1>3, <2>2, <2>3 DEF FilesInv, FilesTypeOK, WorkerRestarts
<1>4. CASE VerificationFails
  <2>1. phase' = "failed" /\ DirectoryInv'
    BY <1>4 DEF VerificationFails, DirectoryInv
  <2>. QED
    BY <1>4, <2>1 DEF FilesInv, FilesTypeOK, VerificationFails, Working
<1>. QED
  BY <1>1, <1>2, <1>3, <1>4

\* Truncating takes bytes away, and none of a file that is written and shares its
\* place with no other.
LEMMA OpenFileStep ==
    ASSUME FilesInv, NEW i \in keptFiles, OpenFile(i)
    PROVE  FilesTypeOK' /\ DirectoryInv'
<1>1. /\ phase = "write" /\ writes[i] = "idle" /\ phase' = "write"
      /\ writes' = [writes EXCEPT ![i] = "open"]
      /\ directory' = [directory EXCEPT ![Place(i)] = {}]
      /\ UNCHANGED <<vars, earlier, compiled, published>>
  BY DEF OpenFile
<1>2. /\ writes \in [keptFiles -> {"idle", "open", "done"}]
      /\ \A j \in keptFiles : j \in Indices /\ Place(j) \in Locations
      /\ directory \in [Locations -> SUBSET (Indices \cup {Foreign})]
  BY <1>1, KeptAreValid DEF FilesInv, FilesTypeOK
<1>3. /\ keptFiles' = keptFiles /\ Indices' = Indices
      /\ \A j : Place(j)' = Place(j) /\ (Alone(j)' <=> Alone(j))
  BY <1>1, PlacesStay
<1>4. FilesTypeOK'
  BY <1>1, <1>2, <1>3, PlacesStay DEF FilesInv, FilesTypeOK
<1>5. ASSUME Undisturbed', NEW l \in Locations, Emptied(l)', NEW j \in directory'[l]
      PROVE  j \in keptFiles /\ Place(j) = l /\ writes'[j] = "done"
  <2>1. l # Place(i) /\ j \in directory[l]
    BY <1>1, <1>2, <1>5
  <2>2. Emptied(l)
    BY <1>1, <1>2, <1>3, <1>5, <2>1 DEF Emptied
  <2>3. j \in keptFiles /\ Place(j) = l /\ writes[j] = "done"
    BY <1>1, <1>5, <2>1, <2>2 DEF FilesInv, DirectoryInv, Undisturbed
  <2>. QED
    BY <1>1, <1>2, <2>3
<1>6. ASSUME Undisturbed', NEW j \in keptFiles, Alone(j), writes'[j] = "done"
      PROVE  directory'[Place(j)] = {j}
  <2>1. j # i /\ writes[j] = "done" /\ Place(j) # Place(i)
    BY <1>1, <1>2, <1>6 DEF Alone
  <2>2. directory[Place(j)] = {j}
    BY <1>1, <1>6, <2>1 DEF FilesInv, DirectoryInv, Undisturbed
  <2>. QED
    BY <1>1, <1>2, <2>1, <2>2
<1>7. RunsDone' = {}
  BY <1>1 DEF RunsDone
<1>. QED
  BY <1>1, <1>3, <1>4, <1>5, <1>6, <1>7 DEF DirectoryInv

\* Writing adds the file at its place, where there can only be files of the
\* submission, for its own write has emptied it.
LEMMA WriteContentStep ==
    ASSUME FilesInv, NEW i \in keptFiles, WriteContent(i)
    PROVE  FilesTypeOK' /\ DirectoryInv'
<1>1. /\ phase = "write" /\ writes[i] = "open" /\ phase' = "write"
      /\ writes' = [writes EXCEPT ![i] = "done"]
      /\ UNCHANGED <<vars, earlier, compiled, published>>
  BY DEF WriteContent
<1>2. PICK longer \in SUBSET directory[Place(i)] :
          directory' = [directory EXCEPT ![Place(i)] = {i} \cup longer]
  <2>1. PICK tail \in SUBSET (directory[Place(i)] \cap {Foreign}) :
          directory' = [directory EXCEPT ![Place(i)] =
             {i} \cup tail \cup
             {j \in @ \ {Foreign} : upload.sourceFiles[j].size > upload.sourceFiles[i].size}]
    BY DEF WriteContent
  <2>. DEFINE kept == {j \in directory[Place(i)] \ {Foreign} :
                         upload.sourceFiles[j].size > upload.sourceFiles[i].size}
  <2>2. /\ directory' = [directory EXCEPT ![Place(i)] = {i} \cup tail \cup kept]
        /\ kept \subseteq directory[Place(i)]
    BY <2>1, Zenon
  <2>. HIDE DEF kept
  <2>3. tail \cup kept \in SUBSET directory[Place(i)]
    BY <2>2
  <2>4. {i} \cup tail \cup kept = {i} \cup (tail \cup kept)
    OBVIOUS
  <2>. QED
    BY <2>2, <2>3, <2>4
<1>3. /\ writes \in [keptFiles -> {"idle", "open", "done"}]
      /\ \A j \in keptFiles : j \in Indices /\ Place(j) \in Locations
      /\ directory \in [Locations -> SUBSET (Indices \cup {Foreign})]
  BY <1>1, KeptAreValid DEF FilesInv, FilesTypeOK
<1>4. /\ keptFiles' = keptFiles /\ Indices' = Indices
      /\ \A j : Place(j)' = Place(j) /\ (Alone(j)' <=> Alone(j))
  BY <1>1, PlacesStay
<1>5. FilesTypeOK'
  BY <1>1, <1>2, <1>3, <1>4, PlacesStay DEF FilesInv, FilesTypeOK
<1>6. ASSUME Undisturbed', NEW l \in Locations, Emptied(l)'
      PROVE  \A j \in directory[l] : j \in keptFiles /\ Place(j) = l /\ writes[j] = "done"
  <2>1. Emptied(l)
    BY <1>1, <1>3, <1>4, <1>6 DEF Emptied
  <2>. QED
    BY <1>1, <1>6, <2>1 DEF FilesInv, DirectoryInv, Undisturbed
<1>7. ASSUME Undisturbed', NEW l \in Locations, Emptied(l)', NEW j \in directory'[l]
      PROVE  j \in keptFiles /\ Place(j) = l /\ writes'[j] = "done"
  <2>1. j \in directory[l] \/ (l = Place(i) /\ j = i)
    BY <1>2, <1>3, <1>7
  <2>2. CASE j \in directory[l]
    BY <1>1, <1>3, <1>6, <1>7, <2>2
  <2>3. CASE l = Place(i) /\ j = i
    BY <1>1, <1>3, <2>3
  <2>. QED
    BY <2>1, <2>2, <2>3
<1>8. ASSUME Undisturbed', NEW j \in keptFiles, Alone(j), writes'[j] = "done"
      PROVE  directory'[Place(j)] = {j}
  <2>1. CASE j = i
    <3>1. PICK l \in Locations : l = Place(i)
      BY <1>3
    <3>2. directory[l] = {}
      <4>1. Emptied(l)'
        BY <1>1, <1>3, <1>4, <3>1 DEF Emptied
      <4>. QED
        BY <1>1, <1>3, <1>6, <1>8, <2>1, <3>1, <4>1 DEF Alone
    <3>. QED
      BY <1>2, <1>3, <2>1, <3>1, <3>2
  <2>2. CASE j # i
    <3>1. Place(j) # Place(i) /\ writes[j] = "done"
      BY <1>1, <1>3, <1>8, <2>2 DEF Alone
    <3>2. directory[Place(j)] = {j}
      BY <1>1, <1>8, <3>1 DEF FilesInv, DirectoryInv, Undisturbed
    <3>. QED
      BY <1>2, <1>3, <3>1, <3>2
  <2>. QED
    BY <2>1, <2>2
<1>9. RunsDone' = {}
  BY <1>1 DEF RunsDone
<1>. QED
  BY <1>1, <1>4, <1>5, <1>7, <1>8, <1>9 DEF DirectoryInv

\* A write left behind by an earlier task comes only where there are such writes.
LEMMA EarlierWriteStep ==
    ASSUME FilesInv, NEW l \in Locations, EarlierWrite(l)
    PROVE  FilesTypeOK' /\ DirectoryInv'
<1>1. /\ ~Undisturbed /\ ~Undisturbed'
      /\ UNCHANGED <<vars, phase, writes, earlier, compiled, published>>
  BY DEF EarlierWrite, Undisturbed
<1>2. \E content \in SUBSET (Indices \cup {Foreign}) :
          directory' = [directory EXCEPT ![l] = content]
  <2>1. PICK content \in {{}, {Foreign}, {Foreign} \cup directory[l]} :
          directory' = [directory EXCEPT ![l] = content]
    BY DEF EarlierWrite
  <2>2. directory[l] \subseteq Indices \cup {Foreign}
    BY DEF FilesInv, FilesTypeOK
  <2>. QED
    BY <2>1, <2>2
<1>. QED
  BY <1>1, <1>2 DEF FilesInv, FilesTypeOK, DirectoryInv, vars, Indices

\* The compiler's first run writes its result, where no file of the submission is.
LEMMA GenerateAciStep ==
    ASSUME FilesInv, GenerateAci
    PROVE  FilesTypeOK' /\ DirectoryInv'
<1>1. /\ phase = "write" /\ phase' = "aci"
      /\ \A i \in keptFiles : writes[i] = "done"
      /\ directory[EntryPlace] # {}
      /\ directory' = [directory EXCEPT ![ResultFile] = {Foreign}]
      /\ compiled' = [compiled EXCEPT !["aci"] = directory]
      /\ UNCHANGED <<vars, writes, earlier, published>>
  BY DEF GenerateAci, RunCompiler
<1>2. /\ directory \in [Locations -> SUBSET (Indices \cup {Foreign})]
      /\ compiled \in [CompilerRuns -> [Locations -> SUBSET (Indices \cup {Foreign})]]
      /\ \A i \in keptFiles : Place(i) \in Locations \ {ResultFile}
      /\ EntryPlace \in Locations /\ ResultFile \in Locations
  BY <1>1, KeptAreValid, KeptHavePlaces DEF FilesInv, FilesTypeOK
<1>3. /\ keptFiles' = keptFiles /\ Indices' = Indices /\ EntryPlace' = EntryPlace
      /\ \A j : Place(j)' = Place(j) /\ (Alone(j)' <=> Alone(j))
      /\ Undisturbed' <=> Undisturbed
  BY <1>1, PlacesStay DEF Undisturbed
<1>4. \A l \in Locations \ {ResultFile} :
        directory'[l] = directory[l] /\ compiled'["aci"][l] = directory[l]
  BY <1>1, <1>2 DEF CompilerRuns
<1>5. FilesTypeOK'
  BY <1>1, <1>2, <1>3, PlacesStay DEF FilesInv, FilesTypeOK
<1>6. \A l \in Locations : Emptied(l)' => Emptied(l) /\ l # ResultFile
  BY <1>1, <1>2, <1>3 DEF Emptied
<1>7. directory'[EntryPlace] # {}
  BY <1>1, <1>2
<1>8. RunsDone' = {"aci"}
  BY <1>1 DEF RunsDone
<1>9. DirectoryInv'
  <2>. SUFFICES ASSUME Undisturbed
                PROVE  DirectoryInv'
    BY <1>1, <1>3 DEF DirectoryInv
  <2>1. \A l \in Locations : Emptied(l)' =>
          \A i \in directory'[l] : i \in keptFiles /\ Place(i) = l /\ writes[i] = "done"
    BY <1>1, <1>4, <1>6 DEF FilesInv, DirectoryInv
  <2>2. \A i \in keptFiles :
          Alone(i) /\ writes[i] = "done" => directory'[Place(i)] = {i}
    BY <1>1, <1>2, <1>4 DEF FilesInv, DirectoryInv
  <2>. QED
    BY <1>1, <1>3, <1>4, <1>7, <1>8, <2>1, <2>2 DEF DirectoryInv
<1>. QED
  BY <1>5, <1>9

\* The compiler's other runs and the publication only read the directory.
LEMMA ReadingStep ==
    ASSUME FilesInv, ValidateBytecode \/ DecodeInit \/ Publish
    PROVE  FilesTypeOK' /\ DirectoryInv'
<1>1. /\ UNCHANGED <<vars, writes, directory, earlier>>
      /\ phase \in {"aci", "validated", "compiled"}
      /\ phase' \in {"validated", "compiled", "published"}
  BY DEF ValidateBytecode, DecodeInit, Publish, RunCompiler
<1>2. /\ keptFiles' = keptFiles /\ Indices' = Indices /\ EntryPlace' = EntryPlace
      /\ \A i : Place(i)' = Place(i) /\ (Alone(i)' <=> Alone(i))
      /\ Undisturbed' <=> Undisturbed
      /\ \A l : Emptied(l)' <=> Emptied(l)
  BY <1>1, PlacesStay DEF Undisturbed, Emptied
<1>3. /\ directory \in [Locations -> SUBSET (Indices \cup {Foreign})]
      /\ compiled \in [CompilerRuns -> [Locations -> SUBSET (Indices \cup {Foreign})]]
  BY DEF FilesInv, FilesTypeOK
<1>4. /\ \A run \in RunsDone' :
           \/ run \in RunsDone /\ compiled'[run] = compiled[run]
           \/ compiled'[run] = directory
      /\ compiled' \in [CompilerRuns -> [Locations -> SUBSET (Indices \cup {Foreign})]]
  <2>1. CASE ValidateBytecode
    <3>1. /\ compiled' = [compiled EXCEPT !["validate"] = directory]
          /\ RunsDone = {"aci"} /\ RunsDone' = {"aci", "validate"}
      BY <2>1 DEF ValidateBytecode, RunCompiler, RunsDone
    <3>. QED
      BY <1>3, <3>1 DEF CompilerRuns
  <2>2. CASE DecodeInit
    <3>1. /\ compiled' = [compiled EXCEPT !["decode"] = directory]
          /\ RunsDone = {"aci", "validate"} /\ RunsDone' = CompilerRuns
      BY <2>2 DEF DecodeInit, RunCompiler, RunsDone
    <3>. QED
      BY <1>3, <3>1 DEF CompilerRuns
  <2>3. CASE Publish
    <3>1. compiled' = compiled /\ RunsDone' = RunsDone
      BY <2>3 DEF Publish, RunsDone
    <3>. QED
      BY <1>3, <3>1
  <2>. QED
    BY <2>1, <2>2, <2>3
<1>5. /\ published' \subseteq keptFiles
      /\ phase' # "published" => published' = {}
      /\ phase' = "published" => published' = keptFiles
  BY DEF ValidateBytecode, DecodeInit, Publish, RunCompiler, FilesInv, FilesTypeOK
<1>6. FilesTypeOK'
  BY <1>1, <1>2, <1>3, <1>4, <1>5, PlacesStay DEF FilesInv, FilesTypeOK
<1>7. DirectoryInv'
  <2>. SUFFICES ASSUME Undisturbed
                PROVE  DirectoryInv'
    BY <1>1, <1>2 DEF DirectoryInv
  <2>1. /\ \A l \in Locations : Emptied(l) =>
              \A i \in directory[l] : i \in keptFiles /\ Place(i) = l /\ writes[i] = "done"
        /\ \A i \in keptFiles :
              Alone(i) /\ writes[i] = "done" => directory[Place(i)] = {i}
        /\ \A i \in keptFiles : writes[i] = "done"
        /\ directory[EntryPlace] # {}
        /\ \A run \in RunsDone : \A l \in Locations \ {ResultFile} :
              compiled[run][l] = directory[l]
    BY <1>1 DEF FilesInv, DirectoryInv
  <2>2. \A run \in RunsDone' : \A l \in Locations \ {ResultFile} :
          compiled'[run][l] = directory[l]
    BY <1>4, <2>1
  <2>. QED
    BY <1>1, <1>2, <1>5, <2>1, <2>2 DEF DirectoryInv
<1>. QED
  BY <1>6, <1>7

\* The invariant is inductive, given what is known of the upload.
LEMMA FilesInvariant == FilesSpec => []FilesInv
<1>1. FilesInit => FilesTypeOK /\ DirectoryInv
  BY DEF FilesInit, Init, FilesTypeOK, DirectoryInv, Nothing
<1>2. ASSUME FilesInv, TypeOK', [FilesNext]_allVars
      PROVE  FilesTypeOK' /\ DirectoryInv'
  <2>1. CASE Next /\ UNCHANGED fileVars
    BY <1>2, <2>1, IntakeStep
  <2>2. CASE TakeTask \/ ClearDirectory \/ WorkerRestarts \/ VerificationFails
    BY <1>2, <2>2, BeforeWritesStep
  <2>3. CASE \E i \in keptFiles : OpenFile(i) \/ WriteContent(i)
    BY <1>2, <2>3, OpenFileStep, WriteContentStep
  <2>4. CASE \E l \in Locations : EarlierWrite(l)
    BY <1>2, <2>4, EarlierWriteStep
  <2>5. CASE GenerateAci
    BY <1>2, <2>5, GenerateAciStep
  <2>6. CASE ValidateBytecode \/ DecodeInit \/ Publish
    BY <1>2, <2>6, ReadingStep
  <2>7. CASE UNCHANGED allVars
    BY <1>2, <2>7 DEF FilesInv, FilesTypeOK, DirectoryInv, allVars, vars, fileVars,
       Indices, Place, EntryPlace, Undisturbed, Alone, Emptied, RunsDone
  <2>. QED
    BY <1>2, <2>1, <2>2, <2>3, <2>4, <2>5, <2>6, <2>7 DEF FilesNext
<1>3. FilesTypeOK /\ DirectoryInv /\ TypeOK /\ ValidatedInv /\ TypeOK' /\ [FilesNext]_allVars
        => FilesTypeOK' /\ DirectoryInv'
  BY <1>2 DEF FilesInv
<1>4. FilesSpec => [](TypeOK /\ ValidatedInv)
  BY FilesRefineIntake, TraversalInvariant, UploadIsValidated, PTL
<1>5. FilesSpec => [](FilesTypeOK /\ DirectoryInv)
  BY <1>1, <1>3, <1>4, PTL DEF FilesSpec
<1>. QED
  BY <1>4, <1>5, PTL DEF FilesInv

\* The files' part of the state has its types, whatever is uploaded and left running.
THEOREM FilesTypeCorrect == FilesSpec => []FilesTypeOK
BY FilesInvariant, PTL DEF FilesInv

\* From the clearing of the directory to the publication there is nothing in it but
\* what this submission's writes and the compiler's own have put there, if no write
\* of an earlier task is left running.
THEOREM DirectoryIsTheTasks == FilesSpec => []DirectoryInv
BY FilesInvariant, PTL DEF FilesInv

\* What the state of a published submission says of the compiler's runs.
LEMMA WhatWasCompiled ==
    ASSUME FilesInv, phase = "published", Undisturbed
    PROVE  /\ published = keptFiles /\ published \subseteq Indices
           /\ \A i \in published : Place(i) \in Locations \ {ResultFile}
           /\ \A i \in published : Emptied(Place(i))
           /\ \A i \in published : Alone(i) => directory[Place(i)] = {i}
           /\ \A l \in Locations : Emptied(l) =>
                \A i \in directory[l] : i \in published /\ Place(i) = l
           /\ \A run \in CompilerRuns : \A l \in Locations \ {ResultFile} :
                compiled[run][l] = directory[l]
           /\ EntryPlace \in Locations /\ directory[EntryPlace] # {}
<1>1. /\ published = keptFiles
      /\ \A i \in keptFiles : writes[i] = "done"
      /\ \A i \in keptFiles :
           Alone(i) /\ writes[i] = "done" => directory[Place(i)] = {i}
      /\ \A l \in Locations : Emptied(l) =>
           \A i \in directory[l] : i \in keptFiles /\ Place(i) = l /\ writes[i] = "done"
      /\ directory[EntryPlace] # {}
      /\ \A run \in RunsDone : \A l \in Locations \ {ResultFile} :
           compiled[run][l] = directory[l]
  BY DEF FilesInv, DirectoryInv
<1>2. RunsDone = CompilerRuns
  BY DEF RunsDone
<1>3. \A i \in published : i \in Indices /\ Place(i) \in Locations \ {ResultFile}
  BY <1>1, KeptAreValid
<1>4. EntryPlace \in Locations
  BY KeptHavePlaces DEF FilesInv
<1>5. \A i \in published : Emptied(Place(i))
  BY <1>1 DEF Emptied
<1>. QED
  BY <1>1, <1>2, <1>3, <1>4, <1>5

\* A reader gets at the path of a file what each run of the compiler saw there, if
\* the file shares its place with no other and no earlier task's write is left.
THEOREM ReadersTheorem == FilesSpec => []ReadersGetWhatWasCompiled
<1>1. ASSUME FilesInv
      PROVE  ReadersGetWhatWasCompiled
  <2>. DEFINE Row(j) == [filePath    |-> upload.sourceFiles[j].originalname,
                         content     |-> j,
                         isEntryFile |-> upload.sourceFiles[j].originalname
                                           = upload.entryFile]
  <2>. SUFFICES ASSUME phase = "published", Undisturbed, NEW i \in published, Alone(i),
                       NEW run \in CompilerRuns
                PROVE  GetVerifiedContractSourceFile(upload.sourceFiles[i].originalname)
                         = compiled[run][Place(i)]
    BY DEF ReadersGetWhatWasCompiled
  <2>1. published = keptFiles /\ compiled[run][Place(i)] = {i}
    BY <1>1, WhatWasCompiled
  <2>2. \A j \in published :
          upload.sourceFiles[j].originalname = upload.sourceFiles[i].originalname => j = i
    BY <2>1 DEF Alone, Place
  <2>3. GetVerifiedContractSource = {Row(j) : j \in published}
    BY DEF GetVerifiedContractSource
  <2>4. \A j : Row(j).filePath = upload.sourceFiles[j].originalname /\ Row(j).content = j
    OBVIOUS
  <2>. HIDE DEF Row
  <2>5. {f \in GetVerifiedContractSource : f.filePath = upload.sourceFiles[i].originalname}
          = {Row(i)}
    BY <2>2, <2>3, <2>4
  <2>6. GetVerifiedContractSourceFile(upload.sourceFiles[i].originalname) = {Row(i).content}
    BY <2>5 DEF GetVerifiedContractSourceFile
  <2>. QED
    BY <2>1, <2>4, <2>6
<1>. QED
  BY <1>1, FilesInvariant, PTL

\* Whatever the compiler found in the directory, or outside where a published file was
\* written, is among the published files, if no earlier task's write is left.
THEOREM NothingHidden == FilesSpec => []NothingCompiledIsHidden
<1>1. ASSUME FilesInv
      PROVE  NothingCompiledIsHidden
  <2>. SUFFICES ASSUME phase = "published", Undisturbed, NEW l \in Locations,
                       l \in Inside \ {ResultFile} \/ \E i \in published : Place(i) = l,
                       NEW run \in CompilerRuns, NEW content \in compiled[run][l]
                PROVE  \E file \in GetVerifiedContractSource :
                         file.content = content /\ LocationOf[file.filePath] = l
    BY DEF NothingCompiledIsHidden
  <2>1. Emptied(l) /\ l # ResultFile
    BY <1>1, WhatWasCompiled DEF Emptied
  <2>2. content \in published /\ Place(content) = l
    BY <1>1, <2>1, WhatWasCompiled
  <2>. DEFINE file == [filePath    |-> upload.sourceFiles[content].originalname,
                       content     |-> content,
                       isEntryFile |-> upload.sourceFiles[content].originalname
                                         = upload.entryFile]
  <2>3. file \in GetVerifiedContractSource
    BY <2>2 DEF GetVerifiedContractSource
  <2>4. file.content = content /\ LocationOf[file.filePath] = l
    BY <2>2 DEF Place
  <2>. HIDE DEF file
  <2>. QED
    BY <2>3, <2>4
<1>. QED
  BY <1>1, FilesInvariant, PTL

\* Where no stored file of another name has the entry's place, and no earlier task's
\* write is left: the flagged files are the uploaded ones with the entry's name, and
\* the compiler's entry file is of them.
THEOREM EntryTheorem == FilesSpec => []EntryFileIsFlagged
<1>1. ASSUME FilesInv, TraversalInv
      PROVE  EntryFileIsFlagged
  <2>. DEFINE named(i) == upload.sourceFiles[i].originalname = upload.entryFile
              Row(i) == [filePath    |-> upload.sourceFiles[i].originalname,
                         content     |-> i,
                         isEntryFile |-> named(i)]
              flagged == {file.content :
                            file \in {f \in GetVerifiedContractSource : f.isEntryFile}}
  <2>. SUFFICES ASSUME phase = "published", Undisturbed,
                       \A i \in published : Place(i) = EntryPlace => named(i)
                PROVE  /\ flagged = {i \in Indices : named(i)}
                       /\ \A run \in CompilerRuns :
                            /\ compiled[run][EntryPlace] # {}
                            /\ compiled[run][EntryPlace] \subseteq flagged
    BY DEF EntryFileIsFlagged
  <2>1. /\ pc = "submitted" /\ published = keptFiles /\ published \subseteq Indices
        /\ EntryPlace \in Locations /\ directory[EntryPlace] # {}
    BY <1>1, WhatWasCompiled, KeptAreValid
  <2>2. keptFiles = {i \in Indices : upload.sourceFiles[i].originalname \in includedFiles}
    BY <1>1, <2>1 DEF TraversalInv, Kept
  <2>3. PICK e \in Indices : named(e) /\ Place(e) = EntryPlace /\ EntryPlace # ResultFile
    BY <1>1, <2>1, KeptHavePlaces DEF FilesInv, ValidatedInv, Uploaded, Place, EntryPlace
  <2>4. Emptied(EntryPlace)
    <3>1. CASE upload.entryFile \in DefaultIncludes
      BY <2>3, <3>1, PublishedSourcesAssumption DEF Emptied, EntryPlace
    <3>2. CASE upload.entryFile \notin DefaultIncludes
      <4>1. upload.entryFile \in includedFiles
        BY <1>1, <2>1, <3>2 DEF TraversalInv, Stacked
      <4>2. e \in published
        BY <2>1, <2>2, <2>3, <4>1
      <4>. QED
        BY <1>1, <2>3, <4>2, WhatWasCompiled
    <3>. QED
      BY <3>1, <3>2
  <2>5. /\ \A i \in directory[EntryPlace] : i \in published /\ Place(i) = EntryPlace
        /\ \A run \in CompilerRuns : compiled[run][EntryPlace] = directory[EntryPlace]
    BY <1>1, <2>1, <2>3, <2>4, WhatWasCompiled
  <2>6. PICK c \in directory[EntryPlace] : c \in published /\ named(c)
    BY <2>1, <2>5
  <2>7. \A i \in Indices : named(i) => i \in published
    BY <2>1, <2>2, <2>6
  <2>8. flagged = {i \in Indices : named(i)}
    <3>1. GetVerifiedContractSource = {Row(i) : i \in published}
      BY DEF GetVerifiedContractSource
    <3>2. \A i : Row(i).content = i /\ (Row(i).isEntryFile <=> named(i))
      OBVIOUS
    <3>. HIDE DEF Row, named
    <3>. QED
      BY <2>1, <2>7, <3>1, <3>2
  <2>9. \A i \in directory[EntryPlace] : i \in Indices /\ named(i)
    BY <2>1, <2>5
  <2>. HIDE DEF flagged, named
  <2>. QED
    BY <2>1, <2>5, <2>8, <2>9
<1>2. FilesSpec => []TraversalInv
  BY FilesRefineIntake, TraversalInvariant, PTL
<1>. QED
  BY <1>1, <1>2, FilesInvariant, PTL
=============================================================================
