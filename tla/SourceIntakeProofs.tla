------------------------- MODULE SourceIntakeProofs -------------------------
(***************************************************************************)
(* The traversal stores the files of the entry file's tree: for any files, *)
(* names and limits.  When the stack is empty, what it marked and the      *)
(* library files it followed are closed under includes and have the entry  *)
(* file, so the tree, the least such set, is among them; and it never left *)
(* the tree.                                                               *)
(***************************************************************************)
EXTENDS SourceIntakeProperties, SequenceTheorems, WellFoundedInduction, TLAPS

Elements(seq) == {seq[k] : k \in 1..Len(seq)}

-----------------------------------------------------------------------------
(* The stack.                                                              *)

\* Popping takes the top away from the elements, pushing adds what is pushed.
LEMMA PopAndPush ==
    ASSUME NEW S, NEW stack \in Seq(S), stack # <<>>, NEW pushed \in Seq(S)
    PROVE  LET left == SubSeq(stack, 1, Len(stack) - 1) IN
           /\ stack[Len(stack)] \in S
           /\ left \in Seq(S)
           /\ left \o pushed \in Seq(S)
           /\ Elements(stack) = Elements(left) \cup {stack[Len(stack)]}
           /\ Elements(left \o pushed) = Elements(left) \cup Elements(pushed)
<1>. DEFINE rest == SubSeq(stack, 1, Len(stack) - 1)
<1>0. rest = SubSeq(stack, 1, Len(stack) - 1)
  OBVIOUS
<1>. HIDE DEF rest
<1>1. Len(stack) \in Nat \ {0}
  BY EmptySeq
<1>2. \A k \in 1..Len(stack) : stack[k] \in S
  BY ElementOfSeq
<1>3. /\ rest \in Seq(S)
      /\ Len(rest) = Len(stack) - 1
      /\ \A k \in 1..(Len(stack) - 1) : rest[k] = stack[k]
  <2>1. Len(stack) - 1 \in Int
    BY <1>1
  <2>2. PICK last \in Int : last = Len(stack) - 1
    BY <2>1, Zenon
  <2>3. \A k \in 1..last : stack[k] \in S
    BY <1>1, <1>2, <2>2
  <2>4. /\ SubSeq(stack, 1, last) \in Seq(S)
        /\ Len(SubSeq(stack, 1, last)) = IF 1 <= last THEN last - 1 + 1 ELSE 0
        /\ \A k \in 1..(last - 1 + 1) : SubSeq(stack, 1, last)[k] = stack[1 + k - 1]
    BY <2>3
  <2>5. \A k \in 1..last : SubSeq(stack, 1, last)[k] = stack[k]
    BY <2>2, <2>4
  <2>. QED
    BY <1>0, <1>1, <2>2, <2>4, <2>5
<1>4. Elements(stack) = Elements(rest) \cup {stack[Len(stack)]}
  BY <1>1, <1>3 DEF Elements
<1>5. /\ rest \o pushed \in Seq(S)
      /\ Len(rest \o pushed) = Len(rest) + Len(pushed)
      /\ \A k \in 1..(Len(rest) + Len(pushed)) :
           (rest \o pushed)[k] = IF k <= Len(rest) THEN rest[k] ELSE pushed[k - Len(rest)]
  BY <1>3, ConcatProperties
<1>6. Len(pushed) \in Nat
  BY LenProperties
<1>7. Elements(rest \o pushed) \subseteq Elements(rest) \cup Elements(pushed)
  <2>1. ASSUME NEW k \in 1..(Len(rest) + Len(pushed))
        PROVE  (rest \o pushed)[k] \in Elements(rest) \cup Elements(pushed)
    <3>1. CASE k <= Len(rest)
      BY <1>1, <1>3, <1>5, <1>6, <3>1 DEF Elements
    <3>2. CASE k > Len(rest)
      <4>1. k - Len(rest) \in 1..Len(pushed)
        BY <1>1, <1>3, <1>6, <3>2
      <4>. QED
        BY <1>1, <1>3, <1>5, <3>2, <4>1 DEF Elements
    <3>. QED
      BY <1>1, <1>3, <3>1, <3>2
  <2>. QED
    BY <1>5, <2>1 DEF Elements
<1>8. Elements(rest) \cup Elements(pushed) \subseteq Elements(rest \o pushed)
  <2>1. ASSUME NEW k \in 1..Len(rest)
        PROVE  rest[k] \in Elements(rest \o pushed)
    <3>1. k \in 1..(Len(rest) + Len(pushed)) /\ k <= Len(rest)
      BY <1>1, <1>3, <1>6
    <3>. QED
      BY <1>5, <3>1 DEF Elements
  <2>2. ASSUME NEW k \in 1..Len(pushed)
        PROVE  pushed[k] \in Elements(rest \o pushed)
    <3>1. /\ Len(rest) + k \in 1..(Len(rest) + Len(pushed))
          /\ ~(Len(rest) + k <= Len(rest))
          /\ (Len(rest) + k) - Len(rest) = k
      BY <1>1, <1>3, <1>6
    <3>2. (rest \o pushed)[Len(rest) + k] = pushed[k]
      BY <1>5, <3>1
    <3>. QED
      BY <1>5, <3>1, <3>2 DEF Elements
  <2>. QED
    BY <2>1, <2>2 DEF Elements
<1>. QED
  BY <1>0, <1>1, <1>2, <1>3, <1>4, <1>5, <1>7, <1>8

-----------------------------------------------------------------------------
(* Files and their includes.                                               *)

\* A name that was uploaded has a first file.
LEMMA FindFileFinds ==
    ASSUME TypeOK, NEW name, Uploaded(name)
    PROVE  FindFile(name) \in Indices
<1>. DEFINE Named == {i \in Indices : upload.sourceFiles[i].originalname = name}
<1>1. Named \subseteq Nat /\ Named # {}
  BY DEF Uploaded, Indices
<1>2. PICK first \in Named : \A i \in Named : ~ (<<i, first>> \in OpToRel(<, Nat))
  BY <1>1, NatLessThanWellFounded, WFMin, Zenon
<1>3. \A i \in Named : ~ (i < first)
  BY <1>1, <1>2, Zenon DEF OpToRel
<1>4. Len(upload.sourceFiles) \in Nat
  BY SourceIntakeAssumption, LenProperties DEF TypeOK, Upload
<1>5. \A j \in 1..(first - 1) : upload.sourceFiles[j].originalname # name
  BY <1>3, <1>4 DEF Indices
<1>. QED
  BY <1>5 DEF FindFile

\* The include lines of a file are a sequence of names.
LEMMA IncludesOfType ==
    ASSUME TypeOK, NEW name
    PROVE  /\ IncludesOf(name) \in Seq(FileNames)
           /\ Includes(name) = Elements(IncludesOf(name))
           /\ Includes(name) \subseteq FileNames
<1>1. IncludesOf(name) \in Seq(FileNames)
  <2>1. CASE Uploaded(name)
    <3>1. FindFile(name) \in Indices
      BY <2>1, FindFileFinds
    <3>2. upload.sourceFiles \in Seq(SourceFile)
      BY SourceIntakeAssumption DEF TypeOK, Upload
    <3>3. upload.sourceFiles[FindFile(name)] \in SourceFile
      BY <3>1, <3>2, ElementOfSeq DEF Indices
    <3>. QED
      BY <2>1, <3>3 DEF IncludesOf, SourceFile
  <2>2. CASE ~Uploaded(name)
    BY <2>2, EmptySeq DEF IncludesOf
  <2>. QED
    BY <2>1, <2>2
<1>. QED
  BY <1>1, ElementOfSeq DEF Includes, Elements

\* The tree has the entry file and, with a file, everything it includes.
LEMMA TreeIsClosed ==
    ASSUME TypeOK
    PROVE  /\ upload.entryFile \in EntryTree
           /\ \A name \in EntryTree : Includes(name) \subseteq EntryTree
<1>1. upload.entryFile \in FileNames
  BY SourceIntakeAssumption DEF TypeOK, Upload
<1>2. ASSUME NEW name \in EntryTree, NEW other \in Includes(name)
      PROVE  other \in EntryTree
  BY <1>2, IncludesOfType DEF EntryTree, ClosedUnderIncludes
<1>. QED
  BY <1>1, <1>2 DEF EntryTree

\* Nothing else has: the tree is within each closed set with the entry file.
LEMMA TreeIsLeast ==
    ASSUME NEW names \in SUBSET FileNames,
           upload.entryFile \in names, ClosedUnderIncludes(names)
    PROVE  EntryTree \subseteq names
BY DEF EntryTree

\* The tree is a matter of the upload alone.
LEMMA TreeFrame ==
    ASSUME upload' = upload
    PROVE  /\ EntryTree' = EntryTree
           /\ \A name : Includes(name)' = Includes(name)
           /\ \A names : Kept(names)' = Kept(names)
BY DEF EntryTree, ClosedUnderIncludes, Includes, IncludesOf, Uploaded, FindFile, Indices, Kept

-----------------------------------------------------------------------------
(* One turn of the loop.                                                   *)

\* What a turn does to the elements of the stack.
LEMMA ProcessFileElements ==
    ASSUME TypeOK, ProcessFile
    PROVE  \E currentFile \in Stacked, left \in SUBSET FileNames :
             /\ currentFile \in FileNames
             /\ filesToProcess' \in Seq(FileNames)
             /\ Stacked = left \cup {currentFile}
             /\ \/ /\ currentFile \in includedFiles
                   /\ Stacked' = left
                   /\ includedFiles' = includedFiles
                \/ /\ Stacked' = left \cup Includes(currentFile)
                   /\ includedFiles' = includedFiles \cup ({currentFile} \ DefaultIncludes)
<1>. DEFINE currentFile == filesToProcess[Len(filesToProcess)]
            rest == SubSeq(filesToProcess, 1, Len(filesToProcess) - 1)
<1>1. filesToProcess \in Seq(FileNames) /\ filesToProcess # <<>>
  BY DEF TypeOK, ProcessFile
<1>2. /\ IncludesOf(currentFile) \in Seq(FileNames)
      /\ Includes(currentFile) = Elements(IncludesOf(currentFile))
  BY IncludesOfType
<1>3. /\ currentFile \in FileNames
      /\ rest \in Seq(FileNames)
      /\ rest \o IncludesOf(currentFile) \in Seq(FileNames)
      /\ Elements(filesToProcess) = Elements(rest) \cup {currentFile}
      /\ Elements(rest \o IncludesOf(currentFile)) =
           Elements(rest) \cup Elements(IncludesOf(currentFile))
  <2>1. \A stack \in Seq(FileNames), pushed \in Seq(FileNames) : stack # <<>> =>
          LET left == SubSeq(stack, 1, Len(stack) - 1) IN
          /\ stack[Len(stack)] \in FileNames
          /\ left \in Seq(FileNames)
          /\ left \o pushed \in Seq(FileNames)
          /\ Elements(stack) = Elements(left) \cup {stack[Len(stack)]}
          /\ Elements(left \o pushed) = Elements(left) \cup Elements(pushed)
    BY PopAndPush
  <2>. QED
    BY <1>1, <1>2, <2>1
<1>4. Elements(rest) \subseteq FileNames
  BY <1>3, ElementOfSeq DEF Elements
<1>5. Stacked = Elements(filesToProcess) /\ Stacked' = Elements(filesToProcess')
  BY DEF Stacked, Elements
<1>6. \/ /\ currentFile \in includedFiles
         /\ filesToProcess' = rest
         /\ includedFiles' = includedFiles
      \/ /\ filesToProcess' = rest \o IncludesOf(currentFile)
         /\ includedFiles' = includedFiles \cup ({currentFile} \ DefaultIncludes)
  BY DEF ProcessFile
<1>. HIDE DEF currentFile, rest
<1>. QED
  BY <1>2, <1>3, <1>4, <1>5, <1>6

\* It loses no file: what it followed is marked or has a library name.
LEMMA ProcessFileKeepsTraversal ==
    ASSUME TypeOK, TraversalInv, ProcessFile
    PROVE  TraversalInv'
<1>1. PICK currentFile \in Stacked, left \in SUBSET FileNames :
         /\ currentFile \in FileNames
         /\ Stacked = left \cup {currentFile}
         /\ \/ /\ currentFile \in includedFiles
               /\ Stacked' = left
               /\ includedFiles' = includedFiles
            \/ /\ Stacked' = left \cup Includes(currentFile)
               /\ includedFiles' = includedFiles \cup ({currentFile} \ DefaultIncludes)
  BY ProcessFileElements
<1>2. /\ pc = "traverse" /\ pc' = "traverse"
      /\ upload' = upload
      /\ EntryTree' = EntryTree
      /\ \A name : Includes(name)' = Includes(name)
  BY TreeFrame DEF ProcessFile
<1>3. PICK followed \in SUBSET DefaultIncludes :
         /\ upload.entryFile \in includedFiles \cup followed \cup Stacked
         /\ \A name \in includedFiles \cup followed :
              Includes(name) \subseteq includedFiles \cup followed \cup Stacked
  BY <1>2 DEF TraversalInv
<1>4. includedFiles' \cup Stacked' \subseteq EntryTree
  BY <1>1, <1>2, TreeIsClosed DEF TraversalInv
<1>5. \E next \in SUBSET DefaultIncludes :
         /\ upload.entryFile \in includedFiles' \cup next \cup Stacked'
         /\ \A name \in includedFiles' \cup next :
              Includes(name) \subseteq includedFiles' \cup next \cup Stacked'
  <2>1. CASE currentFile \in includedFiles /\ Stacked' = left /\ includedFiles' = includedFiles
    BY <1>1, <1>3, <2>1
  <2>2. CASE /\ Stacked' = left \cup Includes(currentFile)
             /\ includedFiles' = includedFiles \cup ({currentFile} \ DefaultIncludes)
    <3>. DEFINE next == followed \cup ({currentFile} \cap DefaultIncludes)
    <3>1. includedFiles' \cup next = includedFiles \cup followed \cup {currentFile}
      BY <2>2
    <3>2. upload.entryFile \in includedFiles' \cup next \cup Stacked'
      BY <1>1, <1>3, <2>2, <3>1
    <3>3. ASSUME NEW name \in includedFiles' \cup next
          PROVE  Includes(name) \subseteq includedFiles' \cup next \cup Stacked'
      BY <1>1, <1>3, <2>2, <3>1, <3>3
    <3>4. next \in SUBSET DefaultIncludes
      OBVIOUS
    <3>. HIDE DEF next
    <3>. QED
      BY <3>2, <3>3, <3>4
  <2>. QED
    BY <1>1, <2>1, <2>2
<1>. QED
  BY <1>2, <1>4, <1>5 DEF TraversalInv

-----------------------------------------------------------------------------
(* Every step.                                                             *)

LEMMA TypeOKStep ==
    ASSUME TypeOK, [Next]_vars
    PROVE  TypeOK'
<1>1. CASE CheckRecaptcha
  BY <1>1 DEF CheckRecaptcha, TypeOK
<1>2. CASE ValidateFiles
  <2>1. upload.entryFile \in FileNames
    BY SourceIntakeAssumption DEF TypeOK, Upload
  <2>2. <<upload.entryFile>> \in Seq(FileNames)
    BY <2>1
  <2>. QED
    BY <1>2, <2>2 DEF ValidateFiles, TypeOK
<1>3. CASE ProcessFile
  <2>1. /\ includedFiles' \subseteq FileNames \ DefaultIncludes
        /\ filesToProcess' \in Seq(FileNames)
    BY <1>3, ProcessFileElements DEF TypeOK
  <2>. QED
    BY <1>3, <2>1 DEF ProcessFile, TypeOK
<1>4. CASE FilterFiles
  BY <1>4 DEF FilterFiles, Indices, TypeOK
<1>5. CASE UNCHANGED vars
  BY <1>5 DEF vars, TypeOK
<1>. QED
  BY <1>1, <1>2, <1>3, <1>4, <1>5 DEF Next

LEMMA TraversalInvStep ==
    ASSUME TypeOK, TraversalInv, [Next]_vars
    PROVE  TraversalInv'
<1>2. CASE CheckRecaptcha
  BY <1>2 DEF CheckRecaptcha, TraversalInv
<1>3. CASE ValidateFiles
  <2>1. CASE FilesAreValid
    <3>1. /\ pc' = "traverse" /\ includedFiles' = {} /\ Stacked' = {upload.entryFile}
          /\ upload' = upload
      <4>1. /\ filesToProcess' = <<upload.entryFile>>
            /\ pc' = "traverse" /\ includedFiles' = {} /\ upload' = upload
        BY <1>3, <2>1 DEF ValidateFiles, TraversalInv
      <4>2. {<<upload.entryFile>>[k] : k \in 1..Len(<<upload.entryFile>>)} = {upload.entryFile}
        OBVIOUS
      <4>. QED
        BY <4>1, <4>2 DEF Stacked
    <3>2. upload.entryFile \in EntryTree
      BY TreeIsClosed
    <3>3. {} \in SUBSET DefaultIncludes
      OBVIOUS
    <3>. QED
      BY <3>1, <3>2, <3>3, TreeFrame DEF TraversalInv
  <2>2. CASE ~FilesAreValid
    BY <1>3, <2>2 DEF ValidateFiles, TraversalInv
  <2>. QED
    BY <2>1, <2>2
<1>4. CASE ProcessFile
  BY <1>4, ProcessFileKeepsTraversal
<1>5. CASE FilterFiles
  <2>1. /\ pc = "traverse" /\ pc' = "submitted" /\ upload' = upload
        /\ includedFiles' = includedFiles
        /\ filesToProcess' = <<>> /\ Stacked' = Stacked
        /\ keptFiles' = Kept(includedFiles)
    BY <1>5 DEF FilterFiles, Kept, Stacked
  <2>. QED
    BY <2>1, TreeFrame DEF TraversalInv
<1>6. CASE UNCHANGED vars
  <2>1. /\ pc' = pc /\ includedFiles' = includedFiles /\ filesToProcess' = filesToProcess
        /\ keptFiles' = keptFiles /\ upload' = upload
    BY <1>6 DEF vars
  <2>2. Stacked' = Stacked
    BY <2>1 DEF Stacked
  <2>. QED
    BY <2>1, <2>2, TreeFrame DEF TraversalInv
<1>. QED
  BY <1>2, <1>3, <1>4, <1>5, <1>6 DEF Next

\* Whatever the files, the traversal stays inside the tree and misses nothing it
\* has seen.
THEOREM TraversalInvariant == Spec => [](TypeOK /\ TraversalInv)
<1>1. Init => TypeOK /\ TraversalInv
  BY EmptySeq DEF Init, TypeOK, TraversalInv
<1>2. TypeOK /\ TraversalInv /\ [Next]_vars => (TypeOK /\ TraversalInv)'
  BY TypeOKStep, TraversalInvStep
<1>. QED
  BY <1>1, <1>2, PTL DEF Spec

\* The handler's variables keep their types for any upload and any limits; no
\* library name is ever marked.
THEOREM IntakeTypeCorrect == Spec => []TypeOK
BY TraversalInvariant, PTL

\* What ContractsController.submit hands over for storage is the tree of the entry
\* file without the library's names: nothing reachable is lost, nothing else kept.
THEOREM TraversalIsExact == Spec => []KeptIsEntryTree
<1>1. ASSUME TypeOK, TraversalInv
      PROVE  KeptIsEntryTree
  <2>. SUFFICES ASSUME pc = "submitted"
                PROVE  keptFiles = Kept(EntryTree \ DefaultIncludes)
    BY DEF KeptIsEntryTree
  <2>1. Stacked = {}
    BY <1>1, EmptySeq DEF TraversalInv, Stacked
  <2>2. PICK followed \in SUBSET DefaultIncludes :
           /\ upload.entryFile \in includedFiles \cup followed
           /\ \A name \in includedFiles \cup followed :
                Includes(name) \subseteq includedFiles \cup followed
    BY <1>1, <2>1 DEF TraversalInv
  <2>3. includedFiles \cup followed \in SUBSET FileNames
    BY <1>1, SourceIntakeAssumption DEF TypeOK
  <2>4. EntryTree \subseteq includedFiles \cup followed
    BY <2>2, <2>3, TreeIsLeast DEF ClosedUnderIncludes
  <2>5. includedFiles = EntryTree \ DefaultIncludes
    BY <1>1, <2>4 DEF TypeOK, TraversalInv
  <2>. QED
    BY <1>1, <2>5 DEF TraversalInv
<1>. QED
  BY <1>1, TraversalInvariant, PTL
=============================================================================
