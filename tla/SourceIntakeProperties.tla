----------------------- MODULE SourceIntakeProperties -----------------------
(***************************************************************************)
(* What the traversal of the include lines must find, against a definition *)
(* of the entry file's tree that has no order, stack or marks.             *)
(***************************************************************************)
EXTENDS SourceIntake

Includes(name) == {IncludesOf(name)[k] : k \in 1..Len(IncludesOf(name))}

\* With a file, everything it includes.
ClosedUnderIncludes(names) == \A name \in names : Includes(name) \subseteq names

\* The entry file and all that is included from it, directly or not: what every
\* closed set with the entry file has.
EntryTree ==
    {name \in FileNames :
        \A names \in SUBSET FileNames :
            (upload.entryFile \in names /\ ClosedUnderIncludes(names)) => name \in names}

Kept(names) == {i \in Indices : upload.sourceFiles[i].originalname \in names}

\* What is stored are the uploaded files of the entry file's tree that do not
\* have the name of a library file, all of them and no others, in whatever order
\* the stack finds them and however they include each other; the tree goes
\* through library files that were uploaded.
KeptIsEntryTree ==
    pc = "submitted" => keptFiles = Kept(EntryTree \ DefaultIncludes)

Stacked == {filesToProcess[k] : k \in 1..Len(filesToProcess)}

\* The traversal is inside the tree, and whatever a file it is done with includes
\* it has done or will do.  A library file it is done with has no mark: followed
\* are those there are.
TraversalInv ==
    /\ pc \in {"recaptcha", "validate"} => includedFiles = {}
    /\ pc \in {"traverse", "submitted"} =>
         /\ includedFiles \cup Stacked \subseteq EntryTree
         /\ \E followed \in SUBSET DefaultIncludes :
              LET done == includedFiles \cup followed IN
              /\ upload.entryFile \in done \cup Stacked
              /\ \A name \in done : Includes(name) \subseteq done \cup Stacked
    /\ pc = "submitted" =>
         /\ filesToProcess = <<>>
         /\ keptFiles = Kept(includedFiles)

\* Uploaded library files do not include each other in a circle.
NoLibraryCircle ==
    \E rank \in [DefaultIncludes -> 0..Cardinality(DefaultIncludes)] :
        \A name \in DefaultIncludes :
            \A other \in Includes(name) \cap DefaultIncludes : rank[other] < rank[name]

\* The POST is answered: any files, in circles or not, as long as there is no
\* circle among library files, which the traversal does not mark.
PostIsAnswered ==
    NoLibraryCircle ~> pc \in {"rejected", "submitted"}
=============================================================================
