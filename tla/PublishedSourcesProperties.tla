--------------------- MODULE PublishedSourcesProperties ---------------------
(***************************************************************************)
(* What readers of a published contract may rely on: the files they get    *)
(* are the files the compiler saw.  It takes a worker on which no write of *)
(* an earlier task is left running; nothing in the code waits for those.   *)
(* Outside CONTRACT_DIRECTORY nothing is ever removed: what earlier tasks  *)
(* wrote under names that start with a slash stays for the compiler.       *)
(***************************************************************************)
EXTENDS PublishedSources

\* The files' part of the state has the values its comments say.
FilesTypeOK ==
    /\ phase \in {"queued", "taken", "write", "aci", "validated",
                  "compiled", "published", "failed"}
    /\ phase # "queued" => pc = "submitted" /\ writes \in [keptFiles -> {"idle", "open", "done"}]
    /\ directory \in [Locations -> SUBSET (Indices \cup {Foreign})]
    /\ earlier \subseteq Locations
    /\ compiled \in [CompilerRuns -> [Locations -> SUBSET (Indices \cup {Foreign})]]
    /\ published \subseteq keptFiles
    /\ phase # "published" => published = {}

Undisturbed == earlier = {}

\* No other stored file is written to the file's location.
Alone(i) == \A j \in keptFiles : Place(j) = Place(i) => j = i

\* The rm has emptied the location, or a write of this attempt has truncated it.
Emptied(l) ==
    \/ l \in Inside \ {ResultFile}
    \/ \E i \in keptFiles : Place(i) = l /\ writes[i] # "idle"

RunsDone ==
    CASE phase = "aci" -> {"aci"}
      [] phase = "validated" -> {"aci", "validate"}
      [] phase \in {"compiled", "published"} -> CompilerRuns
      [] OTHER -> {}

\* No write is under way when the directory is cleared.  From then on what it has
\* are bytes of files of this submission, each at its place and written to its end,
\* but for _result.json; so is it outside where such a file was written.  A file
\* with a place of its own is alone there.  From the compiler's first run on, all
\* files are written and stay as each run has seen them.
DirectoryInv ==
    /\ phase = "taken" => \A i \in keptFiles : writes[i] = "idle"
    /\ Undisturbed /\ phase \notin {"queued", "taken", "failed"} =>
         /\ \A l \in Locations : Emptied(l) =>
              \A i \in directory[l] : i \in keptFiles /\ Place(i) = l /\ writes[i] = "done"
         /\ \A i \in keptFiles :
              Alone(i) /\ writes[i] = "done" => directory[Place(i)] = {i}
         /\ phase # "write" =>
              /\ \A i \in keptFiles : writes[i] = "done"
              /\ directory[EntryPlace] # {}
         /\ \A run \in RunsDone : \A l \in Locations \ {ResultFile} :
              compiled[run][l] = directory[l]
         /\ phase = "published" => published = keptFiles

\* A reader who asks for the path of a published file gets exactly what each run of
\* the compiler found there, whichever order the rows come in and however the
\* concurrent writes went.  It is so for a file that shares its place with no other,
\* on a worker with no earlier task's writes; of files that share one, the readers
\* get all and the compiler had what the last writes left.
ReadersGetWhatWasCompiled ==
    phase = "published" /\ Undisturbed =>
        \A i \in published : Alone(i) =>
            \A run \in CompilerRuns :
                GetVerifiedContractSourceFile(upload.sourceFiles[i].originalname)
                    = compiled[run][Place(i)]

\* Nothing a run of the compiler found in the directory, or outside where a
\* published file was written, is missing from the published files: no leftover of
\* another task, no file the filter dropped, also where files share a place.
\* _result.json is the compiler's own.  Of other places outside nothing is promised:
\* a leftover there may be included, and is not published.
NothingCompiledIsHidden ==
    phase = "published" /\ Undisturbed =>
        \A l \in Locations :
            (l \in Inside \ {ResultFile} \/ \E i \in published : Place(i) = l) =>
                \A run \in CompilerRuns : \A content \in compiled[run][l] :
                    \E file \in GetVerifiedContractSource :
                        file.content = content /\ LocationOf[file.filePath] = l

\* Where no stored file of another name has the entry's place: flagged are all the
\* uploaded files with the entry's name, just one if there is just one, and what
\* every run of the compiler took for the entry file is of them.  An upload whose
\* entry file has the name of a library file is stored without it, so it is not
\* published.
EntryFileIsFlagged ==
    LET named(i) == upload.sourceFiles[i].originalname = upload.entryFile
        flagged == {file.content : file \in {f \in GetVerifiedContractSource : f.isEntryFile}}
    IN
    /\ phase = "published"
    /\ Undisturbed
    /\ \A i \in published : Place(i) = EntryPlace => named(i)
    => /\ flagged = {i \in Indices : named(i)}
       /\ \A run \in CompilerRuns :
            compiled[run][EntryPlace] # {} /\ compiled[run][EntryPlace] \subseteq flagged
=============================================================================
