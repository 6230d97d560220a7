------------------------- MODULE MCPublishedSources -------------------------
(***************************************************************************)
(* Uploads for TLC: of two well-formed files with up to two include lines  *)
(* in the first and one in the second, of an entry file with two include   *)
(* lines and two files with up to one each, and a few that the recaptcha   *)
(* check and the validator tell apart.  The name detour is one more path   *)
(* to the place of helper, and the name rooted starts with a slash.        *)
(***************************************************************************)
EXTENDS PublishedSourcesProperties

CONSTANTS entry, helper, library, detour, rooted, result

MCFileNames == {entry, helper, library, detour, rooted}

MCLocationOf == [name \in MCFileNames |-> IF name = detour THEN helper ELSE name]

MCLeftovers == {{}, {helper, result}, {entry, rooted}, Locations}

MCEarlierWrites == {{}, {helper}}

UploadNames == {entry, helper, library}

Singles == {<<>>} \cup {<<a>> : a \in UploadNames}

Pairs == {<<a, b>> : a \in {helper, library}, b \in MCFileNames}

File(name, includes, size) ==
    [originalname |-> name, valid |-> TRUE, size |-> size, includes |-> includes]

Files(names, lists, size) ==
    {File(name, includes, size) : name \in names, includes \in lists}

Body(entryFile, files, recaptcha) ==
    [entryFile |-> entryFile, sourceFiles |-> files, recaptcha |-> recaptcha]

\* A library file that includes something and then itself makes the stack grow
\* without end.
StaysFinite(file) ==
    file.originalname = library /\ Len(file.includes) = 2 => file.includes[2] # library

FiniteFiles == {file \in Files(UploadNames, Singles \cup Pairs, 1) : StaysFinite(file)}

WellFormed ==
    {Body(entry, <<f, g>>, "good") :
        f \in FiniteFiles, g \in Files(UploadNames, Singles, 1)} \cup
    {Body(library, <<f, g>>, "good") : f, g \in Files(UploadNames, Singles, 1)} \cup
    {Body(entry, <<f, g, h>>, "good") :
        f \in Files({entry}, Pairs, 1),
        g \in Files({helper, library}, {<<>>, <<entry>>, <<helper>>}, 1),
        h \in Files({helper, library}, {<<>>, <<entry>>}, 2) \cup
              Files({detour, rooted}, {<<>>}, 2)}

Odd ==
    {Body(entry, <<[File(entry, <<>>, 1) EXCEPT !.valid = v, !.size = n]>>, r) :
        v \in BOOLEAN, n \in {1, 4, 5}, r \in RecaptchaOutcomes} \cup
    {Body(entry, [i \in 1..n |-> File(entry, <<>>, 1)], "good") : n \in 0..4}

MCUploads == WellFormed \cup Odd
=============================================================================
