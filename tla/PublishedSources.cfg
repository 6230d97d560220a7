SPECIFICATION FairFilesSpec
CONSTANTS
    entry = entry
    helper = helper
    library = library
    detour = detour
    rooted = rooted
    result = result
    FileNames <- MCFileNames
    DefaultIncludes = {library}
    Uploads <- MCUploads
    RecaptchaRequired = TRUE
    CountLimit = 3
    SizeLimit = 4
    Locations = {entry, helper, library, rooted, result}
    Inside = {entry, helper, library, result}
    ResultFile = result
    LocationOf <- MCLocationOf
    Leftovers <- MCLeftovers
    EarlierWrites <- MCEarlierWrites
INVARIANTS
    TypeOK
    TraversalInv
    KeptIsEntryTree
    FilesTypeOK
    DirectoryInv
    ReadersGetWhatWasCompiled
    NothingCompiledIsHidden
    EntryFileIsFlagged
PROPERTIES
    PostIsAnswered
CHECK_DEADLOCK FALSE
