\* Two downloads, two versions of the remote file, one fault and one crash anywhere; two
\* uploads with every combination of parameters, one content or two, both kinds of connection,
\* a leftover partial file and two faults; every stream of up to five bytes, in pages of one and three,
\* with a log of four; a sync of four files of one byte or two, one of which may change once.
\* Everything ends, so a behaviour may.
CONSTANTS
    Downloads = {d1, d2}
    Versions = {v1, v2}
    Size = 2
    MaxChanges = 2
    MaxFaults = 1
    MaxCrashes = 1
    Uploads = {u1, u2}
    Contents = {a, b}
    Isolated = TRUE
    UploadFaults = 2
    TextBytes = 5
    TextLimits = {1, 3}
    LogLimit = 4
    SyncChars <- TreeChars
    SyncFiles <- TreeFiles
    SyncDirs <- TreeDirs
    SyncContents <- TreeContents
    SyncPatterns <- TreePatterns
    SyncMaxFiles = 3
    SyncMaxFileBytes = 2
    SyncMaxTotalBytes = 3
    SyncMaxTokens = 2
    SyncChanges = 1
    SyncFaults = 1
SPECIFICATION AllSpec
INVARIANTS
    OnlyWholeFiles
    
    ProcessEndsAsReported
    PagesAreTheText
    SyncAsAsked
PROPERTIES
    NothingOverwritten
CHECK_DEADLOCK FALSE
