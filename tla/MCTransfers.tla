---------------------------- MODULE MCTransfers ----------------------------
(***************************************************************************)
(* Bytes on their way, side by side: downloads of one remote file, uploads *)
(* to one remote path, the sync of a directory, the supervised process     *)
(* that carries an SFTP batch or a command, and the paging of what it      *)
(* printed.  They share no state, so a behaviour is one of the part that   *)
(* `under` names; the others stay in one of their initial states.          *)
(***************************************************************************)
EXTENDS DownloadSpool

CONSTANTS Uploads, Contents, Isolated, UploadFaults,
          TextBytes, TextLimits, LogLimit,  \* TextPaging's bounds
          SyncChars, SyncFiles, SyncDirs, SyncContents, SyncPatterns,   \* what DirectorySync reads,
          SyncMaxFiles, SyncMaxFileBytes, SyncMaxTotalBytes, SyncMaxTokens, SyncChanges, SyncFaults

\* A page has at least one byte (limit is an integer of at least 1 in shared/protocol.ts).
ASSUME TransfersAssumption ==
    /\ Isolated \in BOOLEAN /\ UploadFaults \in Nat
    /\ TextBytes \in Nat /\ TextLimits \subseteq Nat \ {0} /\ LogLimit \in Nat

VARIABLES under,
          shared, uParams, uPc, uPart, dest, data, handle, pos, uResumed, uFaults,
          pMode, pPayload, pWatched, pPhase, pReason, pRoot, pTree, pTerm, pAgain, pAborted, pAsked, pBroken,
          pResult, pInTime,
          tBytes, tReader, tLimit, tTotal, tStartOffset, tTerminal, tAsked, tPage,
          sParams, sExclude, sLocal, sRemote, sRemoteDirs, sPhase, sTodo, sFiles, sTotalBytes, sStagedBytes, sStaged,
          sSpool, sUploaded, sSkipped, sAborted, sChanges, sFaults, sBefore, sHad

Upload == INSTANCE RemoteUpload WITH
    MaxFaults <- UploadFaults, params <- uParams, pc <- uPc, part <- uPart, resumed <- uResumed, faults <- uFaults

Process == INSTANCE ManagedProcess WITH
    mode <- pMode, payload <- pPayload, watched <- pWatched, phase <- pPhase, reason <- pReason, root <- pRoot,
    tree <- pTree, term <- pTerm, again <- pAgain, aborted <- pAborted, asked <- pAsked, broken <- pBroken,
    result <- pResult, inTime <- pInTime

Text == INSTANCE TextPaging WITH
    MaxBytes <- TextBytes, Limits <- TextLimits,
    bytes <- tBytes, reader <- tReader, limit <- tLimit, total <- tTotal, startOffset <- tStartOffset,
    terminal <- tTerminal, asked <- tAsked, page <- tPage

Sync == INSTANCE DirectorySync WITH
    Chars <- SyncChars, Files <- SyncFiles, Dirs <- SyncDirs, Contents <- SyncContents, Patterns <- SyncPatterns,
    MaxFiles <- SyncMaxFiles, MaxFileBytes <- SyncMaxFileBytes, MaxTotalBytes <- SyncMaxTotalBytes,
    MaxTokens <- SyncMaxTokens, MaxChanges <- SyncChanges, MaxFaults <- SyncFaults,
    params <- sParams, exclude <- sExclude, local <- sLocal, remote <- sRemote, remoteDirs <- sRemoteDirs,
    phase <- sPhase, todo <- sTodo, files <- sFiles, totalBytes <- sTotalBytes, stagedBytes <- sStagedBytes,
    staged <- sStaged, spool <- sSpool, uploaded <- sUploaded, skipped <- sSkipped, aborted <- sAborted,
    changes <- sChanges, faults <- sFaults, before <- sBefore, had <- sHad

ASSUME SyncAssumption == Sync!TreeAssumption

\* The tree that the sync is checked on: a directory and files whose names share a prefix with its own.
TreeChars == {"a", "b", "/", "*", "?"}
TreeFiles == {<<"b">>, <<"a", "/", "b">>, <<"a", "/", "a">>, <<"a", "a">>}
TreeDirs == {<<"a">>}
TreeContents == {[size |-> 1, id |-> "first"], [size |-> 1, id |-> "other"], [size |-> 2, id |-> "longer"]}
TreePatterns == UNION {[1..n -> {"a", "/", "*", "?"}] : n \in 0..3}
FewPatterns == {<<>>, <<"a">>, <<"a", "a">>}

uploadVars == <<shared, uParams, uPc, uPart, dest, data, handle, pos, uResumed, uFaults>>
processVars == <<pMode, pPayload, pWatched, pPhase, pReason, pRoot, pTree, pTerm, pAgain, pAborted, pAsked, pBroken,
                 pResult, pInTime>>
textVars == <<tBytes, tReader, tLimit, tTotal, tStartOffset, tTerminal, tAsked, tPage>>
syncVars == <<sParams, sExclude, sLocal, sRemote, sRemoteDirs, sPhase, sTodo, sFiles, sTotalBytes, sStagedBytes,
              sStaged, sSpool, sUploaded, sSkipped, sAborted, sChanges, sFaults, sBefore, sHad>>
allVars == <<under, vars, uploadVars, processVars, textVars, syncVars>>

\* A sync that uploads starts from equal local files, with remote ones that are equal to them or missing; any other
\* pattern than a few is only scanned with.
SyncInit == /\ sLocal = [f \in SyncFiles |-> [size |-> 1, id |-> "first"]]
            /\ \E c \in {[size |-> 1, id |-> "first"], Sync!Gone} : sRemote = [f \in SyncFiles |-> c]
            /\ under # "sync" => sExclude = <<>> /\ sRemote = sLocal
            /\ Sync!Init
            /\ under # "sync" \/ sExclude \notin FewPatterns =>
                 sParams = [dryRun |-> TRUE, verifyExisting |-> TRUE, overwrite |-> TRUE]

AllInit ==
    /\ under \in {"download", "upload", "process", "text", "sync"}
    /\ under # "download" =>
         /\ remote = CHOOSE v \in Versions : TRUE
         /\ local = Missing
         /\ params = [d \in Downloads |-> [overwrite |-> TRUE, resume |-> TRUE]]
    /\ Init
    /\ under # "upload" =>
         /\ shared = FALSE
         /\ data = <<>>
         /\ uParams = [u \in Uploads |-> [content |-> CHOOSE c \in Contents : TRUE,
                                          overwrite |-> TRUE, resume |-> TRUE]]
    /\ Upload!Init
    /\ under # "process" => pMode = Process!Unsafe /\ pPayload = TRUE /\ pWatched = TRUE
    /\ Process!Init
    /\ under # "text" => tBytes = <<>> /\ tReader = "ui" /\ tLimit = CHOOSE n \in TextLimits : TRUE
    /\ Text!Init
    /\ SyncInit

AllNext ==
    \/ under = "download" /\ Next /\ UNCHANGED <<under, uploadVars, processVars, textVars, syncVars>>
    \/ under = "upload" /\ Upload!Next /\ UNCHANGED <<under, vars, processVars, textVars, syncVars>>
    \/ under = "process" /\ Process!Next /\ UNCHANGED <<under, vars, uploadVars, textVars, syncVars>>
    \/ under = "text" /\ Text!Next /\ UNCHANGED <<under, vars, uploadVars, processVars, syncVars>>
    \/ /\ under = "sync" /\ Sync!Next
       /\ sExclude \in FewPatterns \/ sChanges' = sChanges
       /\ UNCHANGED <<under, vars, uploadVars, processVars, textVars>>

AllSpec == AllInit /\ [][AllNext]_allVars

----------------------------------------------------------------------------
(* The properties of the parts.                                            *)

\* Neither end ever shows a file that is not whole: the local path (LocalIntact) and the
\* remote destination (RemoteUpload!PublishedIntact) hold nothing, what was there before
\* or one complete, verified content.
OnlyWholeFiles == LocalIntact /\ Upload!PublishedIntact

\* No lock, metadata, partial file or staged copy is forgotten: the spool is exactly what
\* its downloads hold or can resume (SpoolExact), and without a fault an upload leaves a
\* partial file only to be resumed (RemoteUpload!NothingLeft) and a sync leaves nothing
\* staged (DirectorySync!NothingStaged).
NothingForgotten == SpoolExact /\ Upload!NothingLeft /\ Sync!NothingStaged

\* A transfer that may not overwrite never touches a file that exists when it acts,
\* however long ago it looked (ExclusiveLocal, RemoteUpload!ExclusiveKept).
NothingOverwritten == ExclusiveLocal /\ Upload!ExclusiveKept

\* A supervised process that was aborted in time is reported so, and none of its tree
\* outlives its run (ManagedProcess!NoProcessLeft, ManagedProcess!AbortHeard).
ProcessEndsAsReported == Process!NoProcessLeft /\ Process!AbortHeard

\* The pages of a text are the text, with no gap, no repetition, no standstill and no
\* character taken apart (TextPaging!PagesJoin, TextPaging!CharactersWhole).
PagesAreTheText == Text!PagesJoin /\ Text!CharactersWhole

\* A sync transfers the files that no pattern covers, as they are when it comes to them,
\* and keeps to its quotas even if they grow (DirectorySync!SyncComplete, !SyncBounded).
SyncAsAsked == Sync!SyncComplete /\ Sync!SyncBounded
============================================================================
