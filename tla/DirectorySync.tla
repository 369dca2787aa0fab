--------------------------- MODULE DirectorySync ---------------------------
(***************************************************************************)
(* TransferService.#sync of src/core/transfer-service.ts: one local        *)
(* directory is scanned, its files are staged one after the other, and a   *)
(* staged file is uploaded unless the remote one is the same.  The local   *)
(* files may change, vanish or become links at any time; the caller may    *)
(* abort.  The upload of one file is RemoteUpload's and one step here.     *)
(*                                                                         *)
(* A path is a sequence of characters relative to the directory, and so is *)
(* an exclusion pattern.                                                   *)
(***************************************************************************)
EXTENDS Integers, Sequences, FiniteSets

CONSTANTS Chars,                \* the characters of a path or a pattern
          Files, Dirs,          \* the paths of the local tree
          Contents,             \* what a file may hold: [size, id], id a string
          Patterns,             \* exclusion patterns a caller may give; <<>> for none
          MaxFiles, MaxFileBytes, MaxTotalBytes,   \* the target's quotas
          MaxTokens,            \* MAX_TOTAL_EXCLUDE_TOKENS
          MaxChanges, MaxFaults

VARIABLES params,       \* [dryRun, verifyExisting, overwrite]
          exclude,      \* params.exclude: one pattern, or none
          local,        \* the content of each file, Gone or Link
          remote,       \* the content of each file on the target, or Gone
          remoteDirs,   \* the directories on the target
          phase,        \* "new", "scan", "files", "staged", "upload", "done" or "failed"
          todo,         \* the entries of opened directories that are still to be read
          files,        \* what the scan has listed
          totalBytes,   \* what the scan has counted
          stagedBytes, staged,   \* the bytes staged so far, the file and content staged now
          spool,        \* the staged copies that exist
          uploaded, skipped,
          aborted, changes, faults,
          before, had   \* remote at the start, what each file has held since (for the properties)

vars == <<params, exclude, local, remote, remoteDirs, phase, todo, files, totalBytes, stagedBytes, staged, spool,
          uploaded, skipped, aborted, changes, faults, before, had>>

Gone == [size |-> 0, id |-> "gone"]
Link == [size |-> 0, id |-> "link"]
NoFile == [file |-> <<>>, content |-> Gone]
Params == [dryRun : BOOLEAN, verifyExisting : BOOLEAN, overwrite : BOOLEAN]

Init == /\ params \in Params /\ exclude \in Patterns
        /\ local \in [Files -> Contents \cup {Link}]
        /\ remote \in [Files -> Contents \cup {Gone}]
        /\ remoteDirs = {d \in Dirs : \E f \in Files : remote[f] # Gone /\ \E n \in DOMAIN f : SubSeq(f, 1, n) = d}
        /\ phase = "new" /\ todo = {} /\ files = {} /\ totalBytes = 0
        /\ stagedBytes = 0 /\ staged = NoFile /\ spool = {}
        /\ uploaded = {} /\ skipped = {}
        /\ aborted = FALSE /\ changes = 0 /\ faults = 0
        /\ before = remote /\ had = [f \in Files |-> {local[f]}]

TypeOK == /\ phase \in {"new", "scan", "files", "staged", "upload", "done", "failed"}
          /\ todo \subseteq Files \cup Dirs /\ files \subseteq Files
          /\ uploaded \cup skipped \subseteq files
          /\ remote \in [Files -> Contents \cup {Gone}]

----------------------------------------------------------------------------
(* Exclusion patterns.                                                     *)
Wild == {"*", "**"}

\* compileExcludePattern: a run of two stars or more is one token.
Tokens(pattern) ==
    LET tokens[n \in 0..Len(pattern)] ==
            IF n = 0 THEN <<>>
            ELSE IF pattern[n] = "*" /\ n > 1 /\ pattern[n - 1] = "*"
            THEN [tokens[n - 1] EXCEPT ![Len(tokens[n - 1])] = "**"]
            ELSE Append(tokens[n - 1], pattern[n])
    IN tokens[Len(pattern)]
\* compileExcludePatterns: an absolute pattern or too many tokens are refused.
Compiles(pattern) == pattern # <<>> => pattern[1] # "/" /\ Len(Tokens(pattern)) <= MaxTokens

\* expandGlobEpsilon: a wildcard may match nothing.
ExpandGlobEpsilon(states, tokens) ==
    states \cup {j \in 1..Len(tokens) : \E i \in states : i < j /\ \A k \in i + 1 .. j : tokens[k] \in Wild}

Step(states, c, tokens) ==
    LET active == {i \in states : i < Len(tokens)}
        over == {i \in active : tokens[i + 1] = c \/ (tokens[i + 1] = "?" /\ c # "/")}
        within == {i \in active : tokens[i + 1] = "**" \/ (tokens[i + 1] = "*" /\ c # "/")}
    IN ExpandGlobEpsilon({i + 1 : i \in over} \cup within, tokens)

\* globMatchesPathOrDescendant: the automaton accepts the path or the directory it is in.
GlobMatches(tokens, path) ==
    LET states[n \in 0..Len(path)] == IF n = 0 THEN ExpandGlobEpsilon({0}, tokens)
                                      ELSE Step(states[n - 1], path[n], tokens)
    IN \E n \in 0..Len(path) : Len(tokens) \in states[n] /\ (n < Len(path) => path[n + 1] = "/")
Excluded(path) == exclude # <<>> /\ GlobMatches(Tokens(exclude), path)

----------------------------------------------------------------------------
(* The tree.                                                               *)
Above(path) == {SubSeq(path, 1, n - 1) : n \in {n \in DOMAIN path : path[n] = "/"}}
Parent(path) == CHOOSE d \in Above(path) \cup {<<>>} : \A e \in Above(path) : Len(e) <= Len(d)
Children(dir) == {e \in Files \cup Dirs : Parent(e) = dir}

\* A tree, whose directories are read like everything else, and quotas.  "**" is a token, no character.
TreeAssumption ==
    /\ Files \cup Dirs \cup Patterns \subseteq Seq(Chars) /\ "**" \notin Chars
    /\ IsFiniteSet(Files) /\ Files \cap Dirs = {} /\ <<>> \notin Files \cup Dirs
    /\ \A e \in Files \cup Dirs : Above(e) \subseteq Dirs
    /\ \A c \in Contents : c.size \in Nat
    /\ MaxFiles \in Nat /\ MaxFileBytes \in Nat /\ MaxTotalBytes \in Nat

Fail == phase' = "failed"

\* #sync: the patterns are compiled and the directory is opened.
Begin == /\ phase = "new"
         /\ IF Compiles(exclude) /\ ~aborted THEN phase' = "scan" /\ todo' = Children(<<>>)
            ELSE Fail /\ UNCHANGED todo
         /\ UNCHANGED <<params, exclude, local, remote, remoteDirs, files, totalBytes, stagedBytes, staged, spool,
                        uploaded, skipped, aborted, changes, faults, before, had>>

\* enumerateFiles: one entry, in the order the directory gives them.
OverScanQuota(size) == \/ size > MaxFileBytes \/ size > MaxTotalBytes
                       \/ Cardinality(files) >= MaxFiles \/ totalBytes > MaxTotalBytes - size
Visit(e) ==
    /\ phase = "scan" /\ e \in todo
    /\ \/ aborted /\ Fail /\ UNCHANGED <<todo, files, totalBytes>>
       \/ /\ ~aborted /\ Excluded(e)
          /\ todo' = todo \ {e}
          /\ UNCHANGED <<phase, files, totalBytes>>
       \/ /\ ~aborted /\ ~Excluded(e) /\ e \in Dirs
          /\ todo' = (todo \ {e}) \cup Children(e)
          /\ UNCHANGED <<phase, files, totalBytes>>
       \/ /\ ~aborted /\ ~Excluded(e) /\ e \in Files
          /\ IF local[e] \in {Gone, Link} \/ OverScanQuota(local[e].size)
             THEN Fail /\ UNCHANGED <<todo, files, totalBytes>>
             ELSE /\ todo' = todo \ {e}
                  /\ files' = files \cup {e}
                  /\ totalBytes' = totalBytes + local[e].size
                  /\ UNCHANGED phase
    /\ UNCHANGED <<params, exclude, local, remote, remoteDirs, stagedBytes, staged, spool, uploaded, skipped, aborted,
                   changes, faults, before, had>>

\* The scan has read everything; a dry run ends here.
Scanned == /\ phase = "scan" /\ todo = {}
           /\ phase' = IF aborted THEN "failed" ELSE IF params.dryRun THEN "done" ELSE "files"
           /\ UNCHANGED <<params, exclude, local, remote, remoteDirs, todo, files, totalBytes, stagedBytes, staged,
                          spool, uploaded, skipped, aborted, changes, faults, before, had>>

\* stageLocalSource: a copy of the file as it is now; one that changes meanwhile or is no regular file fails.
Stage(f) == /\ phase = "files" /\ f \in files \ (uploaded \cup skipped)
            /\ \/ /\ aborted \/ local[f] \in {Gone, Link}
                  /\ Fail
                  /\ UNCHANGED <<staged, spool>>
               \/ /\ ~aborted /\ local[f] \notin {Gone, Link}
                  /\ staged' = [file |-> f, content |-> local[f]]
                  /\ spool' = spool \cup {f}
                  /\ phase' = "staged"
            /\ UNCHANGED <<params, exclude, local, remote, remoteDirs, todo, files, totalBytes, stagedBytes, uploaded,
                           skipped, aborted, changes, faults, before, had>>

\* finally: the staged copy is removed, and a failure to is not reported.
Unstage == /\ staged' = NoFile
           /\ \/ spool' = spool \ {staged.file} /\ UNCHANGED faults
              \/ UNCHANGED spool /\ faults < MaxFaults /\ faults' = faults + 1

\* Mutant: the total is left to the scan.
OverStagedFileQuota(size) == size > MaxFileBytes \/ size > MaxTotalBytes

\* The quotas are applied again to what was staged, and the remote file is compared with it.
OverStagedQuota(size) == size > MaxFileBytes \/ size > MaxTotalBytes \/ stagedBytes > MaxTotalBytes - size
Check == /\ phase = "staged"
         /\ \/ /\ OverStagedQuota(staged.content.size)
               /\ Fail
               /\ Unstage
               /\ UNCHANGED <<stagedBytes, skipped>>
            \/ /\ ~OverStagedQuota(staged.content.size)
               /\ stagedBytes' = stagedBytes + staged.content.size
               /\ IF params.verifyExisting /\ remote[staged.file] = staged.content
                  THEN phase' = "files" /\ skipped' = skipped \cup {staged.file} /\ Unstage
                  ELSE phase' = "upload" /\ UNCHANGED <<skipped, staged, spool, faults>>
         /\ UNCHANGED <<params, exclude, local, remote, remoteDirs, todo, files, totalBytes, uploaded, aborted, changes,
                        before, had>>

\* #uploadFile: nothing is overwritten unasked; ensureRemoteParents makes every directory above the file, whose
\* failures it ignores until the upload itself fails.
Upload == /\ phase = "upload"
          /\ \/ /\ aborted \/ (~params.overwrite /\ remote[staged.file] # Gone)
                /\ Fail
                /\ UNCHANGED <<remote, remoteDirs, uploaded>>
             \/ /\ ~aborted /\ (params.overwrite \/ remote[staged.file] = Gone)
                /\ remoteDirs' = remoteDirs \cup Above(staged.file)
                /\ \/ /\ remote' = [remote EXCEPT ![staged.file] = staged.content]
                      /\ uploaded' = uploaded \cup {staged.file}
                      /\ phase' = "files"
                   \/ Fail /\ UNCHANGED <<remote, uploaded>>
          /\ Unstage
          /\ UNCHANGED <<params, exclude, local, todo, files, totalBytes, stagedBytes, skipped, aborted, changes,
                         before, had>>

Synced == /\ phase = "files" /\ files = uploaded \cup skipped
          /\ phase' = "done"
          /\ UNCHANGED <<params, exclude, local, remote, remoteDirs, todo, files, totalBytes, stagedBytes, staged, spool,
                         uploaded, skipped, aborted, changes, faults, before, had>>

----------------------------------------------------------------------------
(* The surroundings.                                                       *)
Abort == /\ ~aborted /\ phase \notin {"done", "failed"} /\ aborted' = TRUE
         /\ UNCHANGED <<params, exclude, local, remote, remoteDirs, phase, todo, files, totalBytes, stagedBytes, staged,
                        spool, uploaded, skipped, changes, faults, before, had>>
LocalChanges(f) == /\ changes < MaxChanges /\ phase \notin {"new", "done", "failed"}
                   /\ \E c \in (Contents \cup {Gone, Link}) \ {local[f]} :
                        local' = [local EXCEPT ![f] = c] /\ had' = [had EXCEPT ![f] = @ \cup {c}]
                   /\ changes' = changes + 1
                   /\ UNCHANGED <<params, exclude, remote, remoteDirs, phase, todo, files, totalBytes, stagedBytes,
                                  staged, spool, uploaded, skipped, aborted, faults, before>>

Next == \/ Begin \/ Scanned \/ Check \/ Upload \/ Synced \/ Abort
        \/ \E e \in Files \cup Dirs : Visit(e)
        \/ \E f \in Files : Stage(f) \/ LocalChanges(f)

Spec == Init /\ [][Next]_vars

----------------------------------------------------------------------------
(* What a pattern means, of one path: some cut of the path gives every     *)
(* character of the pattern its part, and what is left is below it.        *)
Fits(pattern, i, part) ==
    CASE pattern[i] = "*" -> \/ \A k \in DOMAIN part : part[k] # "/"
                             \/ \E j \in {i - 1, i + 1} \cap DOMAIN pattern : pattern[j] = "*"
      [] pattern[i] = "?" -> Len(part) = 1 /\ part # <<"/">>
      [] OTHER -> part = <<pattern[i]>>
Covers(pattern, path) ==
    /\ pattern # <<>>
    /\ \E cut \in [0..Len(pattern) -> 0..Len(path)] :
         /\ cut[0] = 0
         /\ \A i \in DOMAIN pattern :
              cut[i - 1] <= cut[i] /\ Fits(pattern, i, SubSeq(path, cut[i - 1] + 1, cut[i]))
         /\ cut[Len(pattern)] < Len(path) => path[cut[Len(pattern)] + 1] = "/"

(***************************************************************************)
(* A sync that succeeds has considered exactly the files that no pattern   *)
(* covers, and every one of them is on the target as it was at some time   *)
(* of the sync.                                                            *)
(***************************************************************************)
SyncComplete ==
    phase = "done" =>
        /\ files = {f \in Files : ~Covers(exclude, f)}
        /\ ~params.dryRun => \A f \in files : remote[f] \in had[f]

\* Every byte that was uploaded, as a file and a place in it.
BytesOf(f) == {f} \X (1..remote[f].size)
UploadedBytes == UNION {BytesOf(f) : f \in uploaded}

(***************************************************************************)
(* Whatever happens to the local files after they were counted, what is    *)
(* uploaded stays within the quotas, nothing outside the list and nothing  *)
(* in a dry run changes on the target, nothing is overwritten unasked, and *)
(* an uploaded file has its directories.                                   *)
(***************************************************************************)
SyncBounded ==
    /\ Cardinality(uploaded) <= MaxFiles
    /\ \A f \in uploaded : remote[f].size <= MaxFileBytes
    /\ Cardinality(UploadedBytes) <= MaxTotalBytes
    /\ \A f \in Files : remote[f] # before[f] =>
         f \in files /\ ~params.dryRun /\ (params.overwrite \/ before[f] = Gone)
    /\ \A f \in uploaded : Above(f) \subseteq remoteDirs

\* Without a fault no staged copy outlives its sync.
NothingStaged == phase \in {"done", "failed"} /\ faults = 0 => spool = {}
============================================================================
