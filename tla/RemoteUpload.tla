---------------------------- MODULE RemoteUpload ----------------------------
(***************************************************************************)
(* Uploads to one path of one target (TransferService#uploadFile and       *)
(* #uploadFileThroughSharedShell in src/core/transfer-service.ts).  Every  *)
(* remote command is awaited, so the commands of two uploads interleave.   *)
(* The staged local copy is private and its content is its SHA-256; the    *)
(* remote staging path carries that hash.  A remote file is an inode: SFTP *)
(* writes through a handle, which follows the file when it is renamed or   *)
(* linked, and the shared shell appends to whatever the path names.        *)
(***************************************************************************)
EXTENDS Naturals, Sequences

CONSTANTS
    Uploads,                \* the uploads the callers ask for
    Contents,               \* the contents their local files may have
    Size,                   \* chunks in a file
    Isolated,               \* TRUE: the callers and the link spare the staging path
                            \* the two races described at Begin and at Cut
    MaxFaults               \* bound: commands that fail, are cut off or unanswered

VARIABLES
    shared,                 \* connectionMode is "accessclient-share"
    params,                 \* params[u]: content, overwrite and resume of the request
    pc,                     \* pc[u]: the remote command the upload is about to run
    part,                   \* part[c]: the inode at the staging path of content c, or 0
    dest,                   \* the inode at the destination path, or 0
    data,                   \* data[i]: the chunks inode i holds
    handle,                 \* handle[u]: the inode an SFTP put writes to, or 0
    pos,                    \* pos[u]: chunks sent so far
    resumed,                \* the uploads that found a partial file to continue
    faults

files == <<part, dest, data>>
vars == <<shared, params, pc, files, handle, pos, resumed, faults>>

\* The fields of the request that steer an upload; the content stands for the SHA-256.
Params == [content : Contents, overwrite : BOOLEAN, resume : BOOLEAN]
Ended == {"done", "failed"}
Active == {u \in Uploads : pc[u] \notin Ended \cup {"new"}}

OldFile == << <<"old", 1>> >>
Full(c) == [k \in 1..Size |-> <<c, k>>]

\* partPath: the staging path carries the hash of the content.
Staged(u) == part[params[u].content]

\* f with chunk x at place k, past its end if need be.
PutAt(f, k, x) ==
    [j \in 1..(IF Len(f) < k THEN k ELSE Len(f)) |->
       IF j = k THEN x ELSE IF j <= Len(f) THEN f[j] ELSE <<"hole", j>>]

\* What an earlier upload of content c may have left at its staging path: a prefix,
\* a chunk appended twice, or a hole where another upload truncated the file.
Leftovers(c) ==
    {SubSeq(Full(c), 1, n) : n \in 0..Size}
      \cup {Append(Full(c), <<c, Size>>), PutAt(<<>>, Size, <<c, Size>>)}

Init ==
    /\ shared \in BOOLEAN
    /\ params \in [Uploads -> Params]
    /\ pc = [u \in Uploads |-> "new"]
    /\ \E before \in {<<>>, <<OldFile>>} :
         /\ dest = Len(before)
         /\ \/ data = before /\ part = [c \in Contents |-> 0]
            \/ \E c \in Contents : \E f \in Leftovers(c) :
                 /\ data = Append(before, f)
                 /\ part = [d \in Contents |-> IF d = c THEN Len(before) + 1 ELSE 0]
    /\ handle = [u \in Uploads |-> 0]
    /\ pos = [u \in Uploads |-> 0]
    /\ resumed = {}
    /\ faults = 0

----------------------------------------------------------------------------
(* Outcomes of a remote command                                            *)

BeforeTry == {"check", "resume", "trim"}

\* Mutant: the partial file of a failed upload is kept whatever the request says.
OnErrorKept(u) == "failed"

\* Where an error leads.  The catch block removes the partial file of an upload that
\* is not to be resumed; publishRemoteExclusive removes it in any case.
OnError(u) ==
    IF pc[u] \in {"publish", "unlink"} /\ ~params[u].overwrite THEN "discard"
    ELSE IF pc[u] \in BeforeTry \cup {"cleanup"} \/ params[u].resume THEN "failed"
    ELSE "cleanup"

\* A fault: the command fails, or the task is aborted and nothing is cleaned up.
Fault(u) ==
    /\ faults < MaxFaults
    /\ faults' = faults + 1
    /\ pc' \in {[pc EXCEPT ![u] = OnError(u)], [pc EXCEPT ![u] = "failed"]}

\* The command has run; its answer arrives or is lost.
Ran(u, next) ==
    \/ pc' = [pc EXCEPT ![u] = next] /\ faults' = faults
    \/ Fault(u)

\* The command ran and reported an error.
Refused(u) ==
    /\ pc' = [pc EXCEPT ![u] = OnError(u)]
    /\ faults' = faults

----------------------------------------------------------------------------
(* Up to the first byte                                                    *)

\* The first command that sends bytes.
Send == IF shared THEN "write" ELSE "open"

\* Nothing in the code keeps two uploads of one content from sharing the staging
\* path: the callers do, when Isolated.
Begin(u) ==
    /\ pc[u] = "new"
    /\ Isolated => \A v \in Active : params[v].content # params[u].content
    /\ pc' = [pc EXCEPT ![u] = "check"]
    /\ UNCHANGED <<shared, params, files, handle, pos, resumed, faults>>

\* assertRemoteUploadPathsSafe, the test of the destination, ensureRemoteParents.
CheckDestination(u) ==
    /\ pc[u] = "check"
    /\ IF dest # 0 /\ ~params[u].overwrite
         THEN Refused(u)
         ELSE Ran(u, IF params[u].resume THEN "resume" ELSE Send)
    /\ UNCHANGED <<shared, params, files, handle, pos, resumed>>

\* SFTP asks whether a partial file exists, the shared shell how long it is.
FindPartial(u) ==
    /\ pc[u] = "resume"
    /\ \/ /\ Staged(u) = 0
          /\ Ran(u, Send)
          /\ UNCHANGED <<pos, resumed>>
       \/ /\ Staged(u) # 0 /\ ~shared
          /\ Ran(u, Send)
          /\ resumed' = resumed \cup {u}
          /\ UNCHANGED pos
       \/ /\ Staged(u) # 0 /\ shared
          /\ LET n == Len(data[Staged(u)]) IN
             IF n <= Size
               THEN /\ Ran(u, IF n = Size THEN "verify" ELSE "write")
                    /\ pos' = [pos EXCEPT ![u] = n]
                    /\ resumed' = resumed \cup {u}
               ELSE /\ Ran(u, "trim")
                    /\ UNCHANGED <<pos, resumed>>
    /\ UNCHANGED <<shared, params, files, handle>>

----------------------------------------------------------------------------
(* Sending                                                                 *)

\* data once the staging path of u holds s: the file it names is rewritten, or a new
\* one is created there.
Rewrite(u, s) ==
    IF Staged(u) = 0
      THEN /\ data' = Append(data, s)
           /\ part' = [part EXCEPT ![params[u].content] = Len(data) + 1]
      ELSE /\ data' = [data EXCEPT ![Staged(u)] = s]
           /\ part' = part

\* SFTP opens the staging path: put truncates it, reput continues at its end, and
\* may refuse a file that is complete already.
Open(u) ==
    /\ pc[u] = "open"
    /\ \/ /\ u \notin resumed
          /\ Rewrite(u, <<>>)
          /\ handle' = [handle EXCEPT ![u] = part'[params[u].content]]
          /\ pos' = [pos EXCEPT ![u] = 0]
          /\ Ran(u, "write")
       \/ /\ u \in resumed
          /\ Staged(u) # 0 => Len(data[Staged(u)]) >= Size
          /\ Refused(u)
          /\ UNCHANGED <<part, data, handle, pos>>
       \/ /\ u \in resumed /\ Staged(u) # 0
          /\ handle' = [handle EXCEPT ![u] = Staged(u)]
          /\ pos' = [pos EXCEPT ![u] = Len(data[Staged(u)])]
          /\ Ran(u, IF Len(data[Staged(u)]) >= Size THEN "verify" ELSE "write")
          /\ UNCHANGED <<part, data>>
    /\ UNCHANGED <<shared, params, dest, resumed>>

\* One chunk: at its offset through the SFTP handle; through the shared shell by
\* truncating the file for the first and appending to it, if it exists, for the rest.
WriteChunk(u) ==
    LET k == pos[u] + 1
        chunk == <<params[u].content, k>>
    IN /\ pc[u] = "write"
       /\ IF shared /\ k > 1 /\ Staged(u) = 0
            THEN Refused(u) /\ UNCHANGED <<part, data, pos>>
            ELSE /\ \/ /\ ~shared
                       /\ data' = [data EXCEPT ![handle[u]] = PutAt(@, k, chunk)]
                       /\ part' = part
                    \/ /\ shared
                       /\ Rewrite(u, IF k = 1 THEN <<chunk>>
                                     ELSE Append(data[Staged(u)], chunk))
                 /\ pos' = [pos EXCEPT ![u] = k]
                 /\ Ran(u, IF k = Size THEN "verify" ELSE "write")
       /\ UNCHANGED <<shared, params, dest, handle, resumed>>

----------------------------------------------------------------------------
(* Verifying, publishing, removing                                         *)

\* fingerprintsMatch on the partial file, which may be missing.
Matches(u) == Staged(u) # 0 /\ data[Staged(u)] = Full(params[u].content)

\* A continued file that does not match is sent once more from the start.
Verify(u) ==
    /\ pc[u] = "verify"
    /\ Ran(u, IF Matches(u) THEN "publish"
              ELSE IF u \in resumed THEN "retry" ELSE "discard")
    /\ UNCHANGED <<shared, params, files, handle, pos, resumed>>

\* removeRemotePartial and removeFile.  The second transfer is not a resumed one.
Remove(u) ==
    /\ pc[u] \in {"trim", "retry", "discard", "cleanup"}
    /\ part' = [part EXCEPT ![params[u].content] = 0]
    /\ Ran(u, IF pc[u] \in {"trim", "retry"} THEN Send ELSE OnError(u))
    /\ pos' = IF pc[u] \in {"trim", "retry"} THEN [pos EXCEPT ![u] = 0] ELSE pos
    /\ resumed' = resumed \ {u}
    /\ UNCHANGED <<shared, params, dest, data, handle>>

\* The staging path becomes the destination.
Move(u) ==
    /\ dest' = Staged(u)
    /\ part' = [part EXCEPT ![params[u].content] = 0]

\* ln and File.Move refuse an existing destination.
MayLink(u) == Staged(u) # 0 /\ dest = 0

\* mv -f in the shared shell; rm, then rename, over SFTP; ln, then rm, to publish
\* without overwriting, which the one session of the shared shell runs as a whole.
Publish(u) ==
    /\ pc[u] = "publish"
    /\ \/ /\ params[u].overwrite /\ shared /\ Staged(u) = 0
          /\ Refused(u) /\ UNCHANGED files
       \/ /\ params[u].overwrite /\ shared /\ Staged(u) # 0
          /\ Ran(u, "done") /\ Move(u) /\ UNCHANGED data
       \/ /\ params[u].overwrite /\ ~shared
          /\ Ran(u, "rename")
          /\ dest' = 0
          /\ UNCHANGED <<part, data>>
       \/ /\ ~params[u].overwrite /\ ~MayLink(u)
          /\ Refused(u) /\ UNCHANGED files
       \/ /\ ~params[u].overwrite /\ MayLink(u) /\ shared
          /\ Ran(u, "done") /\ Move(u) /\ UNCHANGED data
       \/ /\ ~params[u].overwrite /\ MayLink(u) /\ ~shared
          /\ pc' = [pc EXCEPT ![u] = "unlink"]
          /\ dest' = Staged(u)
          /\ UNCHANGED <<part, data, faults>>
    /\ UNCHANGED <<shared, params, handle, pos, resumed>>

\* A server may let rename replace a file that appeared after the rm, or refuse.
Rename(u) ==
    /\ pc[u] = "rename"
    /\ \/ /\ Staged(u) = 0 \/ dest # 0
          /\ Refused(u) /\ UNCHANGED files
       \/ /\ Staged(u) # 0
          /\ Ran(u, "done") /\ Move(u) /\ UNCHANGED data
    /\ UNCHANGED <<shared, params, handle, pos, resumed>>

Unlink(u) ==
    /\ pc[u] = "unlink"
    /\ part' = [part EXCEPT ![params[u].content] = 0]
    /\ Ran(u, "done")
    /\ UNCHANGED <<shared, params, dest, data, handle, pos, resumed>>

\* A command that never runs: the connection is lost or the task aborted before it.
\* Isolated leaves out the loss between ln and rm, which makes the staging path a
\* second name of the published file.
Cut(u) ==
    /\ u \in Active
    /\ Isolated => pc[u] # "unlink"
    /\ Fault(u)
    /\ UNCHANGED <<shared, params, files, handle, pos, resumed>>

Step(u) ==
    \/ Begin(u) \/ CheckDestination(u) \/ FindPartial(u)
    \/ Open(u) \/ WriteChunk(u) \/ Verify(u)
    \/ Remove(u) \/ Publish(u) \/ Rename(u) \/ Unlink(u) \/ Cut(u)

Next == \E u \in Uploads : Step(u)

Spec == Init /\ [][Next]_vars

----------------------------------------------------------------------------
(* Properties                                                              *)

TypeOK ==
    /\ pc \in [Uploads -> Ended \cup BeforeTry \cup {"new", "open", "write", "verify",
                 "retry", "discard", "cleanup", "publish", "rename", "unlink"}]
    /\ part \in [Contents -> 0..Len(data)]
    /\ dest \in 0..Len(data)
    /\ handle \in [Uploads -> 0..Len(data)]
    /\ pos \in [Uploads -> 0..(Size + 1)]
    /\ faults \in 0..MaxFaults

\* SECURITY.md promises that an upload is published after it is verified: at every
\* instant the destination is missing, the file that was there before, or a whole
\* verified content, never a file that is still being written or was cut off.
PublishedIntact ==
    /\ TypeOK
    /\ dest # 0 => data[dest] \in {OldFile} \cup {Full(c) : c \in Contents}

\* An upload that was not allowed to overwrite never touches a file that exists at
\* the destination when it acts, however long ago it looked (publishRemoteExclusive).
ExclusiveKept ==
    [][\A u \in Uploads :
         /\ ~params[u].overwrite
         /\ <<pc[u], pos[u]>>' # <<pc[u], pos[u]>>
         /\ dest # 0
         => dest' = dest /\ data'[dest] = data[dest]]_vars

\* Without a fault, whatever the uploads race for, a partial file is left behind only
\* by a failed upload that was to be resumed, or was there before and never written.
NothingLeft ==
    faults = 0 /\ Active = {} =>
      \A c \in Contents : part[c] # 0 =>
        LET same == {u \in Uploads : params[u].content = c} IN
        \/ \E u \in same : pc[u] = "failed" /\ params[u].resume
        \/ \A u \in same : pos[u] = 0
=============================================================================
