---------------------------- MODULE DownloadSpool ----------------------------
(***************************************************************************)
(* Downloads of one remote file to one local path                          *)
(* (TransferService#download and its spool in src/core/transfer-service.ts) *)
(* over restarts of the daemon.  The remote file may change at any time.   *)
(* The lock, partial and metadata files of a download are named by a hash  *)
(* of its request and of the fingerprint the remote file had when it       *)
(* began, so here by that version.                                         *)
(***************************************************************************)
EXTENDS Naturals, Sequences

CONSTANTS
    Downloads,              \* the downloads the callers ask for
    Versions,               \* contents the remote file takes
    Size,                   \* chunks in a file
    MaxChanges,             \* bound: changes of the remote file
    MaxFaults,              \* bound: file operations and commands that fail, aborts
    MaxCrashes              \* bound: crashes of the daemon

ASSUME DownloadSpoolAssumption ==
    /\ Size \in Nat \ {0}
    /\ MaxChanges \in Nat /\ MaxFaults \in Nat /\ MaxCrashes \in Nat

VARIABLES
    remote,                 \* the version the remote file has now
    local,                  \* the chunks of the file at the local path, or Missing
    spool,                  \* #spoolReady: "preparing", "ready" or "broken"
    lock,                   \* the versions whose .download.lock file exists
    part,                   \* part[v]: the chunks of the .download.part file, or Missing
    meta,                   \* meta[v]: the .download.json file: "none", "valid" or "torn"
    params,                 \* params[d]: overwrite and resume of the request
    pc,                     \* pc[d]: what the download does next
    want,                   \* want[d]: the version whose fingerprint it has read
    resumed,                \* the downloads that continue a partial file
    keep,                   \* the downloads whose preservePartial is set
    copy,                   \* copy[d]: the chunks of its private .publish file
    won,                    \* the downloads that have published
    changes, faults, crashes

files == <<local, lock, part, meta>>
progress == <<want, resumed, keep, copy, won>>
vars == <<remote, files, spool, params, pc, progress, changes, faults, crashes>>

Params == [overwrite : BOOLEAN, resume : BOOLEAN]
Ended == {"done", "failed"}
Holding == {d \in Downloads :
              pc[d] \in {"inspect", "clear", "describe", "fetch", "verify", "restart",
                         "copy", "publish", "release", "unlock"}}
Active == Holding \cup {d \in Downloads : pc[d] \in {"fingerprint", "resolve", "lock"}}

Missing == << <<"missing", 0>> >>
Mine == << <<"mine", 0>> >>
Full(v) == [k \in 1..Size |-> <<v, k>>]

Init ==
    /\ remote \in Versions
    /\ local \in {Missing, Mine}
    /\ spool = "preparing"
    /\ lock = {}
    /\ part = [v \in Versions |-> Missing]
    /\ meta = [v \in Versions |-> "none"]
    /\ params \in [Downloads -> Params]
    /\ pc = [d \in Downloads |-> "new"]
    /\ want = [d \in Downloads |-> remote]
    /\ resumed = {} /\ keep = {} /\ won = {}
    /\ copy = [d \in Downloads |-> Missing]
    /\ changes = 0 /\ faults = 0 /\ crashes = 0

Goto(d, next) == pc' = [pc EXCEPT ![d] = next]
MayFault == faults < MaxFaults /\ faults' = faults + 1

----------------------------------------------------------------------------
(* The environment and the start of the daemon                             *)

RemoteChanges ==
    /\ changes < MaxChanges
    /\ changes' = changes + 1
    /\ remote' \in Versions \ {remote}
    /\ UNCHANGED <<files, spool, params, pc, progress, faults, crashes>>

\* The daemon dies with every download; the last chunk of a file being fetched may
\* never have reached the disk.
Crash ==
    /\ crashes < MaxCrashes
    /\ crashes' = crashes + 1
    /\ spool' = "preparing"
    /\ pc' = [d \in Downloads |-> IF d \in Active THEN "failed" ELSE pc[d]]
    /\ \/ part' = part
       \/ \E d \in Downloads :
            /\ pc[d] = "fetch" /\ part[want[d]] # Missing
            /\ part' = [part EXCEPT ![want[d]][Len(part[want[d]])] = <<"torn", 0>>]
    /\ resumed' = {} /\ keep' = {}
    /\ copy' = [d \in Downloads |-> Missing]
    /\ UNCHANGED <<remote, local, lock, meta, params, want, won, changes, faults>>

\* prepareTransferSpool removes every lock file it finds.
LocksKept == {}

\* A partial file survives a restart with valid metadata, unless it has expired.
Prepare ==
    /\ spool = "preparing"
    /\ lock' = LocksKept
    /\ \E expired \in SUBSET Versions :
         LET gone == expired \cup {v \in Versions : part[v] = Missing \/ meta[v] # "valid"}
         IN /\ part' = [v \in Versions |-> IF v \in gone THEN Missing ELSE part[v]]
            /\ meta' = [v \in Versions |-> IF v \in gone THEN "none" ELSE meta[v]]
    /\ spool' = "ready"
    /\ UNCHANGED <<remote, local, params, pc, progress, changes, faults, crashes>>

\* It failed: the error is kept and every transfer until the next start throws it.
PrepareFails ==
    /\ spool = "preparing"
    /\ MayFault
    /\ spool' = "broken"
    /\ UNCHANGED <<remote, files, params, pc, progress, changes, crashes>>

----------------------------------------------------------------------------
(* Up to the lock                                                          *)

\* #requireSpool
Begin(d) ==
    /\ pc[d] = "new"
    /\ spool # "preparing"
    /\ Goto(d, IF spool = "ready" THEN "fingerprint" ELSE "failed")
    /\ UNCHANGED <<remote, files, spool, params, progress, changes, faults, crashes>>

Fingerprint(d) ==
    /\ pc[d] = "fingerprint"
    /\ want' = [want EXCEPT ![d] = remote]
    /\ Goto(d, "resolve")
    /\ UNCHANGED <<remote, files, spool, params, resumed, keep, copy, won>>
    /\ UNCHANGED <<changes, faults, crashes>>

\* The quota and the expected checksum, the destination, and the end of a dry run.
Resolve(d) ==
    /\ pc[d] = "resolve"
    /\ \/ local # Missing /\ ~params[d].overwrite /\ Goto(d, "failed")
       \/ (local = Missing \/ params[d].overwrite) /\ Goto(d, "lock")
       \/ \E e \in Ended : Goto(d, e)
    /\ UNCHANGED <<remote, files, spool, params, progress, changes, faults, crashes>>

LockFree(d) == want[d] \notin lock

\* open(lockPath, "wx")
Lock(d) ==
    /\ pc[d] = "lock"
    /\ IF LockFree(d)
         THEN lock' = lock \cup {want[d]} /\ Goto(d, "inspect")
         ELSE lock' = lock /\ Goto(d, "failed")
    /\ UNCHANGED <<remote, local, part, meta, spool, params, progress>>
    /\ UNCHANGED <<changes, faults, crashes>>

----------------------------------------------------------------------------
(* acquireDownloadSpool with the lock held                                 *)

Inspect(d) ==
    LET usable == params[d].resume /\ part[want[d]] # Missing /\ meta[want[d]] = "valid"
    IN /\ pc[d] = "inspect"
       /\ Goto(d, IF usable THEN "fetch" ELSE "clear")
       /\ resumed' = IF usable THEN resumed \cup {d} ELSE resumed
       /\ keep' = IF usable THEN keep \cup {d} ELSE keep
       /\ UNCHANGED <<remote, files, spool, params, want, copy, won>>
       /\ UNCHANGED <<changes, faults, crashes>>

\* An error while the lock is held by acquireDownloadSpool releases it.
AcquireFails(d) ==
    /\ MayFault
    /\ Goto(d, "failed")
    /\ lock' = lock \ {want[d]}

\* The partial file and its metadata are removed in parallel; a removal fails.
RemovesOne(v) ==
    \/ part' = [part EXCEPT ![v] = Missing] /\ meta' = meta
    \/ meta' = [meta EXCEPT ![v] = "none"] /\ part' = part

Clear(d) ==
    /\ pc[d] = "clear"
    /\ \/ /\ part' = [part EXCEPT ![want[d]] = Missing]
          /\ meta' = [meta EXCEPT ![want[d]] = "none"]
          /\ Goto(d, "describe")
          /\ UNCHANGED <<lock, faults>>
       \/ RemovesOne(want[d]) /\ AcquireFails(d)
    /\ UNCHANGED <<remote, local, spool, params, progress, changes, crashes>>

\* The metadata is written; from here on the download may preserve its partial file.
Describe(d) ==
    /\ pc[d] = "describe"
    /\ \/ /\ meta' = [meta EXCEPT ![want[d]] = "valid"]
          /\ Goto(d, "fetch")
          /\ keep' = IF params[d].resume THEN keep \cup {d} ELSE keep
          /\ UNCHANGED <<lock, faults>>
       \/ /\ meta' = [meta EXCEPT ![want[d]] = "torn"]
          /\ AcquireFails(d)
          /\ keep' = keep
    /\ UNCHANGED <<remote, local, part, spool, params, want, resumed, copy, won>>
    /\ UNCHANGED <<changes, crashes>>

----------------------------------------------------------------------------
(* Fetching, verifying, publishing                                         *)

\* One more chunk, of whatever the remote file is by then.
Fetch(d) ==
    LET v == want[d]
        have == IF part[v] = Missing THEN <<>> ELSE part[v]
    IN /\ pc[d] = "fetch"
       /\ IF Len(have) < Size
            THEN /\ part' = [part EXCEPT ![v] = Append(have, <<remote, Len(have) + 1>>)]
                 /\ pc' = pc
            ELSE part' = part /\ Goto(d, "verify")
       /\ UNCHANGED <<remote, local, lock, meta, spool, params, progress>>
       /\ UNCHANGED <<changes, faults, crashes>>

\* Mutant: only the size of the partial file is compared.
MatchesBySize(d) == Len(part[want[d]]) = Size

\* fingerprintsMatch
Matches(d) == part[want[d]] = Full(want[d])

\* A continued file that does not match is fetched once more from the start.
Verify(d) ==
    /\ pc[d] = "verify"
    /\ \/ Matches(d) /\ Goto(d, "copy") /\ keep' = keep
       \/ ~Matches(d) /\ d \in resumed /\ Goto(d, "restart") /\ keep' = keep
       \/ ~Matches(d) /\ d \notin resumed /\ Goto(d, "release") /\ keep' = keep \ {d}
    /\ UNCHANGED <<remote, files, spool, params, want, resumed, copy, won>>
    /\ UNCHANGED <<changes, faults, crashes>>

Restart(d) ==
    /\ pc[d] = "restart"
    /\ part' = [part EXCEPT ![want[d]] = Missing]
    /\ resumed' = resumed \ {d}
    /\ Goto(d, "fetch")
    /\ UNCHANGED <<remote, local, lock, meta, spool, params, want, keep, copy, won>>
    /\ UNCHANGED <<changes, faults, crashes>>

\* publishDownloadedFile: a private copy next to the destination, synced.
Copy(d) ==
    /\ pc[d] = "copy"
    /\ copy' = [copy EXCEPT ![d] = part[want[d]]]
    /\ Goto(d, "publish")
    /\ UNCHANGED <<remote, files, spool, params, want, resumed, keep, won>>
    /\ UNCHANGED <<changes, faults, crashes>>

\* Mutant: link() is replaced by a rename, which overwrites.
MayPublishAlways(d) == TRUE

\* rename() replaces the destination, link() fails when there is one.
MayPublish(d) == params[d].overwrite \/ local = Missing

Publish(d) ==
    /\ pc[d] = "publish"
    /\ IF MayPublish(d)
         THEN local' = copy[d] /\ won' = won \cup {d} /\ keep' = keep \ {d}
         ELSE UNCHANGED <<local, won, keep>>
    /\ copy' = [copy EXCEPT ![d] = Missing]
    /\ Goto(d, "release")
    /\ UNCHANGED <<remote, lock, part, meta, spool, params, want, resumed>>
    /\ UNCHANGED <<changes, faults, crashes>>

\* A command or a file operation of the download fails, or its task is aborted.
Fails(d) ==
    /\ \/ /\ pc[d] \in {"fingerprint", "resolve", "lock"}
          /\ Goto(d, "failed") /\ MayFault /\ lock' = lock
       \/ pc[d] = "inspect" /\ AcquireFails(d)
       \/ /\ pc[d] \in {"fetch", "verify", "restart", "copy", "publish"}
          /\ Goto(d, "release") /\ MayFault /\ lock' = lock
    /\ copy' = [copy EXCEPT ![d] = Missing]
    /\ UNCHANGED <<remote, local, part, meta, spool, params, want, resumed, keep, won>>
    /\ UNCHANGED <<changes, crashes>>

\* release(preservePartial): what is kept must still be there and be described.
Release(d) ==
    LET v == want[d]
        retained == d \in keep /\ part[v] # Missing /\ meta[v] = "valid"
    IN /\ pc[d] = "release"
       /\ part' = IF retained THEN part ELSE [part EXCEPT ![v] = Missing]
       /\ meta' = IF retained THEN meta ELSE [meta EXCEPT ![v] = "none"]
       /\ Goto(d, "unlock")
       /\ UNCHANGED <<remote, local, lock, spool, params, progress>>
       /\ UNCHANGED <<changes, faults, crashes>>

\* Its removals fail: the lock goes all the same, and the error replaces the result.
ReleaseFails(d) ==
    /\ pc[d] = "release"
    /\ MayFault
    /\ RemovesOne(want[d]) \/ UNCHANGED <<part, meta>>
    /\ won' = won \ {d}
    /\ Goto(d, "unlock")
    /\ UNCHANGED <<remote, local, lock, spool, params, want, resumed, keep, copy>>
    /\ UNCHANGED <<changes, crashes>>

Unlock(d) ==
    /\ pc[d] = "unlock"
    /\ lock' = lock \ {want[d]}
    /\ Goto(d, IF d \in won THEN "done" ELSE "failed")
    /\ resumed' = resumed \ {d}
    /\ keep' = keep \ {d}
    /\ UNCHANGED <<remote, local, part, meta, spool, params, want, copy, won>>
    /\ UNCHANGED <<changes, faults, crashes>>

Step(d) ==
    \/ Begin(d) \/ Fingerprint(d) \/ Resolve(d) \/ Lock(d)
    \/ Inspect(d) \/ Clear(d) \/ Describe(d)
    \/ Fetch(d) \/ Verify(d) \/ Restart(d) \/ Copy(d) \/ Publish(d)
    \/ Release(d) \/ Unlock(d)

Next ==
    \/ RemoteChanges \/ Crash \/ Prepare \/ PrepareFails
    \/ \E d \in Downloads : Step(d) \/ Fails(d) \/ ReleaseFails(d)

Spec == Init /\ [][Next]_vars

----------------------------------------------------------------------------
(* Properties                                                              *)

TypeOK ==
    /\ remote \in Versions
    /\ spool \in {"preparing", "ready", "broken"}
    /\ lock \subseteq Versions
    /\ meta \in [Versions -> {"none", "valid", "torn"}]
    /\ pc \in [Downloads -> {"new", "fingerprint", "resolve", "lock", "inspect", "clear",
                 "describe", "fetch", "verify", "restart", "copy", "publish", "release",
                 "unlock"} \cup Ended]
    /\ want \in [Downloads -> Versions]
    /\ resumed \subseteq Holding /\ keep \subseteq Holding

\* Whatever the remote file does while it is read, and whatever an earlier daemon left
\* in the spool, the local path holds nothing, the file of the user or one whole
\* version of the remote file (#download, publishDownloadedFile).
LocalIntact ==
    /\ TypeOK
    /\ local \in {Missing, Mine} \cup {Full(v) : v \in Versions}

\* One download at a time works on a partial file, and no lock outlives the download
\* that took it, whichever way it ended, a crash included (acquireDownloadSpool).
\* What is left unlocked when nothing failed is a partial file that can be resumed: it
\* has its metadata, and metadata has its file (release, prepareTransferSpool).
SpoolExact ==
    /\ \A d, e \in Holding : d # e => want[d] # want[e]
    /\ spool = "ready" => lock = {want[d] : d \in Holding}
    /\ spool = "ready" /\ faults = 0 =>
         \A v \in Versions \ lock : part[v] # Missing <=> meta[v] = "valid"

\* A download that was not allowed to overwrite never replaces a file that is at the
\* local path when it publishes, however long ago it looked.
ExclusiveLocal ==
    [][\A d \in Downloads :
         ~params[d].overwrite /\ pc'[d] # pc[d] /\ local # Missing
         => local' = local]_vars
==============================================================================
