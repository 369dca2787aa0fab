---------------------------- MODULE OutputStore ----------------------------
(***************************************************************************)
(* The store of command output (src/core/output-store.ts): sinks that      *)
(* write the output of running executions to disk under a byte and entry   *)
(* quota, publication of what does not fit inline, reads by reference, the *)
(* periodic cleanup, and the adoption of what an earlier process left.     *)
(*                                                                         *)
(* Each await of a file operation is a step of its own and may fail.  A    *)
(* failed recursive removal may have removed part of the directory.  The   *)
(* clock is abstracted to the order in which published entries expire.     *)
(***************************************************************************)
EXTENDS Naturals, Sequences, FiniteSets, SequencesExt, FiniteSetsExt

CONSTANTS
    Refs,                   \* output references
    Streams,                \* "stdout" and "stderr"
    Inline,                 \* inlineBytesPerStream
    MaxStored,              \* maxStoredBytes of one execution
    ByteLimits,             \* maxTotalRetainedBytes, chosen at each start
    MaxEntries,             \* maxRetainedEntries
    Chunks,                 \* bound: sizes of an appended chunk
    MaxAppends,             \* bound: chunks appended to a sink
    MaxFailures,            \* bound: file operations that fail
    MaxCrashes              \* bound: crashes of the daemon

ASSUME OutputStoreAssumption ==
    /\ IsFiniteSet(Refs) /\ IsFiniteSet(Streams)
    /\ Inline \in Nat /\ MaxStored \in Nat \ {0} /\ MaxEntries \in Nat \ {0}
    /\ ByteLimits \subseteq Nat \ {0} /\ ByteLimits # {}
    /\ Chunks \subseteq Nat \ {0} /\ MaxAppends \in Nat /\ MaxFailures \in Nat /\ MaxCrashes \in Nat

VARIABLES
    \* The disk, which survives a crash.
    dir,                    \* references whose directory exists
    file,                   \* file[r][s]: bytes in the payload file of stream s
    meta,                   \* meta[r]: "none", "staged" (temporary file) or "named"
    order,                  \* named references in the order they expire
    expired,                \* references whose expiresAtMs has passed
    \* The sinks.
    phase,                  \* phase[r]: where the sink of r stands
    queue,                  \* queue[r]: chunks waiting in #tail
    op,                     \* op[r]: the write in progress
    total,                  \* total[r][s]: totalBytes; for a named entry, its metadata
    broken,                 \* sinks with a #fatalError
    limited,                \* sinks with a #limitError
    appended,               \* appended[r]: append calls so far
    \* The store.
    store,                  \* "down", "scanning", "adopting" or "up"
    limit,                  \* quota.maxBytes
    quota,                  \* quota[r]: bytes held; 0 when r is not in the map
    active,                 \* #activeReferences
    reading,                \* reading[r]: what the read of r does next
    scan,                   \* the scan of #cleanupEntries
    failures, crashes

diskVars == <<dir, file, meta, order, expired>>
sinkVars == <<phase, queue, op, total, broken, limited, appended>>
storeVars == <<store, limit, quota, active, reading, scan>>
vars == <<diskVars, sinkVars, storeVars, failures, crashes>>

Phases == {"free", "making", "open", "finalizing", "discarding", "staging", "named",
           "failing", "aborting", "published", "closed"}
NoOp == [stream |-> "none", granted |-> 0, short |-> FALSE]
NoBytes == [s \in Streams |-> 0]

\* #cleanupEntries between two awaits: the directory entries listed, those still to
\* visit, the one being removed, the ones kept, the references tracked before the
\* listing and the entries expired by then.
NoScan == [on |-> FALSE, listed |-> {}, todo |-> {}, doomed |-> {}, kept |-> {},
           tracked |-> {}, old |-> {}]

Bytes(b) == SumFunctionOnSet(b, Streams)
Held(S) == SumFunctionOnSet(quota, S)
Tracked == {r \in Refs : quota[r] > 0}

Init ==
    /\ dir = {} /\ order = <<>> /\ expired = {}
    /\ file = [r \in Refs |-> NoBytes]
    /\ meta = [r \in Refs |-> "none"]
    /\ phase = [r \in Refs |-> "free"]
    /\ queue = [r \in Refs |-> <<>>]
    /\ op = [r \in Refs |-> NoOp]
    /\ total = [r \in Refs |-> NoBytes]
    /\ broken = {} /\ limited = {}
    /\ appended = [r \in Refs |-> 0]
    /\ store = "down"
    /\ limit \in ByteLimits
    /\ quota = [r \in Refs |-> 0]
    /\ active = {}
    /\ reading = [r \in Refs |-> "no"]
    /\ scan = NoScan
    /\ failures = 0 /\ crashes = 0

----------------------------------------------------------------------------
(* File operations.                                                        *)

Fault == failures < MaxFailures /\ failures' = failures + 1

\* rm(directory, { recursive: true, force: true })
Removed(r) ==
    /\ dir' = dir \ {r}
    /\ file' = [file EXCEPT ![r] = NoBytes]
    /\ meta' = [meta EXCEPT ![r] = "none"]

\* The same when it rejects: nothing, the payload or the metadata may be gone.
HalfRemoved(r) ==
    /\ \E lost \in SUBSET {"payload", "metadata"} :
         /\ file' = [file EXCEPT ![r] = IF "payload" \in lost THEN NoBytes ELSE @]
         /\ meta' = [meta EXCEPT ![r] = IF "metadata" \in lost THEN "none" ELSE @]
    /\ UNCHANGED dir

\* RetainedByteQuota.release
Released(r) == [quota EXCEPT ![r] = 0]

\* RetainedByteQuota.reserve: the bytes granted of n requested.
Room(r, n) ==
    IF r \notin Tracked /\ Cardinality(Tracked) >= MaxEntries
      THEN 0
      ELSE IF n > limit - Held(Refs) THEN limit - Held(Refs) ELSE n

----------------------------------------------------------------------------
(* A sink is created, appended to, and finalized or quarantined.           *)

Goes(r, p) == phase' = [phase EXCEPT ![r] = p]

\* Mutant: the reference stays active when its sink is done.
StaysActive(r, p) == Goes(r, p) /\ active' = active

\* TrackedOutputSink releases the reference once finalize() or abort() has settled.
Leaves(r, p) == Goes(r, p) /\ active' = active \ {r}

SinkOnly == UNCHANGED <<order, expired, store, limit, reading, scan, crashes>>
QueueKept == UNCHANGED <<queue, op, total, broken, limited, appended>>
FilesKept == UNCHANGED <<dir, file, meta>>

\* #reserveReference registers before mkdir makes the directory visible.
Registered(r) == active \cup {r}

Reserve(r) ==
    /\ store = "up" /\ phase[r] = "free"
    /\ Goes(r, "making")
    /\ active' = Registered(r)
    /\ UNCHANGED <<quota, failures>> /\ FilesKept /\ QueueKept /\ SinkOnly

Make(r) ==
    /\ phase[r] = "making"
    /\ dir' = dir \cup {r}
    /\ Goes(r, "open")
    /\ UNCHANGED <<file, meta, quota, active, failures>> /\ QueueKept /\ SinkOnly

MakeFails(r) ==
    /\ phase[r] = "making" /\ Fault
    /\ Leaves(r, "closed")
    /\ UNCHANGED quota /\ FilesKept /\ QueueKept /\ SinkOnly

AppendChunk(r, s, n) ==
    /\ phase[r] = "open" /\ appended[r] < MaxAppends
    /\ queue' = [queue EXCEPT ![r] = Append(@, [stream |-> s, bytes |-> n])]
    /\ appended' = [appended EXCEPT ![r] = @ + 1]
    /\ UNCHANGED <<phase, op, total, broken, limited, quota, active, failures>> /\ FilesKept /\ SinkOnly

\* perExecutionRemaining
Left(r) == MaxStored - Bytes(total[r])

\* #appendNow up to the write: quota is reserved before anything is written.
AppendNow(r) ==
    /\ queue[r] # <<>> /\ op[r] = NoOp
    /\ phase[r] \in {"open", "finalizing", "aborting"}
    /\ queue' = [queue EXCEPT ![r] = Tail(@)]
    /\ LET chunk == Head(queue[r])
            granted == Room(r, IF chunk.bytes > Left(r) THEN Left(r) ELSE chunk.bytes)
            short == granted # chunk.bytes
        IN  IF phase[r] = "aborting" \/ r \in broken \cup limited
              THEN UNCHANGED <<op, limited, quota>>
              ELSE /\ quota' = [quota EXCEPT ![r] = @ + granted]
                   /\ op' = [op EXCEPT ![r] = IF granted = 0 THEN NoOp
                        ELSE [stream |-> chunk.stream, granted |-> granted, short |-> short]]
                   /\ limited' = IF short /\ granted = 0 THEN limited \cup {r} ELSE limited
    /\ UNCHANGED <<phase, total, broken, appended, active, failures>> /\ FilesKept /\ SinkOnly

\* The file is opened and written.  A sink cancelled meanwhile does not count it.
AppendWritten(r) ==
    /\ op[r] # NoOp /\ r \in dir
    /\ file' = [file EXCEPT ![r][op[r].stream] = @ + op[r].granted]
    /\ IF phase[r] = "aborting"
         THEN UNCHANGED <<total, limited>>
         ELSE /\ total' = [total EXCEPT ![r][op[r].stream] = @ + op[r].granted]
              /\ limited' = IF op[r].short THEN limited \cup {r} ELSE limited
    /\ op' = [op EXCEPT ![r] = NoOp]
    /\ UNCHANGED <<dir, meta, phase, queue, broken, appended, quota, active, failures>> /\ SinkOnly

\* The write fails after some of the bytes, or none, reached the file.
AppendFails(r) ==
    /\ op[r] # NoOp /\ Fault
    /\ \E n \in 0..op[r].granted :
         /\ n > 0 => r \in dir
         /\ file' = [file EXCEPT ![r][op[r].stream] = @ + n]
    /\ broken' = IF phase[r] = "aborting" THEN broken ELSE broken \cup {r}
    /\ op' = [op EXCEPT ![r] = NoOp]
    /\ UNCHANGED <<dir, meta, phase, queue, total, limited, appended, quota, active>> /\ SinkOnly

Finalize(r) ==
    /\ phase[r] = "open"
    /\ Goes(r, "finalizing")
    /\ UNCHANGED <<quota, active, failures>> /\ FilesKept /\ QueueKept /\ SinkOnly

Settled(r) == queue[r] = <<>> /\ op[r] = NoOp

\* summarizeStream: a stream does not fit inline.
Truncated(r) == \E s \in Streams : total[r][s] > Inline

\* #finalizeNow once every append has settled: close, then discard what fits inline
\* or stage the metadata.
FinalizeNow(r) ==
    /\ phase[r] = "finalizing" /\ Settled(r)
    /\ \/ /\ r \in broken
          /\ Goes(r, "failing")
          /\ UNCHANGED <<meta, failures>>
       \/ /\ r \notin broken /\ ~Truncated(r)
          /\ Goes(r, "discarding")
          /\ UNCHANGED <<meta, failures>>
       \/ /\ r \notin broken /\ Truncated(r)
          /\ Goes(r, "staging")
          /\ meta' = [meta EXCEPT ![r] = "staged"]
          /\ UNCHANGED failures
       \/ /\ Fault
          /\ Goes(r, "failing")
          /\ UNCHANGED meta
    /\ UNCHANGED <<dir, file, quota, active>> /\ QueueKept /\ SinkOnly

Discard(r) ==
    /\ phase[r] = "discarding"
    /\ Removed(r)
    /\ quota' = Released(r)
    /\ Leaves(r, "closed")
    /\ UNCHANGED failures /\ QueueKept /\ SinkOnly

DiscardFails(r) ==
    /\ phase[r] = "discarding" /\ Fault
    /\ HalfRemoved(r)
    /\ Goes(r, "failing")
    /\ UNCHANGED <<quota, active>> /\ QueueKept /\ SinkOnly

\* rename(temporaryPath, metadata.json)
Rename(r) ==
    /\ phase[r] = "staging"
    /\ meta' = [meta EXCEPT ![r] = "named"]
    /\ order' = Append(order, r)
    /\ Goes(r, "named")
    /\ UNCHANGED <<dir, file, expired, quota, active, store, limit, reading, scan, failures, crashes>>
    /\ QueueKept

RenameFails(r) ==
    /\ phase[r] = "staging" /\ Fault
    /\ Goes(r, "failing")
    /\ UNCHANGED <<quota, active>> /\ FilesKept /\ QueueKept /\ SinkOnly

\* finalize() answers with outputRef and the reference is no longer active.
Answer(r) ==
    /\ phase[r] = "named"
    /\ Leaves(r, "published")
    /\ UNCHANGED <<quota, failures>> /\ FilesKept /\ QueueKept /\ SinkOnly

\* The catch of finalize(), which also tries what #finalizeNow tried before it threw.
FailRemoved(r) ==
    /\ phase[r] = "failing"
    /\ Removed(r)
    /\ quota' = Released(r)
    /\ Leaves(r, "closed")
    /\ UNCHANGED failures /\ QueueKept /\ SinkOnly

\* Mutant: the quota is given back although the files are still there.
ReleasedUnremoved(r) == [quota EXCEPT ![r] = 0]

\* A directory that could not be removed keeps its quota.
QuotaUnremoved(r) == quota

FailKept(r) ==
    /\ phase[r] \in {"failing", "aborting"} /\ Settled(r) /\ Fault
    /\ HalfRemoved(r)
    /\ quota' = QuotaUnremoved(r)
    /\ Leaves(r, "closed")
    /\ QueueKept /\ SinkOnly

\* quarantineOutputSink: cancel() and abort().
Quarantine(r) ==
    /\ phase[r] = "open"
    /\ Goes(r, "aborting")
    /\ UNCHANGED <<quota, active, failures>> /\ FilesKept /\ QueueKept /\ SinkOnly

AbortNow(r) ==
    /\ phase[r] = "aborting" /\ Settled(r)
    /\ Removed(r)
    /\ quota' = Released(r)
    /\ Leaves(r, "closed")
    /\ UNCHANGED failures /\ QueueKept /\ SinkOnly

----------------------------------------------------------------------------
(* read()                                                                  *)

ReadOnly == UNCHANGED <<sinkVars, order, expired, store, limit, active, scan, crashes>>
Reads(r, what) == reading' = [reading EXCEPT ![r] = what]

\* One read at a time: reads share nothing but what each step reads again.
BeginRead(r) ==
    /\ store = "up" /\ phase[r] # "free"
    /\ \A q \in Refs : reading[q] = "no"
    /\ Reads(r, IF meta[r] # "named" THEN "missing"
                ELSE IF r \in expired THEN "expired" ELSE "payload")
    /\ UNCHANGED <<quota, failures>> /\ FilesKept /\ ReadOnly

ReadPayload(r) ==
    /\ reading[r] = "payload"
    /\ Reads(r, IF r \in dir THEN "no" ELSE "missing")
    /\ UNCHANGED <<quota, failures>> /\ FilesKept /\ ReadOnly

\* #throwReadNotFound
ReadMissing(r) ==
    /\ reading[r] = "missing"
    /\ quota' = IF r \notin dir \cup active THEN Released(r) ELSE quota
    /\ Reads(r, "no")
    /\ UNCHANGED failures /\ FilesKept /\ ReadOnly

ReadExpired(r) ==
    /\ reading[r] = "expired"
    /\ \/ Removed(r) /\ quota' = Released(r) /\ UNCHANGED failures
       \/ HalfRemoved(r) /\ Fault /\ UNCHANGED quota
    /\ Reads(r, "no")
    /\ ReadOnly

----------------------------------------------------------------------------
(* #cleanupEntries, on start and by the daemon's timer.                    *)

ScanOnly == UNCHANGED <<sinkVars, order, expired, limit, active, reading, crashes>>

Listing == [on |-> TRUE, listed |-> dir, todo |-> dir, doomed |-> {}, kept |-> {},
            tracked |-> Tracked, old |-> expired]

BeginScan ==
    /\ store = "up" /\ ~scan.on
    /\ scan' = Listing
    /\ UNCHANGED <<store, quota, failures>> /\ FilesKept /\ ScanOnly

\* #isCanonicalRetainedEntry
Canonical(r) == file[r] = total[r]

Spared(r) == r \in active

\* Mutant: the comparison with the clock is turned round.
NotOld(r) == r \notin scan.old

Old(r) == r \in scan.old

\* Not a finished, complete and unexpired entry.
ShouldRemove(r) == meta[r] # "named" \/ Old(r) \/ ~Canonical(r)

Visit(r) ==
    /\ scan.on /\ r \in scan.todo /\ scan.doomed = {}
    /\ scan' = [scan EXCEPT
         !.todo = @ \ {r},
         !.doomed = IF ~Spared(r) /\ ShouldRemove(r) THEN {r} ELSE {},
         !.kept = IF Spared(r) \/ ShouldRemove(r) THEN @ ELSE @ \cup {r}]
    /\ UNCHANGED <<store, quota, failures>> /\ FilesKept /\ ScanOnly

RemoveDoomed(r) ==
    /\ r \in scan.doomed
    /\ Removed(r)
    /\ quota' = Released(r)
    /\ scan' = [scan EXCEPT !.doomed = {}]
    /\ UNCHANGED <<store, failures>> /\ ScanOnly

\* The scan is given up; at start, the daemon is.
RemoveFails(r) ==
    /\ r \in scan.doomed /\ Fault
    /\ HalfRemoved(r)
    /\ scan' = NoScan
    /\ store' = IF store = "scanning" THEN "down" ELSE store
    /\ UNCHANGED quota /\ ScanOnly

\* References tracked before the listing whose directory was not there any more.
EndScan ==
    /\ scan.on /\ scan.todo = {} /\ scan.doomed = {}
    /\ quota' = [r \in Refs |->
         IF r \in scan.tracked \ (scan.listed \cup active) THEN 0 ELSE quota[r]]
    /\ IF store = "scanning"
         THEN store' = "adopting" /\ scan' = [scan EXCEPT !.on = FALSE]
         ELSE UNCHANGED store /\ scan' = NoScan
    /\ UNCHANGED failures /\ FilesKept /\ ScanOnly

----------------------------------------------------------------------------
(* Start, adoption and crash.                                              *)

Open ==
    /\ store = "down"
    /\ store' = "scanning"
    /\ limit' \in ByteLimits
    /\ scan' = Listing
    /\ UNCHANGED <<diskVars, sinkVars, quota, active, reading, failures, crashes>>

Payload(S) == SumFunctionOnSet([r \in S |-> Bytes(total[r])], S)
OverLimit == Payload(scan.kept) > limit \/ Cardinality(scan.kept) > MaxEntries

\* expiresAtMs, up to order
Rank(r) == SelectInSeq(order, LAMBDA x : x = r)

\* Mutant: the entry that expires last is evicted first.
EvictedLast(r) == \A q \in scan.kept : Rank(q) <= Rank(r)

EvictedFirst(r) == \A q \in scan.kept : Rank(r) <= Rank(q)

\* #adoptRetainedEntries evicts until what is left fits, then registers it.
Evict(r) ==
    /\ store = "adopting" /\ OverLimit
    /\ r \in scan.kept /\ EvictedFirst(r)
    /\ \/ /\ Removed(r)
          /\ scan' = [scan EXCEPT !.kept = @ \ {r}]
          /\ Goes(r, "closed")
          /\ UNCHANGED <<store, failures>>
       \/ /\ HalfRemoved(r) /\ Fault
          /\ scan' = NoScan
          /\ Goes(r, "closed")
          /\ store' = "down"
    /\ UNCHANGED <<order, expired, queue, op, total, broken, limited, appended>>
    /\ UNCHANGED <<limit, quota, active, reading, crashes>>

Adopt ==
    /\ store = "adopting" /\ ~OverLimit
    /\ quota' = [r \in Refs |-> IF r \in scan.kept THEN Bytes(total[r]) ELSE 0]
    /\ scan' = NoScan
    /\ store' = "up"
    /\ UNCHANGED failures /\ FilesKept /\ ScanOnly

Crash ==
    /\ store # "down" /\ crashes < MaxCrashes
    /\ crashes' = crashes + 1
    /\ store' = "down"
    /\ phase' = [r \in Refs |-> IF phase[r] \in {"free", "published"} THEN phase[r] ELSE "closed"]
    /\ queue' = [r \in Refs |-> <<>>]
    /\ op' = [r \in Refs |-> NoOp]
    /\ quota' = [r \in Refs |-> 0]
    /\ active' = {}
    /\ reading' = [r \in Refs |-> "no"]
    /\ scan' = NoScan
    /\ UNCHANGED <<diskVars, total, broken, limited, appended, limit, failures>>

\* The clock passes expiresAtMs: entries published earlier expire earlier.
Expire(r) ==
    /\ Contains(order, r) /\ r \notin expired
    /\ \A i \in 1..(Rank(r) - 1) : order[i] \in expired
    /\ expired' = expired \cup {r}
    /\ UNCHANGED <<dir, file, meta, order, sinkVars, storeVars, failures, crashes>>

----------------------------------------------------------------------------

SinkStep(r) ==
    \/ Make(r) \/ AppendNow(r) \/ AppendWritten(r) \/ FinalizeNow(r) \/ Discard(r)
    \/ Rename(r) \/ Answer(r) \/ FailRemoved(r) \/ AbortNow(r)

\* The cleanup and the start are one chain of awaits.
CleanupStep ==
    \/ BeginScan \/ EndScan \/ Open \/ Adopt
    \/ \E r \in Refs : Visit(r) \/ RemoveDoomed(r) \/ Evict(r)

Next ==
    \/ \E r \in Refs :
         \/ Reserve(r) \/ MakeFails(r) \/ AppendFails(r) \/ DiscardFails(r) \/ RenameFails(r)
         \/ SinkStep(r) \/ FailKept(r) \/ Finalize(r) \/ Quarantine(r)
         \/ \E s \in Streams, n \in Chunks : AppendChunk(r, s, n)
         \/ BeginRead(r) \/ ReadPayload(r) \/ ReadMissing(r) \/ ReadExpired(r)
         \/ RemoveFails(r) \/ Expire(r)
    \/ CleanupStep \/ Crash

Spec == Init /\ [][Next]_vars

\* File operations settle, the service ends every sink it creates, the timer cleans up
\* again and again, time passes, and the daemon is started again.
FairSpec ==
    /\ Spec
    /\ WF_vars(\E r \in Refs : SinkStep(r) \/ Finalize(r) \/ Quarantine(r) \/ Expire(r))
    /\ WF_vars(CleanupStep)

----------------------------------------------------------------------------
(* Properties.                                                             *)

TypeOK ==
    /\ dir \subseteq Refs /\ expired \subseteq Refs /\ active \subseteq Refs
    /\ broken \subseteq Refs /\ limited \subseteq Refs
    /\ file \in [Refs -> [Streams -> Nat]]
    /\ total \in [Refs -> [Streams -> 0..MaxStored]]
    /\ meta \in [Refs -> {"none", "staged", "named"}]
    /\ phase \in [Refs -> Phases]
    /\ \A r \in Refs : op[r] = NoOp \/ (op[r].stream \in Streams /\ op[r].granted \in 1..MaxStored)
    /\ quota \in [Refs -> 0..MaxStored]
    /\ store \in {"down", "scanning", "adopting", "up"} /\ limit \in ByteLimits
    /\ reading \in [Refs -> {"no", "payload", "missing", "expired"}]
    /\ failures \in 0..MaxFailures /\ crashes \in 0..MaxCrashes

\* Nothing lies on the disk that the quota does not count, not even what a failed
\* removal, a cancelled append or an earlier process left behind, so the payload on
\* disk stays within the configured totals.
RetentionBounded ==
    /\ TypeOK
    /\ store = "up" =>
         /\ \A r \in Refs : Bytes(file[r]) <= quota[r]
         /\ Held(Refs) <= limit
         /\ Cardinality(Tracked) <= MaxEntries

\* An output reference that was given out stays readable in full until it expires,
\* whatever cleanups, reads, failures and restarts happen meanwhile.
PublishedKept ==
    /\ \A r \in Refs : store = "up" /\ phase[r] = "published" /\ r \notin expired =>
        r \in dir /\ meta[r] = "named" /\ file[r] = total[r] /\ quota[r] = Bytes(total[r])
    \* and what a start adopts, a half-removed entry included, is complete
    /\ \A r \in Refs \ active :
         store = "up" /\ meta[r] = "named" /\ r \notin expired /\ quota[r] > 0 =>
           file[r] = total[r]

\* No cleanup or read takes the directory of a sink that is still in use away.
SinkInUseIntact ==
    \A r \in Refs : phase[r] \in {"open", "finalizing", "staging", "aborting"} =>
        r \in dir /\ \A s \in Streams : total[r][s] <= file[r][s]

\* Output is never lost to the store's own housekeeping: neither what was given out nor
\* what is still being written (#cleanupEntries, finalize, #adoptRetainedEntries).
OutputKept == PublishedKept /\ SinkInUseIntact

\* A start gives up an unexpired output only when the complete outputs that have not
\* expired exceed the limits, and then the one that expires first.
EvictsOnlyWhatMustGo ==
    [][\A r \in Refs : phase[r] = "published" /\ phase'[r] = "closed" /\ r \notin expired =>
         LET live == {q \in dir \ scan.old : meta[q] = "named" /\ file[q] = total[q]}
         IN  /\ \/ Payload(live) > limit
                \/ Cardinality(live) > MaxEntries
             /\ \A q \in live : Rank(r) <= Rank(q)]_vars

\* Quota and disk space of every output are given back in the end.
Reclaimed == []<>(dir = {} /\ Held(Refs) = 0)
============================================================================
