----------------------------- MODULE ManagedKeys -----------------------------
(***************************************************************************)
(* The key vault: ManagedSshKeyVault of src/test-ui/managed-keys.ts.       *)
(*                                                                         *)
(* A key is a directory (private key, public key, metadata with the label  *)
(* it was created under) and a record in the manifest, which alone carries *)
(* a later label.  Publication renames a staging directory and then        *)
(* replaces the manifest; removal renames the directory aside, replaces    *)
(* the manifest and deletes; initialize completes or undoes what a crash   *)
(* interrupted.  The caller (#runExclusive of ManagedSshService) runs one  *)
(* mutation at a time and a stale expectedKeyRevision is refused without   *)
(* effect, so neither appears here.                                        *)
(***************************************************************************)
EXTENDS Naturals, Functions, FiniteSets

CONSTANTS MaxKeys,      \* bound: key identifiers drawn
          Materials,    \* private keys, told apart by their fingerprint
          Labels,       \* labels, numbered so that uniqueMigrationLabel can pick the first free one
          MaxFailures,  \* bound: operating-system calls that fail
          MaxCrashes    \* bound: process losses

VARIABLES entry,      \* directory of each key: "none", "staging", "published", "partial", "deleting"
          meta,       \* fingerprint and original label written into each directory
          manifest,   \* the manifest file: key -> label
          records,    \* #records: key -> label
          phase,      \* "down", "open" (initialized) or "unavailable" (initialize threw)
          job,        \* the mutation in progress
          nextKey,    \* next key identifier
          held,       \* history: key -> label, as acknowledged to the callers
          dropped,    \* history: keys whose removal was acknowledged
          failures, crashes

vars == <<entry, meta, manifest, records, phase, job, nextKey, held, dropped, failures, crashes>>

Keys == 1 .. MaxKeys
NoMeta == [material |-> "none", label |-> 0]
NoJob == [pc |-> "idle", key |-> 0, label |-> 0]
Empty == [k \in {} |-> 0]
Listed(f) == DOMAIN f
With(f, k, l) == [i \in DOMAIN f \cup {k} |-> IF i = k THEN l ELSE f[i]]
Without(f, k) == Restrict(f, DOMAIN f \ {k})
OnDisk(s) == {k \in Keys : entry[k] = s}
Fails == failures < MaxFailures /\ failures' = failures + 1

Init == /\ entry = [k \in Keys |-> "none"]
        /\ meta = [k \in Keys |-> NoMeta]
        /\ manifest = Empty
        /\ records = Empty
        /\ phase = "down"
        /\ job = NoJob
        /\ nextKey = 1
        /\ held = Empty
        /\ dropped = {}
        /\ failures = 0 /\ crashes = 0

(***************************************************************************)
(* initialize                                                              *)
(***************************************************************************)
\* Mutant: every interrupted deletion is completed.
CleanedAway == [k \in Keys |-> IF entry[k] \in {"staging", "deleting"} THEN "none" ELSE entry[k]]

\* #cleanupInterruptedMutations: a deletion the manifest does not confirm is undone, the rest is removed.
Cleaned == [k \in Keys |-> CASE entry[k] = "staging" -> "none"
                             [] entry[k] = "deleting" -> IF k \in Listed(manifest) THEN "published" ELSE "none"
                             [] OTHER -> entry[k]]
CleanPublished == {k \in Keys : Cleaned[k] = "published"}
Orphans == CleanPublished \ Listed(manifest)

\* mergeManifestWithPublishedRecords: the manifest's labels win; an orphan keeps its own or gets a free one.
Merges(r) == /\ Listed(r) = CleanPublished
             /\ \A k \in Listed(manifest) : r[k] = manifest[k]
             /\ \A k \in Orphans : LET taken == {r[j] : j \in CleanPublished \ {k}}
                                   IN  r[k] = meta[k].label \/ meta[k].label \in taken
UniqueRecords(r) == \A j, k \in Listed(r) : j # k => r[j] # r[k] /\ meta[j].material # meta[k].material
Readable == /\ \A k \in Keys : Cleaned[k] # "partial"
            /\ Listed(manifest) \subseteq CleanPublished

Open == /\ phase = "down"
        /\ Readable
        /\ \E r \in [CleanPublished -> Labels] :
              /\ Merges(r) /\ UniqueRecords(r)
              /\ manifest' = r /\ records' = r
        /\ entry' = Cleaned
        /\ phase' = "open"
        /\ held' = manifest'
        /\ UNCHANGED <<meta, job, nextKey, dropped, failures, crashes>>

OpenFails == /\ phase = "down"
             /\ \/ /\ ~Readable \/ ~\E r \in [CleanPublished -> Labels] : Merges(r) /\ UniqueRecords(r)
                   /\ UNCHANGED failures
                \/ Fails
             /\ entry' = Cleaned
             /\ phase' = "unavailable"
             /\ UNCHANGED <<meta, manifest, records, job, nextKey, held, dropped, crashes>>

(***************************************************************************)
(* generate, importFromPath and importMigrated, through #publishNewKey     *)
(***************************************************************************)
Ready == phase = "open" /\ job = NoJob
TakenLabels == {records[k] : k \in Listed(records)}

\* The private key is created or copied into a staging directory.
Stage(m, l) == /\ Ready /\ nextKey \in Keys
               /\ l \notin TakenLabels
               /\ entry' = [entry EXCEPT ![nextKey] = "staging"]
               /\ meta' = [meta EXCEPT ![nextKey] = [material |-> m, label |-> l]]
               /\ nextKey' = nextKey + 1
               /\ job' = [pc |-> "staged", key |-> nextKey, label |-> l]
               /\ UNCHANGED <<manifest, records, phase, held, dropped, failures, crashes>>

\* #publishNewKey: the fingerprint is in the vault already.
IsDuplicate(k) == \E j \in Listed(records) : meta[j].material = meta[k].material

PublishKey == /\ job.pc = "staged" /\ ~IsDuplicate(job.key)
              /\ entry' = [entry EXCEPT ![job.key] = "published"]
              /\ job' = [job EXCEPT !.pc = "published"]
              /\ UNCHANGED <<meta, manifest, records, phase, nextKey, held, dropped, failures, crashes>>

\* #replaceRecords: the manifest first, then the memory.
RecordKey == /\ job.pc = "published"
             /\ manifest' = With(records, job.key, job.label)
             /\ records' = manifest'
             /\ held' = With(held, job.key, job.label)
             /\ job' = NoJob
             /\ UNCHANGED <<entry, meta, phase, nextKey, dropped, failures, crashes>>

\* A duplicate, or a step that failed: the directory is removed as far as that works.
PublishFails == /\ job.pc \in {"staged", "published"}
                /\ \/ job.pc = "staged" /\ IsDuplicate(job.key) /\ UNCHANGED failures
                   \/ Fails
                /\ job' = [job EXCEPT !.pc = "undo"]
                /\ UNCHANGED <<entry, meta, manifest, records, phase, nextKey, held, dropped, crashes>>

Undo == /\ job.pc = "undo"
        /\ entry' = [entry EXCEPT ![job.key] = "none"]
        /\ job' = NoJob
        /\ UNCHANGED <<meta, manifest, records, phase, nextKey, held, dropped, failures, crashes>>

UndoFails == /\ job.pc = "undo" /\ Fails
             /\ entry' = [entry EXCEPT ![job.key] = IF @ = "published" THEN "partial" ELSE @]
                \/ UNCHANGED entry
             /\ job' = NoJob
             /\ UNCHANGED <<meta, manifest, records, phase, nextKey, held, dropped, crashes>>

(***************************************************************************)
(* renameKey and removeKey                                                 *)
(***************************************************************************)
RenameKey(k, l) == /\ Ready /\ k \in Listed(records)
                   /\ l \notin TakenLabels
                   /\ manifest' = [records EXCEPT ![k] = l]
                   /\ records' = manifest'
                   /\ held' = [held EXCEPT ![k] = l]
                   /\ UNCHANGED <<entry, meta, phase, job, nextKey, dropped, failures, crashes>>

RemoveBegin(k) == /\ Ready /\ k \in Listed(records)
                  /\ entry[k] = "published"
                  /\ entry' = [entry EXCEPT ![k] = "deleting"]
                  /\ job' = [pc |-> "removing", key |-> k, label |-> 0]
                  /\ UNCHANGED <<meta, manifest, records, phase, nextKey, held, dropped, failures, crashes>>

RemoveCommit == /\ job.pc = "removing"
                /\ manifest' = Without(records, job.key)
                /\ records' = manifest'
                /\ held' = Without(held, job.key)
                /\ dropped' = dropped \cup {job.key}
                /\ job' = [job EXCEPT !.pc = "deleting"]
                /\ UNCHANGED <<entry, meta, phase, nextKey, failures, crashes>>

\* The manifest was not replaced: the directory is renamed back, if that works.
RemoveUndone == /\ job.pc = "removing" /\ Fails
                /\ entry' \in {entry, [entry EXCEPT ![job.key] = "published"]}
                /\ job' = NoJob
                /\ UNCHANGED <<meta, manifest, records, phase, nextKey, held, dropped, crashes>>

\* Deleting the files is best effort; the removal is acknowledged either way.
RemoveEnd == /\ job.pc = "deleting"
             /\ entry' \in {entry, [entry EXCEPT ![job.key] = "none"]}
             /\ job' = NoJob
             /\ UNCHANGED <<meta, manifest, records, phase, nextKey, held, dropped, failures, crashes>>

(***************************************************************************)
(* The loss of the process, and its end                                    *)
(***************************************************************************)
Stop == /\ phase # "down" /\ job = NoJob
        /\ phase' = "down"
        /\ records' = Empty
        /\ UNCHANGED <<entry, meta, manifest, job, nextKey, held, dropped, failures, crashes>>

\* A removal of a published directory may be caught half-way.
CrashVault == /\ phase # "down" /\ job # NoJob
              /\ crashes < MaxCrashes /\ crashes' = crashes + 1
              /\ entry' \in {entry} \cup (IF job.pc = "undo" /\ entry[job.key] = "published"
                                          THEN {[entry EXCEPT ![job.key] = "partial"]} ELSE {})
              /\ phase' = "down"
              /\ records' = Empty
              /\ job' = NoJob
              /\ UNCHANGED <<meta, manifest, nextKey, held, dropped, failures>>

Next == \/ Open \/ OpenFails
        \/ \E m \in Materials, l \in Labels : Stage(m, l)
        \/ PublishKey \/ RecordKey \/ PublishFails \/ Undo \/ UndoFails
        \/ \E k \in Keys : RemoveBegin(k) \/ \E l \in Labels : RenameKey(k, l)
        \/ RemoveCommit \/ RemoveUndone \/ RemoveEnd
        \/ Stop \/ CrashVault

Spec == Init /\ [][Next]_vars

-----------------------------------------------------------------------------
\* Every key a caller was told of, until its removal reaches the manifest, is on disk in full under its latest label, whatever
\* step a crash or a failure interrupted: in place, or set aside where initialize puts it back.
HeldKeysKept == \A k \in Listed(held) :
                   /\ entry[k] = "published" \/ entry[k] = "deleting"
                   /\ k \in Listed(manifest) /\ manifest[k] = held[k]

\* A key whose removal was committed is never offered again, although its directory may outlive the removal.
DroppedKeysGone == dropped \cap (Listed(records) \cup Listed(manifest)) = {}

\* The vault is what the callers were told: no key is lost, none comes back (import, relabel, remove, initialize).
VaultAsAnswered == HeldKeysKept /\ DroppedKeysGone

\* The directories of failed publications that nothing lists and nothing cleans up.
Litter == {k \in Keys : entry[k] \in {"published", "partial"} /\ k \notin Listed(manifest)
                        /\ ~(job.key = k /\ job.pc \in {"published", "undo"})}

\* The vault can be opened at every restart: the manifest never lists a key without its directory, labels and
\* fingerprints stay unique.  Only a failed publication whose directory was left half-removed, or left behind
\* and then imported again, closes the vault for good.
VaultOpens == phase = "down" =>
    \/ Readable /\ \E r \in [CleanPublished -> Labels] : Merges(r) /\ UniqueRecords(r)
    \/ OnDisk("partial") # {}
    \/ \E k \in Litter : \E j \in Keys \ {k} : entry[j] # "none" /\ meta[j].material = meta[k].material
=============================================================================
