---------------------------- MODULE ManagedConfig ----------------------------
(***************************************************************************)
(* The saved SSH configuration of the management centre:                   *)
(* ManagedSshService of src/test-ui/managed.ts.                            *)
(*                                                                         *)
(* Durable: numbered revision directories, an active pointer naming the    *)
(* served revision and the one to roll back to, one overlay file per base  *)
(* revision (machine metadata and explicit removals), and the key vault.   *)
(* Volatile: the service's fields, the gateway daemon that runs in the     *)
(* same process, and the operation #runExclusive holds.  A crash loses the *)
(* second group at any step; initialize rebuilds it from the first.        *)
(*                                                                         *)
(* A fleet profile is abstracted to the set of its machines and a value    *)
(* for the groups and descriptions; each machine uses one key.  Revision   *)
(* identifiers are drawn in increasing order, as createRevisionId's        *)
(* timestamps are, and overlays draw theirs from the same source.          *)
(***************************************************************************)
EXTENDS Naturals, FiniteSets, FiniteSetsExt

CONSTANTS Targets,      \* machines a fleet can list
          Metas,        \* values of groups and descriptions
          MaxId,        \* bound: revision identifiers drawn
          MaxFailures,  \* bound: operating-system or daemon calls that fail
          MaxCrashes,   \* bound: process losses
          MaxDamage     \* bound: saved revisions that stop validating

ASSUME MaxIdAssumption == MaxId \in Nat

VARIABLES dir,       \* revision directory: "none", "staging", "published", "broken" (partly removed), "damaged"
          content,   \* the profile written into each revision
          pointer,   \* the active pointer file
          overlay,   \* the overlay file of each base revision
          vault,     \* machines whose key is in the key vault
          svc,       \* the fields of ManagedSshService
          daemon,    \* the gateway daemon
          op,        \* the operation in progress
          nextId,    \* next revision identifier
          view,      \* the configuration a browser page holds
          promised,  \* history: what the callers may expect to be served
          faults     \* history: failures, crashes and damage so far

durable == <<dir, content, pointer, overlay, vault, nextId>>
vars == <<dir, content, pointer, overlay, vault, svc, daemon, op, nextId, view, promised, faults>>

Ids == 1 .. MaxId
None == 0                       \* an undefined revision identifier
Profiles == [targets : SUBSET Targets, meta : Metas]
NoProfile == [targets |-> {}, meta |-> None]
NoPointer == [revision |-> None, previous |-> None, quarantined |-> {}]
NoOverlay == [id |-> None, removed |-> {}, meta |-> None]
NoDaemon == [profile |-> NoProfile, open |-> FALSE]
Down == [up |-> FALSE, closed |-> FALSE, state |-> "unconfigured", active |-> None, pointer |-> NoPointer,
         overlay |-> NoOverlay, fleet |-> NoProfile, trusted |-> FALSE]
Idle == [pc |-> "idle", profile |-> NoProfile, staged |-> None, prior |-> "unconfigured", before |-> {}]

Present == {r \in Ids : dir[r] \in {"published", "broken", "damaged"}}
Staging == {r \in Ids : dir[r] = "staging"}
\* #validateRevision accepts the directory.
Valid(r) == r \in Ids /\ dir[r] = "published"
\* The revisions a pointer protects from removal.
NamedBy(p) == ({p.revision, p.previous} \cup p.quarantined) \ {None}
\* applyMetadataOverlay: the base profile without the removed machines and with the overlay's metadata.
ApplyMetadataOverlay(p, o) == IF o = NoOverlay THEN p ELSE [targets |-> p.targets \ o.removed, meta |-> o.meta]
\* Mutant: the base revision is reported, whatever overlay is in force.
ReportedBase == svc.active

\* The revision fleetStatus reports and applyFleet compares expectedRevision with.
ReportedRevision == IF svc.overlay # NoOverlay THEN svc.overlay.id ELSE svc.active

Failure == /\ faults.failures < MaxFailures
           /\ faults' = [faults EXCEPT !.failures = @ + 1]

-----------------------------------------------------------------------------
Init == /\ dir = [r \in Ids |-> "none"]
        /\ content = [r \in Ids |-> NoProfile]
        /\ pointer = NoPointer
        /\ overlay = [r \in Ids |-> NoOverlay]
        /\ vault = Targets
        /\ svc = Down
        /\ daemon = NoDaemon
        /\ op = Idle
        /\ nextId = 1
        /\ view = [token |-> None, profile |-> NoProfile]
        /\ promised = {NoProfile}
        /\ faults = [failures |-> 0, crashes |-> 0, damage |-> 0]

(***************************************************************************)
(* initialize.  The pointer, or without one the two newest valid           *)
(* revisions, select what is served; an invalid active revision falls back *)
(* to the previous one.                                                    *)
(***************************************************************************)
ValidIds == {r \in Ids : Valid(r)}
Newest(S) == IF S = {} THEN None ELSE Max(S)

\* #findRecoverableRevisions: newest first, all that is not selected is quarantined.
RecoveredPointer ==
    LET first == Newest(ValidIds)
        second == Newest(ValidIds \ {first})
    IN  [revision |-> first, previous |-> second, quarantined |-> Present \ {first, second}]

SelectedPointer ==
    IF pointer = NoPointer THEN RecoveredPointer
    ELSE IF Valid(pointer.revision) THEN pointer
    ELSE IF Valid(pointer.previous)
         THEN [pointer EXCEPT !.revision = pointer.previous, !.previous = pointer.revision]
    ELSE NoPointer

StartProcess == /\ ~svc.up
                /\ svc' = [Down EXCEPT !.up = TRUE, !.state = "starting"]
                /\ op' = [Idle EXCEPT !.pc = "recover"]
                /\ UNCHANGED <<durable, daemon, view, promised, faults>>

\* Nothing was ever published.
InitEmpty == /\ op.pc = "recover"
             /\ pointer = NoPointer /\ Present = {}
             /\ svc' = [svc EXCEPT !.state = "unconfigured", !.trusted = TRUE]
             /\ op' = Idle
             /\ UNCHANGED <<durable, daemon, view, promised, faults>>

\* Neither the pointer nor the revisions lead to a valid one.
InitUnrecoverable == /\ op.pc = "recover"
                     /\ Present # {} \/ pointer # NoPointer
                     /\ SelectedPointer.revision = None
                     /\ svc' = [svc EXCEPT !.state = "error"]
                     /\ op' = Idle
                     /\ UNCHANGED <<durable, daemon, view, promised, faults>>

\* The daemon is started behind its closed gate, then a changed pointer is committed.
InitSelect == /\ op.pc = "recover"
              /\ SelectedPointer.revision # None
              /\ pointer' = SelectedPointer
              /\ daemon' = [profile |-> content[SelectedPointer.revision], open |-> FALSE]
              /\ op' = [op EXCEPT !.pc = "activate"]
              /\ UNCHANGED <<dir, content, overlay, vault, nextId, svc, view, promised, faults>>

\* Starting the daemon or writing the pointer failed.
InitFails == /\ op.pc = "recover"
             /\ SelectedPointer.revision # None
             /\ Failure
             /\ svc' = [svc EXCEPT !.state = "error"]
             /\ op' = Idle
             /\ UNCHANGED <<durable, daemon, view, promised>>

\* The overlay of the selected revision is applied before the gate opens.
InitActivate ==
    /\ op.pc = "activate"
    /\ LET o == overlay[pointer.revision]
           p == ApplyMetadataOverlay(content[pointer.revision], o)
       IN  /\ svc' = [svc EXCEPT !.state = "ready", !.active = pointer.revision, !.pointer = pointer,
                                 !.overlay = o, !.fleet = p, !.trusted = TRUE]
           /\ daemon' = [profile |-> p, open |-> TRUE]
    /\ op' = [op EXCEPT !.pc = "pruneInit"]
    /\ UNCHANGED <<durable, view, promised, faults>>

-----------------------------------------------------------------------------
(***************************************************************************)
(* pruneManagedRevisions.  The operation's pc says which call it is: which *)
(* revisions are retained, and how many may remain.                        *)
(***************************************************************************)
PruneCalls == {"pruneInit", "pruneStaged", "pruneApplied"}
Tracked(p) == {p.revision, p.previous} \ {None}
Retained ==
    CASE op.pc = "pruneInit" -> Tracked(svc.pointer) \cup svc.pointer.quarantined
      [] op.pc = "pruneStaged" -> ({svc.active, svc.pointer.previous, op.staged} \ {None}) \cup svc.pointer.quarantined
      [] OTHER -> Tracked(svc.pointer)
Limit == IF op.pc = "pruneStaged" THEN 3 ELSE 2
Additional == IF op.pc = "pruneApplied" THEN {} ELSE svc.pointer.quarantined \cap Present

\* Mutant: the pointer on disk is not looked at.
RemovableByRetention == {r \in Present : r \notin Retained} \cup Staging

\* removeInactiveRevision refuses what the pointer on disk names; staging directories always go.
Removable == {r \in Present : r \notin Retained /\ r \notin NamedBy(pointer)} \cup Staging
Pruned == [r \in Ids |-> IF r \in Removable THEN "none" ELSE dir[r]]
WithinLimit == Cardinality(Present \ Removable) <= Limit + Cardinality(Additional)

\* A removed directory takes its profile along.
Kept(d) == [r \in Ids |-> IF d[r] = "none" THEN NoProfile ELSE content[r]]

\* What is left on disk when the removal stops part-way, in a failure or in a crash.
StoppedPruning ==
    \E gone \in SUBSET Removable, partial \in SUBSET (Removable \cap Present) :
        /\ Cardinality(partial) <= 1 /\ gone \cap partial = {}
        /\ dir' = [r \in Ids |-> IF r \in gone THEN "none" ELSE IF r \in partial THEN "broken" ELSE dir[r]]
        /\ content' = Kept(dir')

\* What follows a call: the retention error of the two later calls is only reported.
AfterPruning(ok) ==
    CASE op.pc = "pruneInit" ->
            /\ promised' = {svc.fleet}
            /\ op' = Idle
            /\ UNCHANGED svc
      [] op.pc = "pruneStaged" /\ ok ->
            /\ op' = [op EXCEPT !.pc = "commit"]
            /\ svc' = [svc EXCEPT !.state = "starting"]
            /\ UNCHANGED promised
      [] op.pc = "pruneStaged" /\ ~ok ->
            /\ op' = [op EXCEPT !.pc = "discard"]
            /\ UNCHANGED <<svc, promised>>
      [] OTHER ->
            /\ promised' = {op.profile}
            /\ op' = Idle
            /\ UNCHANGED svc

Prune == /\ op.pc \in PruneCalls
         /\ dir' = Pruned
         /\ content' = Kept(dir')
         /\ overlay' = IF WithinLimit
                       THEN [r \in Ids |-> IF r \in Present \ Removable THEN overlay[r] ELSE NoOverlay]
                       ELSE overlay
         /\ AfterPruning(WithinLimit)
         /\ UNCHANGED <<pointer, vault, nextId, daemon, view, faults>>

PruneFails == /\ op.pc \in PruneCalls
              /\ Failure
              /\ StoppedPruning
              /\ AfterPruning(FALSE)
              /\ UNCHANGED <<pointer, overlay, vault, nextId, daemon, view>>

-----------------------------------------------------------------------------
(***************************************************************************)
(* applyFleet, under #runExclusive: one operation at a time, refused once  *)
(* the service is closing or when the caller's revision is not current.    *)
(***************************************************************************)
Read == /\ svc.up /\ op.pc = "idle"
        /\ view' = [token |-> ReportedRevision, profile |-> svc.fleet]
        /\ view' # view
        /\ UNCHANGED <<durable, svc, daemon, op, promised, faults>>

Admitted == /\ svc.up /\ ~svc.closed
            /\ op.pc = "idle"
            /\ view.token = ReportedRevision

Live == svc.state = "ready" /\ svc.fleet # NoProfile
IsMetadataOnly(p) == Live /\ p.targets = svc.fleet.targets
IsRemovalOnly(p) == Live /\ p.targets # svc.fleet.targets /\ p.targets \subseteq svc.fleet.targets
                    /\ p.meta = svc.fleet.meta
Started(pc, p, id) == [pc |-> pc, profile |-> p, staged |-> id, prior |-> svc.state, before |-> promised]

\* #applyMetadata, for metadata and for removals: the overlay file is replaced atomically first.
SaveOverlay(p) ==
    /\ Admitted /\ nextId \in Ids
    /\ IsMetadataOnly(p) \/ IsRemovalOnly(p)
    /\ p # svc.fleet
    /\ overlay' = [overlay EXCEPT ![svc.active] =
                     [id |-> nextId, meta |-> p.meta,
                      removed |-> svc.overlay.removed \cup (svc.fleet.targets \ p.targets)]]
    /\ nextId' = nextId + 1
    /\ op' = Started("overlay", p, None)
    /\ promised' = promised \cup {p}
    /\ UNCHANGED <<dir, content, pointer, vault, svc, daemon, view, faults>>

\* The daemon took the new directory, or revoked access and only failed to clean up.
OverlayApplied ==
    /\ op.pc = "overlay"
    /\ daemon' = [daemon EXCEPT !.profile = op.profile]
    /\ svc' = [svc EXCEPT !.overlay = overlay[svc.active], !.fleet = op.profile]
    /\ promised' = {op.profile}
    /\ op' = Idle
    /\ UNCHANGED <<durable, view, faults>>

\* The daemon refused (executions are active, or an error): the previous overlay file is put back.
OverlayRefused ==
    /\ op.pc = "overlay"
    /\ Failure
    /\ overlay' = [overlay EXCEPT ![svc.active] = svc.overlay]
    /\ promised' = op.before
    /\ op' = Idle
    /\ UNCHANGED <<dir, content, pointer, vault, nextId, svc, daemon, view>>

\* Putting it back failed as well: nothing is served until a restart or another save.
OverlayStuck ==
    /\ op.pc = "overlay"
    /\ Failure
    /\ svc' = [svc EXCEPT !.state = "error", !.trusted = FALSE]
    /\ daemon' = NoDaemon
    /\ op' = Idle
    /\ UNCHANGED <<durable, view, promised>>

\* #stageRevision: the profile, its keys and its known hosts are copied into a staging directory.
SaveFull(p) ==
    /\ Admitted /\ nextId \in Ids
    /\ ~IsMetadataOnly(p) /\ ~IsRemovalOnly(p)
    /\ p.targets \subseteq vault
    /\ dir' = [dir EXCEPT ![nextId] = "staging"]
    /\ content' = [content EXCEPT ![nextId] = p]
    /\ nextId' = nextId + 1
    /\ op' = Started("publish", p, nextId)
    /\ promised' = promised \cup {p}
    /\ UNCHANGED <<pointer, overlay, vault, svc, daemon, view, faults>>

Publish == /\ op.pc = "publish"
           /\ dir' = [dir EXCEPT ![op.staged] = "published"]
           /\ op' = [op EXCEPT !.pc = "pruneStaged"]
           /\ UNCHANGED <<content, pointer, overlay, vault, nextId, svc, daemon, view, promised, faults>>

\* A copy or a check failed, before or after the rename.
StageFails == /\ op.pc \in {"publish", "pruneStaged"}
              /\ Failure
              /\ op' = [op EXCEPT !.pc = "discard"]
              /\ UNCHANGED <<durable, svc, daemon, view, promised>>

\* A daemon is started if there is none, then the pointer is replaced.
Commit == /\ op.pc = "commit"
          /\ daemon' = IF daemon = NoDaemon THEN [profile |-> op.profile, open |-> FALSE] ELSE daemon
          /\ pointer' = [revision |-> op.staged, previous |-> svc.active, quarantined |-> {}]
          /\ op' = [op EXCEPT !.pc = "reload"]
          /\ UNCHANGED <<dir, content, overlay, vault, nextId, svc, view, promised, faults>>

CommitFails == /\ op.pc = "commit"
               /\ Failure
               /\ svc' = [svc EXCEPT !.state = op.prior, !.trusted = TRUE]
               /\ op' = [op EXCEPT !.pc = "discard"]
               /\ UNCHANGED <<durable, daemon, view, promised>>

\* The daemon serves the new revision: activated, or reloaded (even if its old generation could not be cleaned up).
Reloaded ==
    /\ op.pc = "reload"
    /\ daemon' = [profile |-> op.profile, open |-> TRUE]
    /\ svc' = [svc EXCEPT !.state = "ready", !.active = op.staged, !.pointer = pointer,
                          !.overlay = NoOverlay, !.fleet = op.profile]
    /\ op' = [op EXCEPT !.pc = "pruneApplied"]
    /\ UNCHANGED <<durable, view, promised, faults>>

\* restoreActivePointer succeeded: the previous fields, pointer and generation stay in force.
ReloadUndone ==
    /\ op.pc = "reload" /\ daemon.open
    /\ Failure
    /\ pointer' = svc.pointer
    /\ svc' = [svc EXCEPT !.state = op.prior, !.trusted = TRUE]
    /\ op' = [op EXCEPT !.pc = "discard"]
    /\ UNCHANGED <<dir, content, overlay, vault, nextId, daemon, view, promised>>

\* It did not, or could not be confirmed: the daemon stops and the service forgets what it served.
ReloadStuck ==
    /\ op.pc = "reload" /\ daemon.open
    /\ Failure
    /\ pointer' \in {pointer, svc.pointer}
    /\ svc' = [Down EXCEPT !.up = TRUE, !.closed = svc.closed, !.state = "error"]
    /\ daemon' = NoDaemon
    /\ op' = [op EXCEPT !.pc = "discard", !.before = promised]
    /\ UNCHANGED <<dir, content, overlay, vault, nextId, view, promised>>

\* The staged revision is removed as far as that works, and the caller is told that the save failed.
\* Without a pointer a published revision that stays behind is what a restart recovers.
Discard ==
    /\ op.pc = "discard"
    /\ \/ /\ dir' = [dir EXCEPT ![op.staged] = IF op.staged \in NamedBy(pointer) THEN @ ELSE "none"]
          /\ UNCHANGED faults
       \/ /\ Failure
          /\ \E left \in {dir[op.staged], "broken"} :
                /\ left = "broken" => dir[op.staged] = "published" /\ op.staged \notin NamedBy(pointer)
                /\ dir' = [dir EXCEPT ![op.staged] = left]
    /\ promised' = op.before \cup (IF pointer = NoPointer /\ dir'[op.staged] = "published"
                                   THEN {op.profile} ELSE {})
    /\ content' = Kept(dir')
    /\ op' = Idle
    /\ UNCHANGED <<pointer, overlay, vault, nextId, svc, daemon, view>>

-----------------------------------------------------------------------------
(***************************************************************************)
(* removeManagedKey and the two ways a key returns (generate, import).     *)
(***************************************************************************)
\* #retainedKeyReferences: the fleet in memory and the profile of every published revision.
ReferencedKeys == svc.fleet.targets \cup UNION {content[r].targets : r \in Present}

RemoveKey(k) == /\ svc.up /\ ~svc.closed /\ op.pc = "idle"
                /\ svc.trusted
                /\ k \in vault \ ReferencedKeys
                /\ vault' = vault \ {k}
                /\ UNCHANGED <<dir, content, pointer, overlay, nextId, svc, daemon, op, view, promised, faults>>

AddKey(k) == /\ svc.up /\ ~svc.closed /\ op.pc = "idle"
             /\ k \notin vault
             /\ vault' = vault \cup {k}
             /\ UNCHANGED <<dir, content, pointer, overlay, nextId, svc, daemon, op, view, promised, faults>>

(***************************************************************************)
(* close, the loss of the process, and damage to a saved revision.         *)
(***************************************************************************)
Close == /\ svc.up /\ ~svc.closed /\ op.pc \notin {"recover", "activate", "pruneInit"}
         /\ svc' = [svc EXCEPT !.closed = TRUE]
         /\ UNCHANGED <<durable, daemon, op, view, promised, faults>>

\* close waits for the operation, stops the daemon and releases the setup lease.
Closed == /\ svc.closed /\ op.pc = "idle"
          /\ svc' = Down
          /\ daemon' = NoDaemon
          /\ UNCHANGED <<durable, op, view, promised, faults>>

Crash == /\ svc.up
         /\ faults.crashes < MaxCrashes
         /\ faults' = [faults EXCEPT !.crashes = @ + 1]
         /\ IF op.pc \in PruneCalls THEN StoppedPruning ELSE UNCHANGED <<dir, content>>
         /\ svc' = Down
         /\ daemon' = NoDaemon
         /\ op' = Idle
         /\ UNCHANGED <<pointer, overlay, vault, nextId, view, promised>>

\* A revision stops validating while the service is down: no promise survives that.
Damage(r) == /\ ~svc.up /\ dir[r] = "published"
             /\ faults.damage < MaxDamage
             /\ faults' = [faults EXCEPT !.damage = @ + 1]
             /\ dir' = [dir EXCEPT ![r] = "damaged"]
             /\ promised' = Profiles \cup {NoProfile}
             /\ UNCHANGED <<content, pointer, overlay, vault, nextId, svc, daemon, op, view>>

Next == \/ StartProcess \/ InitEmpty \/ InitUnrecoverable \/ InitSelect \/ InitFails \/ InitActivate
        \/ Prune \/ PruneFails
        \/ Read
        \/ \E p \in Profiles : SaveOverlay(p) \/ SaveFull(p)
        \/ OverlayApplied \/ OverlayRefused \/ OverlayStuck
        \/ Publish \/ StageFails \/ Commit \/ CommitFails
        \/ Reloaded \/ ReloadUndone \/ ReloadStuck \/ Discard
        \/ \E k \in Targets : RemoveKey(k) \/ AddKey(k)
        \/ Close \/ Closed \/ Crash
        \/ \E r \in Ids : Damage(r)

Spec == Init /\ [][Next]_vars
-----------------------------------------------------------------------------
TypeOK == /\ dir \in [Ids -> {"none", "staging", "published", "broken", "damaged"}]
          /\ content \in [Ids -> Profiles \cup {NoProfile}]
          /\ NamedBy(pointer) \subseteq Ids
          /\ vault \subseteq Targets
          /\ svc.state \in {"unconfigured", "starting", "ready", "error"}
          /\ nextId \in 1 .. MaxId + 1
          /\ promised \subseteq Profiles \cup {NoProfile}

\* The revision the active pointer names and the one it would roll back to are whole on disk at every step of
\* staging, pruning, committing and undoing, so a crash anywhere leaves initialize something to serve
\* (writeActivePointer after publication, removeInactiveRevision's check of the pointer, three revisions kept
\* while a save is undecided).
PointerNamesWhole == \A r \in Tracked(pointer) : dir[r] \in {"published", "damaged"}

\* What an open gateway serves is what was last acknowledged: an accepted save, removals included, survives
\* crashes and restarts, a save that was reported as failed never comes into force later (unless it was the
\* first ever and its directory could not be removed), and a save nobody answered is either wholly in force or not
\* at all.  Only a revision that stopped validating voids this.
ServesWhatWasSaved == /\ daemon.open => daemon.profile \in promised
                      /\ svc.up /\ op.pc = "idle" /\ svc.state = "unconfigured" => NoProfile \in promised

\* When the service is ready and no operation runs, the fields it reports, the files a restart would read and
\* the directory the gateway serves are the same configuration ("a page told success has both disk and gateway
\* updated").
DiskMatchesGateway ==
    svc.state = "ready" /\ op.pc = "idle" =>
        /\ daemon = [profile |-> svc.fleet, open |-> TRUE]
        /\ pointer = svc.pointer /\ pointer.revision = svc.active
        /\ overlay[svc.active] = svc.overlay
        /\ svc.fleet = ApplyMetadataOverlay(content[svc.active], svc.overlay)

\* A key is never removed while a revision the pointer can bring back, or the served fleet, needs it.
RetainedKeysKept == /\ UNION {content[r].targets : r \in Tracked(pointer)} \subseteq vault
                    /\ daemon.profile.targets \subseteq vault

\* What the pointer can bring back can be served: its revisions are whole and their keys are in the vault.
RollbackPossible == TypeOK /\ PointerNamesWhole /\ RetainedKeysKept

\* The caller, the disk and the gateway agree on the configuration: nothing acknowledged is lost, nothing refused
\* comes into force, and a restart would serve what is served now.
ServedAsSaved == ServesWhatWasSaved /\ DiskMatchesGateway

\* A save that is admitted was computed from the configuration it replaces: the revision a page holds
\* identifies one fleet, across overlays, undone saves and restarts.
NoLostUpdate == [][op.pc = "idle" /\ op'.pc \in {"overlay", "publish"} => view.profile = svc.fleet]_vars
=============================================================================
