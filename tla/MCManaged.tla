----------------------------- MODULE MCManaged -----------------------------
(***************************************************************************)
(* What the management page and the daemon keep on disk side by side: the  *)
(* managed configuration, the key vault and the lease on the data          *)
(* directory.  The three share no state (ManagedConfig sees the vault as   *)
(* the set of keys it holds), so a behaviour is one of the part `under`    *)
(* names.                                                                  *)
(***************************************************************************)
EXTENDS ManagedConfig, TLC

CONSTANTS MaxKeys, Materials, Labels, KeyFailures, KeyCrashes,
          Procs, MaxAttempts, MaxDeaths

\* Labels are character strings in the code, so uniqueMigrationLabel always finds a free one.
ASSUME LabelsAssumption ==
    /\ MaxKeys \in Nat
    /\ \E S \in SUBSET Labels : IsFiniteSet(S) /\ Cardinality(S) = MaxKeys

\* Process identifiers are numbers: nobody is called None or Torn. Somebody starts.
ASSUME LeaseAssumption == Procs # {} /\ {"none", "torn"} \cap Procs = {} /\ MaxDeaths \in Nat

VARIABLES under,
          entry, meta, manifest, records, phase, job, nextKey, held, dropped, failures, crashes,
          lockDir, owner, claim, desc, pc, alive, attempt, seenOwner, seenClaim

Vault == INSTANCE ManagedKeys WITH MaxFailures <- KeyFailures, MaxCrashes <- KeyCrashes
Lease == INSTANCE RuntimeLease

vaultVars == <<entry, meta, manifest, records, phase, job, nextKey, held, dropped, failures, crashes>>
leaseVars == <<lockDir, owner, claim, desc, pc, alive, attempt, seenOwner, seenClaim>>
allVars == <<under, vars, vaultVars, leaseVars>>

\* A part that does not move stays in its initial state.
AllInit ==
    /\ under \in {"config", "vault", "lease"}
    /\ Init /\ Vault!Init /\ Lease!Init

AllNext ==
    \/ under = "config" /\ Next /\ UNCHANGED <<under, vaultVars, leaseVars>>
    \/ under = "vault" /\ Vault!Next /\ UNCHANGED <<under, vars, leaseVars>>
    \/ under = "lease" /\ Lease!Next /\ UNCHANGED <<under, vars, vaultVars>>

AllSpec == AllInit /\ [][AllNext]_allVars

\* Machines are interchangeable, and so are the values of their metadata.
Symmetry == Permutations(Targets) \cup Permutations(Metas)

----------------------------------------------------------------------------
(* The properties of the configuration, of the vault and of the lease.     *)

\* What was saved can be served: every revision the pointer can bring back is whole with
\* its keys (RollbackPossible), and the caller, the disk and the gateway agree on the
\* configuration, so that a restart serves what is served now (ServedAsSaved).
RevisionsServed == RollbackPossible /\ ServedAsSaved

\* Every key a caller was told of is on disk in full under its latest label until its
\* removal is committed, a removed key is never offered again (ManagedKeys!VaultAsAnswered),
\* and the vault can be opened at every restart, unless the directory of a failed
\* publication was left half-removed or was imported a second time (ManagedKeys!VaultOpens).
VaultKept == Vault!VaultAsAnswered /\ Vault!VaultOpens

\* RuntimeLease!LeaseIsHeld: two live processes never hold the lease together, the holder's
\* lock and descriptor are the ones on disk, and contention leaves the lease to somebody.
LeaseIsHeld == Lease!LeaseIsHeld
============================================================================
