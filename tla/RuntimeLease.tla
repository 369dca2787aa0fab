---------------------------- MODULE RuntimeLease -----------------------------
(***************************************************************************)
(* The single-instance lease of a data directory: createRuntimeDescriptor  *)
(* of src/daemon/runtime-state.ts, taken by the gateway daemon and, on its *)
(* own directory, by the setup interface.                                  *)
(*                                                                         *)
(* The lock is the directory runtime.lock with owner.json in it, put in    *)
(* place complete by a rename.  A contender that finds a dead owner makes  *)
(* itself the one recoverer with an exclusively created reclaim.json,      *)
(* checks the owner again, removes both files and the directory and tries  *)
(* again.  Every file operation is by name and is a step of its own: what  *)
(* was read may have been replaced by the time it is removed.  A process   *)
(* that dies stays dead; process identifiers are not reused.               *)
(***************************************************************************)
EXTENDS Naturals, FiniteSets

CONSTANTS Procs,        \* processes that start on the data directory
          MaxAttempts,  \* acquireRuntimeLock's attempts (4 in the code)
          MaxDeaths     \* bound: processes that die without releasing

VARIABLES lockDir,   \* runtime.lock exists
          owner,     \* owner.json in it: a process, or None
          claim,     \* reclaim.json in it: a process, None, or Torn when its writer died half-way
          desc,      \* runtime.json, the descriptor clients connect by
          pc, alive, attempt,
          seenOwner, seenClaim   \* what each process read

vars == <<lockDir, owner, claim, desc, pc, alive, attempt, seenOwner, seenClaim>>
files == <<lockDir, owner, claim, desc>>
memory == <<alive, attempt, seenOwner, seenClaim>>

None == "none"
Torn == "torn"
Dead(p) == p \in Procs /\ ~alive[p]

Init == /\ lockDir = FALSE /\ owner = None /\ claim = None /\ desc = None
        /\ pc = [p \in Procs |-> "acquire"]
        /\ alive = [p \in Procs |-> TRUE]
        /\ attempt = [p \in Procs |-> 1]
        /\ seenOwner = [p \in Procs |-> None]
        /\ seenClaim = [p \in Procs |-> None]

At(p, label) == alive[p] /\ pc[p] = label
Goto(p, label) == pc' = [pc EXCEPT ![p] = label]
\* The loop of acquireRuntimeLock: another attempt, or the final error.
Retry(p) == /\ attempt' = [attempt EXCEPT ![p] = @ + 1]
            /\ Goto(p, IF attempt[p] < MaxAttempts THEN "acquire" ELSE "failed")

\* The prepared directory is renamed into place; an empty lock directory is no obstacle to a POSIX rename.
Rename(p) == /\ At(p, "acquire")
             /\ IF lockDir /\ (owner # None \/ claim # None)
                THEN Goto(p, "readOwner") /\ UNCHANGED files
                ELSE /\ lockDir' = TRUE /\ owner' = p
                     /\ Goto(p, "checkDescriptor")
                     /\ UNCHANGED <<claim, desc>>
             /\ UNCHANGED memory

\* The lock directory is there and empty, and the rename of this platform does not replace directories.
RenameRefused(p) == /\ At(p, "acquire") /\ lockDir /\ owner = None /\ claim = None
                    /\ Goto(p, "readOwner")
                    /\ UNCHANGED <<files, memory>>

\* rejectLiveLockOrRemoveStale
ReadOwner(p) == /\ At(p, "readOwner")
                /\ \/ ~lockDir /\ Retry(p) /\ UNCHANGED seenOwner
                   \/ /\ lockDir /\ owner = None
                      /\ Goto(p, "readDirectory") /\ UNCHANGED <<attempt, seenOwner>>
                   \/ /\ lockDir /\ owner # None /\ ~Dead(owner)
                      /\ Goto(p, "refused") /\ UNCHANGED <<attempt, seenOwner>>
                   \/ /\ lockDir /\ Dead(owner)
                      /\ seenOwner' = [seenOwner EXCEPT ![p] = owner]
                      /\ Goto(p, "claim") /\ UNCHANGED attempt
                /\ UNCHANGED <<files, alive, seenClaim>>

\* writeExclusiveJson of reclaim.json, the first time and after a dead claim was removed.
Claim(p) == /\ At(p, "claim") \/ At(p, "claimAgain")
            /\ \/ ~lockDir /\ Goto(p, "failed") /\ UNCHANGED claim
               \/ lockDir /\ claim = None /\ claim' = p /\ Goto(p, "verify")
               \/ /\ lockDir /\ claim # None
                  /\ Goto(p, IF pc[p] = "claim" THEN "readClaim" ELSE "failed") /\ UNCHANGED claim
            /\ UNCHANGED <<lockDir, owner, desc, memory>>

ReadClaim(p) == /\ At(p, "readClaim")
                /\ IF lockDir /\ Dead(claim)
                   THEN Goto(p, "checkClaim") /\ seenClaim' = [seenClaim EXCEPT ![p] = claim]
                   ELSE Goto(p, IF claim \in Procs THEN "refused" ELSE "failed") /\ UNCHANGED seenClaim
                /\ UNCHANGED <<files, alive, attempt, seenOwner>>

\* removeOwnedFile of a dead claim: read and compared, then removed by name.
CheckClaim(p) == /\ At(p, "checkClaim")
                 /\ Goto(p, IF claim = seenClaim[p] THEN "dropClaim" ELSE "failed")
                 /\ UNCHANGED <<files, memory>>
DropClaim(p) == /\ At(p, "dropClaim")
                /\ claim' = None
                /\ Goto(p, IF claim = None THEN "failed" ELSE "claimAgain")
                /\ UNCHANGED <<lockDir, owner, desc, memory>>

\* Mutant: the owner is not read again under the claim.
VerifyNothing(p) == /\ At(p, "verify")
                    /\ Goto(p, "unlinkOwner")
                    /\ UNCHANGED <<files, memory>>

\* The owner must still be the dead one that was read before the claim.
Verify(p) == /\ At(p, "verify")
             /\ Goto(p, IF lockDir /\ owner = seenOwner[p] THEN "unlinkOwner" ELSE "unclaim")
             /\ UNCHANGED <<files, memory>>
UnlinkOwner(p) == /\ At(p, "unlinkOwner")
                  /\ owner' = None
                  /\ Goto(p, IF owner = None THEN "unclaim" ELSE "checkOwnClaim")
                  /\ UNCHANGED <<lockDir, claim, desc, memory>>
CheckOwnClaim(p) == /\ At(p, "checkOwnClaim")
                    /\ Goto(p, IF claim = p THEN "dropOwnClaim" ELSE "unclaim")
                    /\ UNCHANGED <<files, memory>>
DropOwnClaim(p) == /\ At(p, "dropOwnClaim")
                   /\ claim' = None
                   /\ Goto(p, IF claim = None THEN "unclaim" ELSE "removeDirectory")
                   /\ UNCHANGED <<lockDir, owner, desc, memory>>
\* A directory that is gone is as good as removed; one with a new entry is an error.
RemoveDirectory(p) == /\ At(p, "removeDirectory")
                      /\ IF owner = None /\ claim = None
                         THEN lockDir' = FALSE /\ Retry(p)
                         ELSE UNCHANGED <<lockDir, attempt>> /\ Goto(p, "unclaim")
                      /\ UNCHANGED <<owner, claim, desc, alive, seenOwner, seenClaim>>
\* The error path of the recovery: its own claim is taken back.
Unclaim(p) == /\ At(p, "unclaim")
              /\ claim' = IF claim = p THEN None ELSE claim
              /\ Goto(p, "failed")
              /\ UNCHANGED <<lockDir, owner, desc, memory>>

\* recoverIncompleteLockDirectory: no owner.json was found.
ReadDirectory(p) == /\ At(p, "readDirectory")
                    /\ \/ ~lockDir /\ Retry(p) /\ UNCHANGED seenClaim
                       \/ /\ lockDir /\ owner # None
                          /\ Goto(p, "failed") /\ UNCHANGED <<attempt, seenClaim>>
                       \/ /\ lockDir /\ owner = None /\ claim = None
                          /\ Goto(p, "removeIncomplete") /\ UNCHANGED <<attempt, seenClaim>>
                       \/ /\ lockDir /\ owner = None /\ Dead(claim)
                          /\ seenClaim' = [seenClaim EXCEPT ![p] = claim]
                          /\ Goto(p, "dropDeadClaim") /\ UNCHANGED attempt
                       \/ /\ lockDir /\ owner = None /\ claim # None /\ ~Dead(claim)
                          /\ Goto(p, IF claim = Torn THEN "failed" ELSE "refused")
                          /\ UNCHANGED <<attempt, seenClaim>>
                    /\ UNCHANGED <<files, alive, seenOwner>>
DropDeadClaim(p) == /\ At(p, "dropDeadClaim")
                    /\ claim' = IF claim = seenClaim[p] THEN None ELSE claim
                    /\ Goto(p, IF claim \in {seenClaim[p], None} THEN "removeIncomplete" ELSE "failed")
                    /\ UNCHANGED <<lockDir, owner, desc, memory>>
RemoveIncomplete(p) == /\ At(p, "removeIncomplete")
                       /\ lockDir' = (lockDir /\ (owner # None \/ claim # None))
                       /\ Retry(p)
                       /\ UNCHANGED <<owner, claim, desc, alive, seenOwner, seenClaim>>

\* rejectLiveDaemonOrRemoveStale, then writeRuntimeDescriptor.
CheckDescriptor(p) == /\ At(p, "checkDescriptor")
                      /\ Goto(p, IF desc = None THEN "writeDescriptor"
                                 ELSE IF Dead(desc) THEN "dropDescriptor" ELSE "unlockRefused")
                      /\ UNCHANGED <<files, memory>>
DropDescriptor(p) == /\ At(p, "dropDescriptor")
                     /\ desc' = None
                     /\ Goto(p, "writeDescriptor")
                     /\ UNCHANGED <<lockDir, owner, claim, memory>>
WriteDescriptor(p) == /\ At(p, "writeDescriptor")
                      /\ desc' = p
                      /\ Goto(p, "holding")
                      /\ UNCHANGED <<lockDir, owner, claim, memory>>

\* removeRuntimeDescriptor: only a descriptor that is still its own.
DescriptorWithout(p) == IF desc = p THEN None ELSE desc
\* releaseRuntimeLease: the descriptor, then the lock.
Release(p) == /\ At(p, "holding")
              /\ desc' = DescriptorWithout(p)
              /\ Goto(p, "unlock")
              /\ UNCHANGED <<lockDir, owner, claim, memory>>
ReadOwnLock(p) == /\ At(p, "unlock") \/ At(p, "unlockRefused")
                  /\ Goto(p, IF owner = p THEN "unlinkOwn" ELSE "released")
                  /\ UNCHANGED <<files, memory>>
UnlinkOwn(p) == /\ At(p, "unlinkOwn")
                /\ owner' = None
                /\ Goto(p, "removeOwnDirectory")
                /\ UNCHANGED <<lockDir, claim, desc, memory>>
RemoveOwnDirectory(p) == /\ At(p, "removeOwnDirectory")
                         /\ lockDir' = (lockDir /\ (owner # None \/ claim # None))
                         /\ Goto(p, "released")
                         /\ UNCHANGED <<owner, claim, desc, memory>>

Finished == {"released", "refused", "failed"}

\* The process is lost; a claim it was just writing may stay behind unreadable.
Die(p) == /\ alive[p] /\ pc[p] \notin Finished
          /\ Cardinality({q \in Procs : ~alive[q]}) < MaxDeaths
          /\ alive' = [alive EXCEPT ![p] = FALSE]
          /\ claim' \in {claim} \cup (IF claim = p /\ pc[p] = "verify" THEN {Torn} ELSE {})
          /\ UNCHANGED <<lockDir, owner, desc, pc, attempt, seenOwner, seenClaim>>

Step(p) == \/ Rename(p) \/ RenameRefused(p) \/ ReadOwner(p) \/ Claim(p) \/ ReadClaim(p) \/ CheckClaim(p)
           \/ DropClaim(p) \/ Verify(p) \/ UnlinkOwner(p) \/ CheckOwnClaim(p) \/ DropOwnClaim(p)
           \/ RemoveDirectory(p) \/ Unclaim(p) \/ ReadDirectory(p) \/ DropDeadClaim(p) \/ RemoveIncomplete(p)
           \/ CheckDescriptor(p) \/ DropDescriptor(p) \/ WriteDescriptor(p)
           \/ ReadOwnLock(p) \/ UnlinkOwn(p) \/ RemoveOwnDirectory(p)

Next == \E p \in Procs : Step(p) \/ Release(p) \/ Die(p)

Spec == Init /\ [][Next]_vars

-----------------------------------------------------------------------------
\* The lease is exclusive: two live processes never hold it together, and the live holder's descriptor and lock
\* are the ones on disk, so clients reach it and nobody takes it for dead.
OneHolder == \A p \in Procs : At(p, "holding") =>
                /\ \A q \in Procs : At(q, "holding") => q = p
                /\ desc = p /\ lockDir /\ owner = p

\* A directory is never lost to contention: when everybody has finished, somebody held the lease, or died.
SomebodyHeld == (\A p \in Procs : pc[p] \in {"refused", "failed"}) => \E p \in Procs : ~alive[p]

\* One daemon, and a directory that is not lost: acquireRuntimeLock and its reclaim of a dead owner's lock let
\* exactly one contender through.
LeaseIsHeld == OneHolder /\ SomebodyHeld
=============================================================================
