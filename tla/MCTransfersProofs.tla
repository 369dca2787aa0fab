------------------------- MODULE MCTransfersProofs -------------------------
(***************************************************************************)
(* Proofs about the bytes on their way, as MCTransfers puts them side by   *)
(* side: for any number of downloads and uploads, any file size, and any   *)
(* number of changes, faults and crashes.                                  *)
(***************************************************************************)
EXTENDS MCTransfers, SequenceTheorems, FiniteSetTheorems, WellFoundedInduction, TLAPS

\* The parts share nothing: a step of the whole is for each part a step of its own or none.
LEMMA StepOfParts ==
    ASSUME [AllNext]_allVars
    PROVE  /\ [Next]_vars
           /\ [Upload!Next]_uploadVars
           /\ [Process!Next]_processVars
           /\ [Sync!Next]_syncVars
           /\ [Text!Next]_textVars
<1>1. CASE under = "download" /\ Next /\ UNCHANGED <<under, uploadVars, processVars, textVars, syncVars>>
  BY <1>1
<1>2. CASE under = "upload" /\ Upload!Next /\ UNCHANGED <<under, vars, processVars, textVars, syncVars>>
  BY <1>2
<1>3. CASE under = "process" /\ Process!Next /\ UNCHANGED <<under, vars, uploadVars, textVars, syncVars>>
  BY <1>3
<1>4. CASE under = "text" /\ Text!Next /\ UNCHANGED <<under, vars, uploadVars, processVars, syncVars>>
  BY <1>4
<1>5. CASE under = "sync" /\ Sync!Next /\ UNCHANGED <<under, vars, uploadVars, processVars, textVars>>
  BY <1>5
<1>6. CASE UNCHANGED allVars
  BY <1>6 DEF allVars
<1>7. QED
  BY <1>1, <1>2, <1>3, <1>4, <1>5, <1>6 DEF AllNext

----------------------------------------------------------------------------
(* The supervised process.                                                 *)

ProcessTypes ==
    /\ Process!TypeOK
    /\ pReason \in {"none", "aborted", "failed"}
    /\ pBroken \in {"none", "output", "process"}
    /\ pWatched \in BOOLEAN /\ pPayload \in BOOLEAN /\ pAgain \in BOOLEAN
    /\ pAborted \in BOOLEAN /\ pAsked \in BOOLEAN /\ pInTime \in BOOLEAN

\* What has not begun has nothing, and only a run that is over has a result.
ProcessBegins ==
    /\ pPhase = "new" => pRoot = "none" /\ pTree = "none" /\ pTerm = "none" /\ pBroken = "none"
    /\ pResult # "none" <=> pPhase = "done"
    /\ pRoot = "none" => pPhase = "new" \/ pResult = "aborted"

\* The job takes the tree along, and what was never started has none.
ProcessDies ==
    /\ pMode = "windows-job" /\ pRoot # "alive" => ~Process!AliveTree
    /\ pBroken = "process" => pRoot = "dead" /\ pTree = "none"
    /\ pRoot = "none" => pTree = "none"

\* A termination that is over has left nothing, unless it says so, and an abort or a rejected
\* chunk has asked for one.
ProcessTerminated ==
    /\ pTerm = "done" => pRoot # "alive" /\ (pMode # Process!Unsafe => ~Process!AliveTree)
    /\ pAsked \/ pBroken = "output" => pTerm # "none"

\* A signal is taken to where it is answered.
SignalHeld ==
    /\ pInTime => pAborted
    /\ pPhase \in {"running", "closed"} /\ pInTime => pAsked
    /\ pPhase = "undo" => pReason \in {"aborted", "failed"}

ProcessInv == /\ ProcessTypes /\ ProcessBegins /\ ProcessDies /\ ProcessTerminated /\ SignalHeld
              /\ ProcessEndsAsReported

LEMMA ProcessInit == Process!Init => ProcessInv
BY DEF ProcessInv, ProcessTypes, ProcessBegins, ProcessDies, ProcessTerminated, SignalHeld, ProcessEndsAsReported,
       Process!Init, Process!TypeOK, Process!Modes, Process!Unsafe, Process!AliveTree, Process!NoProcessLeft,
       Process!AbortHeard
LEMMA ProcessStep == ASSUME ProcessInv, Process!Next PROVE ProcessInv'
<1> USE DEF ProcessInv, ProcessTypes, ProcessBegins, ProcessDies, ProcessTerminated, SignalHeld, ProcessEndsAsReported,
            Process!TypeOK, Process!Modes, Process!Unsafe, Process!AliveTree, Process!NoProcessLeft, Process!AbortHeard
<1>1. CASE Process!Begin
  BY <1>1 DEF Process!Begin, Process!Return
<1>2. CASE Process!HandshakeDone
  BY <1>2 DEF Process!HandshakeDone, Process!Prepared, Process!Terminating
<1>3. CASE Process!HandshakeFails
  BY <1>3 DEF Process!HandshakeFails, Process!Undo, Process!Terminating
<1>4. CASE Process!PayloadWritten
  BY <1>4 DEF Process!PayloadWritten, Process!Prepared, Process!Terminating
<1>5. CASE Process!PayloadFails
  BY <1>5 DEF Process!PayloadFails, Process!Undo, Process!Terminating
<1>6. CASE Process!Undone
  <2>1. CASE pTerm = "failed" /\ pAgain
    <3>1. /\ pTerm' = "asked" /\ pAgain' = FALSE
          /\ UNCHANGED <<pMode, pPayload, pWatched, pPhase, pReason, pRoot, pTree, pAborted, pAsked, pBroken, pResult,
                         pInTime>>
      BY <1>6, <2>1 DEF Process!Undone
    <3>2. pResult = "none"
      BY <1>6 DEF Process!Undone
    <3>3. Process!TypeOK'
      BY <3>1
    <3>4. pAgain' \in BOOLEAN
      BY <3>1
    <3>5. pWatched' \in BOOLEAN /\ pPayload' \in BOOLEAN /\ pAborted' \in BOOLEAN /\ pAsked' \in BOOLEAN
      BY <3>1
    <3>6. pInTime' \in BOOLEAN /\ pReason' \in {"none", "aborted", "failed"}
      BY <3>1
    <3>7. ProcessTypes'
      BY <3>1, <3>3, <3>4, <3>5, <3>6
    <3>8. ProcessBegins' /\ ProcessDies'
      BY <1>6, <3>1 DEF Process!Undone
    <3>9. ProcessTerminated'
      BY <3>1
    <3>10. SignalHeld' /\ ProcessEndsAsReported'
      BY <3>1, <3>2
    <3>11. QED
      BY <3>7, <3>8, <3>9, <3>10
  <2>2. CASE pTerm = "failed" /\ ~pAgain
    BY <1>6, <2>2 DEF Process!Undone, Process!Return
  <2>3. CASE pTerm = "done"
    BY <1>6, <2>3 DEF Process!Undone, Process!Return
  <2>4. QED
    BY <1>6, <2>1, <2>2, <2>3 DEF Process!Undone
<1>7. CASE Process!Abort
  <2>1. pInTime' \in BOOLEAN /\ pAborted' = TRUE
    BY <1>7 DEF Process!Abort
  <2>2. CASE pPhase \in {"handshake", "payload"} /\ pWatched
    BY <1>7, <2>1, <2>2 DEF Process!Abort, Process!Undo, Process!Terminating
  <2>3. CASE pPhase = "running"
    BY <1>7, <2>1, <2>3 DEF Process!Abort, Process!Terminating
  <2>4. CASE pPhase # "running" /\ ~(pPhase \in {"handshake", "payload"} /\ pWatched)
    BY <1>7, <2>1, <2>4 DEF Process!Abort
  <2>5. QED
    BY <2>2, <2>3, <2>4
<1>8. CASE Process!SinkFails
  BY <1>8 DEF Process!SinkFails, Process!Terminating
<1>9. CASE Process!CloseEvent
  BY <1>9 DEF Process!CloseEvent, Process!Closed
<1>10. CASE Process!Finish
  BY <1>10 DEF Process!Finish, Process!Outcomes, Process!Closed, Process!Return
<1>11. CASE Process!TreeKilled
  BY <1>11 DEF Process!TreeKilled, Process!Dies
<1>12. CASE Process!TerminationSeen
  BY <1>12 DEF Process!TerminationSeen, Process!Gone
<1>13. CASE Process!TerminationTimeout
  BY <1>13 DEF Process!TerminationTimeout, Process!Dies
<1>14. CASE Process!ForceKillFails
  BY <1>14 DEF Process!ForceKillFails
<1>15. CASE Process!RootExits
  BY <1>15 DEF Process!RootExits
<1>16. CASE Process!TreeStarts
  BY <1>16 DEF Process!TreeStarts
<1>17. CASE Process!TreeEnds
  BY <1>17 DEF Process!TreeEnds
<1>18. QED
  BY <1>1, <1>2, <1>3, <1>4, <1>5, <1>6, <1>7, <1>8, <1>9, <1>10, <1>11, <1>12, <1>13, <1>14, <1>15, <1>16, <1>17
  DEF Process!Next
LEMMA ProcessKept == ASSUME ProcessInv, UNCHANGED processVars PROVE ProcessInv'
BY DEF processVars, ProcessInv, ProcessTypes, ProcessBegins, ProcessDies, ProcessTerminated, SignalHeld,
       ProcessEndsAsReported, Process!TypeOK, Process!AliveTree, Process!NoProcessLeft, Process!AbortHeard

\* In runs of any length, a run of a process that was aborted or failed has left no process
\* behind, unless it could not be killed and the run says so, or the operator allowed it
\* (spawnManagedProcess, terminate); and a signal that came before the process was seen
\* closed is never answered with the process having ended by itself.
THEOREM ProcessReported == AllSpec => []ProcessEndsAsReported
<1>1. AllInit => ProcessInv
  BY ProcessInit DEF AllInit
<1>2. ProcessInv /\ [AllNext]_allVars => ProcessInv'
  BY StepOfParts, ProcessStep, ProcessKept
<1>3. ProcessInv => ProcessEndsAsReported
  BY DEF ProcessInv
<1>4. QED
  BY <1>1, <1>2, <1>3, PTL DEF AllSpec
----------------------------------------------------------------------------
(* What is left behind: the sync.                                          *)

\* Without a fault the spool of a sync is what it has staged now.
SyncSpoolInv ==
    /\ sFaults \in Nat
    /\ sFaults = 0 => sSpool = IF sPhase \in {"staged", "upload"} THEN {sStaged.file} ELSE {}

LEMMA UnstageEffect ==
    ASSUME SyncSpoolInv, Sync!Unstage, sPhase \in {"staged", "upload"}, sPhase' \notin {"staged", "upload"}
    PROVE  SyncSpoolInv'
<1>1. CASE sSpool' = sSpool \ {sStaged.file} /\ UNCHANGED sFaults
  BY <1>1 DEF SyncSpoolInv
<1>2. CASE sFaults' = sFaults + 1
  BY <1>2 DEF SyncSpoolInv
<1>3. QED
  BY <1>1, <1>2 DEF Sync!Unstage

LEMMA SyncSpoolStep == ASSUME SyncSpoolInv, [Sync!Next]_syncVars PROVE SyncSpoolInv'
<1>1. CASE Sync!Begin
  BY <1>1 DEF SyncSpoolInv, Sync!Begin, Sync!Fail
<1>2. CASE Sync!Scanned
  BY <1>2 DEF SyncSpoolInv, Sync!Scanned
<1>3. CASE Sync!Check
  <2>1. CASE Sync!OverStagedQuota(sStaged.content.size)
    BY <1>3, <2>1, UnstageEffect DEF Sync!Check, Sync!Fail
  <2>2. CASE ~Sync!OverStagedQuota(sStaged.content.size)
    <3>1. CASE sParams.verifyExisting /\ sRemote[sStaged.file] = sStaged.content
      BY <1>3, <2>2, <3>1, UnstageEffect DEF Sync!Check
    <3>2. CASE ~(sParams.verifyExisting /\ sRemote[sStaged.file] = sStaged.content)
      BY <1>3, <2>2, <3>2 DEF SyncSpoolInv, Sync!Check
    <3>3. QED
      BY <3>1, <3>2
  <2>3. QED
    BY <2>1, <2>2
<1>4. CASE Sync!Upload
  <2>1. sPhase = "upload" /\ Sync!Unstage /\ sPhase' \in {"failed", "files"}
    BY <1>4 DEF Sync!Upload, Sync!Fail
  <2>2. QED
    BY <2>1, UnstageEffect
<1>5. CASE Sync!Synced
  BY <1>5 DEF SyncSpoolInv, Sync!Synced
<1>6. CASE Sync!Abort
  BY <1>6 DEF SyncSpoolInv, Sync!Abort
<1>7. ASSUME NEW e \in SyncFiles \cup SyncDirs, Sync!Visit(e)
      PROVE  SyncSpoolInv'
  <2>1. sPhase = "scan" /\ sPhase' \in {"scan", "failed"} /\ UNCHANGED <<sFaults, sSpool, sStaged>>
    BY <1>7 DEF Sync!Visit, Sync!Fail
  <2>2. QED
    BY <2>1 DEF SyncSpoolInv
<1>8. ASSUME NEW f \in SyncFiles, Sync!Stage(f)
      PROVE  SyncSpoolInv'
  <2>1. CASE sPhase' = "failed" /\ UNCHANGED <<sStaged, sSpool>>
    BY <1>8, <2>1 DEF SyncSpoolInv, Sync!Stage
  <2>2. CASE sStaged' = [file |-> f, content |-> sLocal[f]] /\ sSpool' = sSpool \cup {f} /\ sPhase' = "staged"
    BY <1>8, <2>2 DEF SyncSpoolInv, Sync!Stage
  <2>3. QED
    BY <1>8, <2>1, <2>2 DEF Sync!Stage, Sync!Fail
<1>9. ASSUME NEW f \in SyncFiles, Sync!LocalChanges(f)
      PROVE  SyncSpoolInv'
  BY <1>9 DEF SyncSpoolInv, Sync!LocalChanges
<1>10. CASE UNCHANGED syncVars
  BY <1>10 DEF SyncSpoolInv, syncVars
<1>11. QED
  BY <1>1, <1>2, <1>3, <1>4, <1>5, <1>6, <1>7, <1>8, <1>9, <1>10 DEF Sync!Next
----------------------------------------------------------------------------
(* The downloads.                                                          *)

Chunk == (Versions \cup {"missing", "mine", "torn"}) \X Nat

\* Where a download stands: with the lock, or on its way to it.
HoldingPcs == {"inspect", "clear", "describe", "fetch", "verify", "restart", "copy", "publish", "release", "unlock"}
EarlyPcs == {"fingerprint", "resolve", "lock"}
DownloadPcs == HoldingPcs \cup EarlyPcs \cup {"new", "done", "failed"}

DownloadTypes ==
    /\ TypeOK
    /\ part \in [Versions -> Seq(Chunk)] /\ copy \in [Downloads -> Seq(Chunk)]
    /\ params \in [Downloads -> Params]
    /\ faults \in Nat

\* A download holds the lock of its version, alone, and none outlives the daemon it began in.
LockInv ==
    /\ spool # "ready" => Active = {}
    /\ \A d, e \in Holding : d # e => want[d] # want[e]
    /\ spool = "ready" => lock = {want[d] : d \in Holding}

\* What is resumed or preserved has been inspected.
KeepInv == \A d \in keep \cup resumed :
              pc[d] \in {"fetch", "verify", "restart", "copy", "publish", "release", "unlock"}

\* A file can be resumed: it is there and described, or neither.
Sound(v) == part[v] # Missing <=> meta[v] = "valid"

\* Without a fault everything can be resumed but what is being worked on, which can when its lock goes.
ResumableInv ==
    spool = "ready" /\ faults = 0 =>
        /\ \A v \in Versions \ lock : Sound(v)
        /\ \A d \in Downloads : pc[d] = "unlock" => Sound(want[d])

\* What was verified is what is copied, and what was copied is what is published.
ContentInv ==
    \A d \in Downloads :
        /\ pc[d] = "copy" => part[want[d]] = Full(want[d])
        /\ pc[d] = "publish" => copy[d] = Full(want[d])

LocalInv == local \in {Missing, Mine} \cup {Full(v) : v \in Versions}

DownloadInv == DownloadTypes /\ LockInv /\ KeepInv /\ ResumableInv /\ ContentInv /\ LocalInv
\* One download moves on.
LEMMA MovesOn ==
    ASSUME TypeOK, NEW d \in Downloads, NEW q \in DownloadPcs, Goto(d, q)
    PROVE  /\ pc' \in [Downloads -> DownloadPcs]
           /\ pc'[d] = q
           /\ \A e \in Downloads \ {d} : pc'[e] = pc[e]
           /\ Holding' = IF q \in HoldingPcs THEN Holding \cup {d} ELSE Holding \ {d}
           /\ q \notin HoldingPcs \cup EarlyPcs => Active' = Active \ {d}
<1>1. pc \in [Downloads -> DownloadPcs]
  BY DEF TypeOK, DownloadPcs, HoldingPcs, EarlyPcs, Ended
<1>2. pc' = [pc EXCEPT ![d] = q]
  BY DEF Goto
<1>3. /\ pc' \in [Downloads -> DownloadPcs]
      /\ pc'[d] = q
      /\ \A e \in Downloads \ {d} : pc'[e] = pc[e]
  BY <1>1, <1>2
<1>4. Holding = {e \in Downloads : pc[e] \in HoldingPcs} /\ Holding' = {e \in Downloads : pc'[e] \in HoldingPcs}
  BY DEF Holding, HoldingPcs
<1>5. /\ Active = {e \in Downloads : pc[e] \in HoldingPcs \cup EarlyPcs}
      /\ Active' = {e \in Downloads : pc'[e] \in HoldingPcs \cup EarlyPcs}
  BY DEF Active, Holding, HoldingPcs, EarlyPcs
<1>6. CASE q \in HoldingPcs
  BY <1>3, <1>4, <1>6
<1>7. CASE q \notin HoldingPcs
  <2>1. Holding' = Holding \ {d}
    BY <1>3, <1>4, <1>7
  <2>2. q \notin HoldingPcs \cup EarlyPcs => Active' = Active \ {d}
    BY <1>3, <1>5
  <2>3. QED
    BY <1>3, <1>7, <2>1, <2>2
<1>8. QED
  BY <1>6, <1>7

LEMMA ActiveAre ==
    /\ Holding = {e \in Downloads : pc[e] \in HoldingPcs}
    /\ Active = {e \in Downloads : pc[e] \in HoldingPcs \cup EarlyPcs}
BY DEF Holding, Active, HoldingPcs, EarlyPcs

\* A download under way finds the spool ready.
LEMMA SpoolIsReady ==
    ASSUME LockInv, NEW d \in Downloads, pc[d] \in HoldingPcs \cup EarlyPcs
    PROVE  spool = "ready"
BY ActiveAre DEF LockInv

\* A step with the lock held.
LEMMA LockHeld ==
    ASSUME TypeOK, LockInv, NEW d \in Downloads, pc[d] \in HoldingPcs, NEW q \in HoldingPcs, Goto(d, q),
           UNCHANGED <<lock, want, spool>>
    PROVE  LockInv'
<1>1. q \in DownloadPcs
  BY DEF DownloadPcs
<1>2. d \in Holding /\ spool = "ready"
  BY ActiveAre, SpoolIsReady
<1>3. Holding' = Holding
  BY <1>1, <1>2, MovesOn
<1>4. QED
  BY <1>2, <1>3 DEF LockInv

\* A step before the lock is asked for.
LEMMA LockAwaited ==
    ASSUME TypeOK, LockInv, NEW d \in Downloads, pc[d] \notin HoldingPcs,
           NEW q \in DownloadPcs \ HoldingPcs, Goto(d, q), spool = "ready" \/ q \notin EarlyPcs,
           \A e \in Downloads \ {d} : want'[e] = want[e], UNCHANGED <<lock, spool>>
    PROVE  LockInv'
<1>1. d \notin Holding
  BY ActiveAre
<1>2. Holding' = Holding
  BY <1>1, MovesOn
<1>3. \A e \in Holding : want'[e] = want[e]
  BY <1>1 DEF Holding
<1>4. spool' # "ready" => Active' = {}
  BY MovesOn DEF LockInv
<1>5. {want'[e] : e \in Holding'} = {want[e] : e \in Holding}
  BY <1>2, <1>3
<1>6. QED
  BY <1>2, <1>3, <1>4, <1>5 DEF LockInv

\* The lock is given back.
LEMMA LockReleased ==
    ASSUME TypeOK, LockInv, NEW d \in Downloads, pc[d] \in HoldingPcs, NEW q \in {"done", "failed"}, Goto(d, q),
           lock' = lock \ {want[d]}, UNCHANGED <<want, spool>>
    PROVE  LockInv'
<1>1. q \in DownloadPcs /\ q \notin HoldingPcs
  BY DEF DownloadPcs, HoldingPcs
<1>2. d \in Holding /\ spool = "ready"
  BY ActiveAre, SpoolIsReady
<1>3. Holding' = Holding \ {d}
  BY <1>1, MovesOn
<1>4. \A e \in Holding' : want[e] # want[d]
  BY <1>2, <1>3 DEF LockInv
<1>5. lock' = {want[e] : e \in Holding'}
  BY <1>2, <1>3, <1>4 DEF LockInv
<1>6. QED
  BY <1>2, <1>3, <1>5 DEF LockInv
\* A step of a download leaves the partial files of the others alone.
OthersUntouched(d) ==
    /\ \A v \in Versions : (part'[v] = part[v] /\ meta'[v] = meta[v]) \/ (pc[d] \in HoldingPcs /\ v = want[d])
    /\ \A e \in Downloads \ {d} : want'[e] = want[e] /\ copy'[e] = copy[e]

LEMMA ResumableKept ==
    ASSUME DownloadTypes, LockInv, ResumableInv, NEW d \in Downloads, NEW q \in DownloadPcs, Goto(d, q),
           OthersUntouched(d), spool = "ready", faults' = 0 => faults = 0,
           \A v \in Versions \ lock' : v \notin lock \/ (pc[d] = "unlock" /\ v = want[d] /\ UNCHANGED <<part, meta>>),
           q = "unlock" /\ faults' = 0 => Sound(want[d])' /\ want'[d] = want[d]
    PROVE  ResumableInv'
<1> SUFFICES ASSUME faults' = 0
             PROVE  /\ \A v \in Versions \ lock' : Sound(v)'
                    /\ \A e \in Downloads : pc'[e] = "unlock" => Sound(want[e])'
  BY DEF ResumableInv
<1>1. faults = 0 /\ lock = {want[e] : e \in Holding} /\ want \in [Downloads -> Versions]
  BY DEF LockInv, DownloadTypes, TypeOK
<1>2. pc'[d] = q /\ \A e \in Downloads \ {d} : pc'[e] = pc[e]
  BY MovesOn DEF DownloadTypes
<1>3. ASSUME NEW v \in Versions \ lock'
      PROVE  Sound(v)'
  <2>1. CASE v \notin lock
    <3>1. ~(pc[d] \in HoldingPcs /\ v = want[d])
      BY <1>1, <2>1, ActiveAre
    <3>2. part'[v] = part[v] /\ meta'[v] = meta[v]
      BY <3>1 DEF OthersUntouched
    <3>3. Sound(v)
      BY <1>1, <2>1 DEF ResumableInv
    <3>4. QED
      BY <3>2, <3>3 DEF Sound
  <2>2. CASE pc[d] = "unlock" /\ v = want[d] /\ UNCHANGED <<part, meta>>
    <3>1. Sound(want[d])
      BY <1>1, <2>2 DEF ResumableInv
    <3>2. QED
      BY <2>2, <3>1 DEF Sound
  <2>3. QED
    BY <2>1, <2>2
<1>4. ASSUME NEW e \in Downloads, pc'[e] = "unlock"
      PROVE  Sound(want[e])'
  <2>1. CASE e = d
    BY <1>2, <1>4, <2>1 DEF Sound
  <2>2. CASE e # d
    <3>1. pc[e] = "unlock" /\ want'[e] = want[e]
      BY <1>2, <1>4, <2>2 DEF OthersUntouched
    <3>2. ~(pc[d] \in HoldingPcs /\ want[e] = want[d])
      BY <2>2, <3>1, ActiveAre DEF LockInv, HoldingPcs
    <3>3. part'[want[e]] = part[want[e]] /\ meta'[want[e]] = meta[want[e]]
      BY <1>1, <3>2 DEF OthersUntouched
    <3>4. Sound(want[e])
      BY <1>1, <3>1 DEF ResumableInv
    <3>5. QED
      BY <3>1, <3>3, <3>4 DEF Sound
  <2>3. QED
    BY <2>1, <2>2
<1>5. QED
  BY <1>3, <1>4

LEMMA ContentKept ==
    ASSUME DownloadTypes, LockInv, ContentInv, NEW d \in Downloads, NEW q \in DownloadPcs, Goto(d, q),
           OthersUntouched(d),
           q = "copy" => part'[want'[d]] = Full(want'[d]),
           q = "publish" => copy'[d] = Full(want'[d])
    PROVE  ContentInv'
<1>1. want \in [Downloads -> Versions]
  BY DEF DownloadTypes, TypeOK
<1>2. pc'[d] = q /\ \A e \in Downloads \ {d} : pc'[e] = pc[e]
  BY MovesOn DEF DownloadTypes
<1>3. ASSUME NEW e \in Downloads \ {d}, pc'[e] = "copy"
      PROVE  part'[want'[e]] = Full(want'[e])
  <2>1. pc[e] = "copy" /\ want'[e] = want[e]
    BY <1>2, <1>3 DEF OthersUntouched
  <2>2. ~(pc[d] \in HoldingPcs /\ want[e] = want[d])
    BY <2>1, ActiveAre DEF LockInv, HoldingPcs
  <2>3. part'[want[e]] = part[want[e]]
    BY <1>1, <2>2 DEF OthersUntouched
  <2>4. part[want[e]] = Full(want[e])
    BY <2>1 DEF ContentInv
  <2>5. QED
    BY <2>1, <2>3, <2>4
<1>4. ASSUME NEW e \in Downloads \ {d}, pc'[e] = "publish"
      PROVE  copy'[e] = Full(want'[e])
  BY <1>2, <1>4 DEF OthersUntouched, ContentInv
<1>5. Full(want[d])' = Full(want'[d]) /\ \A e \in Downloads : Full(want[e])' = Full(want'[e])
  BY DEF Full
<1>6. QED
  BY <1>2, <1>3, <1>4, <1>5 DEF ContentInv
LatePcs == {"fetch", "verify", "restart", "copy", "publish", "release", "unlock"}

\* A step of a download keeps the types, and preserves or resumes nothing that was not inspected.
TypedStep(d, q) ==
    /\ Goto(d, q)
    /\ UNCHANGED <<remote, spool, params>>
    /\ lock' \subseteq Versions
    /\ meta' \in [Versions -> {"none", "valid", "torn"}]
    /\ part' \in [Versions -> Seq(Chunk)]
    /\ want' \in [Downloads -> Versions]
    /\ copy' \in [Downloads -> Seq(Chunk)]
    /\ faults' \in Nat /\ (faults' = 0 => faults = 0)
    /\ keep' \cup resumed' \subseteq keep \cup resumed \cup {d}
    /\ d \in keep' \cup resumed' => q \in LatePcs

LEMMA TypesKept ==
    ASSUME DownloadTypes, KeepInv, NEW d \in Downloads, NEW q \in DownloadPcs, TypedStep(d, q)
    PROVE  DownloadTypes' /\ KeepInv'
<1>1. /\ pc' \in [Downloads -> DownloadPcs] /\ pc'[d] = q /\ \A e \in Downloads \ {d} : pc'[e] = pc[e]
  BY MovesOn DEF DownloadTypes, TypedStep
<1>2. ASSUME NEW e \in keep' \cup resumed'
      PROVE  e \in Downloads /\ pc'[e] \in LatePcs
  <2>1. CASE e = d
    BY <1>1, <1>2, <2>1 DEF TypedStep
  <2>2. CASE e # d
    <3>1. e \in keep \cup resumed
      BY <1>2, <2>2 DEF TypedStep
    <3>2. e \in Downloads
      BY <3>1 DEF DownloadTypes, TypeOK, Holding
    <3>3. QED
      BY <1>1, <2>2, <3>1, <3>2 DEF KeepInv, LatePcs
  <2>3. QED
    BY <2>1, <2>2
<1>3. KeepInv'
  BY <1>2 DEF KeepInv, LatePcs
<1>4. resumed' \subseteq Holding' /\ keep' \subseteq Holding'
  BY <1>2 DEF Holding, LatePcs
<1>5. pc' \in [Downloads -> {"new", "fingerprint", "resolve", "lock", "inspect", "clear", "describe", "fetch", "verify",
                "restart", "copy", "publish", "release", "unlock"} \cup Ended]
  BY <1>1 DEF DownloadPcs, HoldingPcs, EarlyPcs, Ended
<1>6. TypeOK'
  BY <1>4, <1>5 DEF TypedStep, DownloadTypes, TypeOK
<1>7. QED
  BY <1>3, <1>6 DEF TypedStep, DownloadTypes

\* What is left to show of a step that has shown its types and its lock.
LEMMA StepKept ==
    ASSUME DownloadInv, NEW d \in Downloads, NEW q \in DownloadPcs, TypedStep(d, q), OthersUntouched(d),
           LockInv', LocalInv',
           spool = "ready" =>
               \A v \in Versions \ lock' : v \notin lock \/ (pc[d] = "unlock" /\ v = want[d] /\ UNCHANGED <<part, meta>>),
           q = "unlock" /\ faults' = 0 => Sound(want[d])' /\ want'[d] = want[d],
           q = "copy" => part'[want'[d]] = Full(want'[d]),
           q = "publish" => copy'[d] = Full(want'[d])
    PROVE  DownloadInv'
<1>1. DownloadTypes' /\ KeepInv'
  BY TypesKept DEF DownloadInv
<1>2. Goto(d, q) /\ spool' = spool /\ (faults' = 0 => faults = 0)
  BY DEF TypedStep
<1>3. ContentInv'
  BY <1>2, ContentKept DEF DownloadInv
<1>4. ResumableInv'
  <2>1. CASE spool = "ready"
    BY <1>2, <2>1, ResumableKept DEF DownloadInv
  <2>2. CASE spool # "ready"
    BY <1>2, <2>2 DEF ResumableInv
  <2>3. QED
    BY <2>1, <2>2
<1>5. QED
  BY <1>1, <1>3, <1>4 DEF DownloadInv

\* A fault leaves nothing to be said of what can be resumed.
LEMMA FaultKept ==
    ASSUME DownloadInv, NEW d \in Downloads, NEW q \in DownloadPcs \ {"copy", "publish"}, TypedStep(d, q),
           OthersUntouched(d), LockInv', LocalInv', faults' # 0
    PROVE  DownloadInv'
<1>1. DownloadTypes' /\ KeepInv'
  BY TypesKept DEF DownloadInv
<1>2. ContentInv'
  BY ContentKept DEF DownloadInv, TypedStep
<1>3. ResumableInv'
  BY DEF ResumableInv
<1>4. QED
  BY <1>1, <1>2, <1>3 DEF DownloadInv
\* Steps that only move a download on, before it asks for the lock or with the lock.
LEMMA QuietKept ==
    ASSUME DownloadInv, NEW d \in Downloads, NEW q \in DownloadPcs, Goto(d, q),
           UNCHANGED <<remote, files, spool, params, copy>>, faults' \in Nat, faults' = 0 => faults = 0,
           want' \in [Downloads -> Versions], \A e \in Downloads \ {d} : want'[e] = want[e],
           keep' \cup resumed' \subseteq keep \cup resumed \cup {d}, d \in keep' \cup resumed' => q \in LatePcs,
           LockInv', q \notin {"unlock", "publish"}, q = "copy" => part[want'[d]] = Full(want'[d])
    PROVE  DownloadInv'
<1>1. lock' = lock /\ part' = part /\ meta' = meta /\ local' = local /\ copy' = copy
  BY DEF files
<1>2. TypedStep(d, q)
  BY <1>1 DEF TypedStep, DownloadInv, DownloadTypes, TypeOK
<1>3. OthersUntouched(d)
  BY <1>1 DEF OthersUntouched
<1>4. LocalInv'
  BY <1>1 DEF DownloadInv, LocalInv, Full
<1>5. QED
  BY <1>1, <1>2, <1>3, <1>4, StepKept

LEMMA BeginKeeps == ASSUME DownloadInv, NEW d \in Downloads, Begin(d) PROVE DownloadInv'
<1>1. /\ pc[d] = "new" /\ UNCHANGED <<remote, files, spool, params, copy, lock, want, keep, resumed, faults>>
      /\ spool \in {"preparing", "ready", "broken"} /\ want \in [Downloads -> Versions] /\ faults \in Nat
  BY DEF Begin, DownloadInv, DownloadTypes, TypeOK, files, progress
<1>2. TypeOK /\ LockInv /\ d \notin keep \cup resumed
  BY <1>1 DEF DownloadInv, DownloadTypes, KeepInv
<1>3. CASE spool = "ready"
  <2>1. Goto(d, "fingerprint")
    BY <1>3 DEF Begin
  <2>2. "fingerprint" \in DownloadPcs \ HoldingPcs /\ pc[d] \notin HoldingPcs
    BY <1>1 DEF DownloadPcs, HoldingPcs, EarlyPcs
  <2>3. LockInv'
    BY <1>1, <1>2, <1>3, <2>1, <2>2, LockAwaited
  <2>4. QED
    BY <1>1, <1>2, <2>1, <2>2, <2>3, QuietKept
<1>4. CASE spool # "ready"
  <2>1. Goto(d, "failed")
    BY <1>4 DEF Begin
  <2>2. "failed" \in DownloadPcs \ HoldingPcs /\ "failed" \notin EarlyPcs /\ pc[d] \notin HoldingPcs
    BY <1>1 DEF DownloadPcs, HoldingPcs, EarlyPcs
  <2>3. LockInv'
    BY <1>1, <1>2, <2>1, <2>2, LockAwaited
  <2>4. QED
    BY <1>1, <1>2, <2>1, <2>2, <2>3, QuietKept
<1>5. QED
  BY <1>3, <1>4

LEMMA FingerprintKeeps == ASSUME DownloadInv, NEW d \in Downloads, Fingerprint(d) PROVE DownloadInv'
<1>1. /\ pc[d] = "fingerprint" /\ Goto(d, "resolve")
      /\ UNCHANGED <<remote, files, spool, params, copy, lock, keep, resumed, faults>>
  BY DEF Fingerprint, files
<1>2. want' = [want EXCEPT ![d] = remote] /\ remote \in Versions /\ want \in [Downloads -> Versions] /\ faults \in Nat
  BY DEF Fingerprint, DownloadInv, DownloadTypes, TypeOK
<1>3. want' \in [Downloads -> Versions] /\ \A e \in Downloads \ {d} : want'[e] = want[e]
  BY <1>2
<1>4. TypeOK /\ LockInv /\ d \notin keep \cup resumed
  BY <1>1 DEF DownloadInv, DownloadTypes, KeepInv
<1>5. "resolve" \in DownloadPcs \ HoldingPcs /\ pc[d] \in EarlyPcs \ HoldingPcs
  BY <1>1 DEF DownloadPcs, HoldingPcs, EarlyPcs
<1>6. spool = "ready"
  BY <1>4, <1>5, SpoolIsReady
<1>7. LockInv'
  BY <1>1, <1>3, <1>4, <1>5, <1>6, LockAwaited
<1>8. QED
  BY <1>1, <1>2, <1>3, <1>4, <1>5, <1>7, QuietKept

LEMMA ResolveKeeps == ASSUME DownloadInv, NEW d \in Downloads, Resolve(d) PROVE DownloadInv'
<1>1. /\ pc[d] = "resolve" /\ UNCHANGED <<remote, files, spool, params, copy, lock, want, keep, resumed, faults>>
      /\ want \in [Downloads -> Versions] /\ faults \in Nat
  BY DEF Resolve, DownloadInv, DownloadTypes, TypeOK, files, progress
<1>2. PICK q \in {"failed", "done", "lock"} : Goto(d, q)
  BY DEF Resolve, Ended
<1>3. TypeOK /\ LockInv /\ d \notin keep \cup resumed
  BY <1>1 DEF DownloadInv, DownloadTypes, KeepInv
<1>4. q \in DownloadPcs \ HoldingPcs /\ pc[d] \in EarlyPcs \ HoldingPcs /\ q \notin {"unlock", "publish", "copy"}
  BY <1>1 DEF DownloadPcs, HoldingPcs, EarlyPcs
<1>5. spool = "ready"
  BY <1>3, <1>4, SpoolIsReady
<1>6. LockInv'
  BY <1>1, <1>2, <1>3, <1>4, <1>5, LockAwaited
<1>7. QED
  BY <1>1, <1>2, <1>3, <1>4, <1>6, QuietKept
LEMMA LockKeeps == ASSUME DownloadInv, NEW d \in Downloads, Lock(d) PROVE DownloadInv'
<1>1. /\ pc[d] = "lock" /\ want \in [Downloads -> Versions] /\ faults \in Nat /\ lock \subseteq Versions
      /\ UNCHANGED <<remote, local, part, meta, spool, params, want, resumed, keep, copy, faults>>
  BY DEF Lock, progress, DownloadInv, DownloadTypes, TypeOK
<1>2. TypeOK /\ LockInv /\ d \notin keep \cup resumed
  BY <1>1 DEF DownloadInv, DownloadTypes, KeepInv
<1>3. d \notin Holding /\ pc[d] \in EarlyPcs /\ pc[d] \notin HoldingPcs
  BY <1>1 DEF Holding, HoldingPcs, EarlyPcs
<1>4. spool = "ready" /\ lock = {want[e] : e \in Holding}
  BY <1>2, <1>3, SpoolIsReady DEF LockInv
<1>5. CASE LockFree(d)
  <2>1. Goto(d, "inspect") /\ lock' = lock \cup {want[d]} /\ want[d] \notin lock
    BY <1>5 DEF Lock, LockFree
  <2>2. "inspect" \in DownloadPcs /\ "inspect" \in HoldingPcs
    BY DEF DownloadPcs, HoldingPcs
  <2>3. Holding' = Holding \cup {d}
    BY <1>2, <2>1, <2>2, MovesOn
  <2>4. \A e \in Holding : want[e] # want[d]
    BY <1>4, <2>1
  <2>5. lock' = {want[e] : e \in Holding'}
    BY <1>4, <2>1, <2>3
  <2>6. LockInv'
    BY <1>1, <1>2, <1>4, <2>3, <2>4, <2>5 DEF LockInv
  <2>7. TypedStep(d, "inspect")
    BY <1>1, <1>2, <2>1 DEF TypedStep, DownloadInv, DownloadTypes, TypeOK
  <2>8. OthersUntouched(d) /\ LocalInv'
    BY <1>1 DEF OthersUntouched, DownloadInv, LocalInv, Full
  <2>9. QED
    BY <2>1, <2>2, <2>6, <2>7, <2>8, StepKept
<1>6. CASE ~LockFree(d)
  <2>1. Goto(d, "failed") /\ lock' = lock
    BY <1>6 DEF Lock
  <2>2. "failed" \in DownloadPcs \ HoldingPcs
    BY DEF DownloadPcs, HoldingPcs
  <2>3. LockInv'
    BY <1>1, <1>2, <1>3, <1>4, <2>1, <2>2, LockAwaited
  <2>4. UNCHANGED files
    BY <1>1, <2>1 DEF files
  <2>5. QED
    BY <1>1, <1>2, <2>1, <2>2, <2>3, <2>4, QuietKept
<1>7. QED
  BY <1>5, <1>6

LEMMA InspectKeeps == ASSUME DownloadInv, NEW d \in Downloads, Inspect(d) PROVE DownloadInv'
<1>1. /\ pc[d] = "inspect" /\ UNCHANGED <<remote, files, spool, params, want, copy, lock, faults>>
      /\ want \in [Downloads -> Versions] /\ faults \in Nat
  BY DEF Inspect, files, DownloadInv, DownloadTypes, TypeOK
<1>2. TypeOK /\ LockInv /\ d \notin keep \cup resumed /\ pc[d] \in HoldingPcs
  BY <1>1 DEF DownloadInv, DownloadTypes, KeepInv, HoldingPcs
<1>3. CASE params[d].resume /\ part[want[d]] # Missing /\ meta[want[d]] = "valid"
  <2>1. Goto(d, "fetch") /\ keep' = keep \cup {d} /\ resumed' = resumed \cup {d}
    BY <1>3 DEF Inspect
  <2>2. "fetch" \in DownloadPcs /\ "fetch" \in HoldingPcs /\ "fetch" \in LatePcs
    BY DEF DownloadPcs, HoldingPcs, LatePcs
  <2>3. LockInv'
    BY <1>1, <1>2, <2>1, <2>2, LockHeld
  <2>4. QED
    BY <1>1, <2>1, <2>2, <2>3, QuietKept
<1>4. CASE ~(params[d].resume /\ part[want[d]] # Missing /\ meta[want[d]] = "valid")
  <2>1. Goto(d, "clear") /\ keep' = keep /\ resumed' = resumed
    BY <1>4 DEF Inspect
  <2>2. "clear" \in DownloadPcs /\ "clear" \in HoldingPcs
    BY DEF DownloadPcs, HoldingPcs
  <2>3. LockInv'
    BY <1>1, <1>2, <2>1, <2>2, LockHeld
  <2>4. QED
    BY <1>1, <1>2, <2>1, <2>2, <2>3, QuietKept
<1>5. QED
  BY <1>3, <1>4

\* What a step may do to the files of its own version.
LEMMA OwnFiles ==
    ASSUME DownloadTypes, NEW d \in Downloads, pc[d] \in HoldingPcs, UNCHANGED <<want, copy>>,
           \/ part' = part
           \/ \E f \in Seq(Chunk) : part' = [part EXCEPT ![want[d]] = f],
           \/ meta' = meta
           \/ \E m \in {"none", "valid", "torn"} : meta' = [meta EXCEPT ![want[d]] = m]
    PROVE  /\ part' \in [Versions -> Seq(Chunk)] /\ meta' \in [Versions -> {"none", "valid", "torn"}]
           /\ OthersUntouched(d)
<1>1. want[d] \in Versions /\ part \in [Versions -> Seq(Chunk)] /\ meta \in [Versions -> {"none", "valid", "torn"}]
  BY DEF DownloadTypes, TypeOK
<1>2. part' \in [Versions -> Seq(Chunk)] /\ \A v \in Versions \ {want[d]} : part'[v] = part[v]
  BY <1>1
<1>3. meta' \in [Versions -> {"none", "valid", "torn"}] /\ \A v \in Versions \ {want[d]} : meta'[v] = meta[v]
  BY <1>1
<1>4. OthersUntouched(d)
  BY <1>2, <1>3 DEF OthersUntouched
<1>5. QED
  BY <1>2, <1>3, <1>4

LEMMA MissingTyped == Missing \in Seq(Chunk) /\ <<>> \in Seq(Chunk) /\ Mine \in Seq(Chunk)
<1>1. <<"missing", 0>> \in Chunk /\ <<"mine", 0>> \in Chunk
  BY DEF Chunk
<1>2. QED
  BY <1>1 DEF Missing, Mine
\* acquireDownloadSpool fails with the lock held, and releases it.
LEMMA AcquireFailsKeeps ==
    ASSUME DownloadInv, NEW d \in Downloads, pc[d] \in {"inspect", "clear", "describe"}, AcquireFails(d),
           UNCHANGED <<remote, local, spool, params, want, resumed, keep>>, OthersUntouched(d),
           part' \in [Versions -> Seq(Chunk)], meta' \in [Versions -> {"none", "valid", "torn"}],
           copy' \in [Downloads -> Seq(Chunk)]
    PROVE  DownloadInv'
<1>1. /\ faults' = faults + 1 /\ faults \in Nat /\ Goto(d, "failed") /\ lock' = lock \ {want[d]}
      /\ lock \subseteq Versions /\ want \in [Downloads -> Versions]
  BY DEF AcquireFails, MayFault, DownloadInv, DownloadTypes, TypeOK
<1>2. TypeOK /\ LockInv /\ d \notin keep \cup resumed /\ pc[d] \in HoldingPcs
  BY DEF DownloadInv, DownloadTypes, KeepInv, HoldingPcs
<1>3. "failed" \in DownloadPcs \ {"copy", "publish"} /\ "failed" \in {"done", "failed"}
  BY DEF DownloadPcs
<1>4. LockInv'
  BY <1>1, <1>2, <1>3, LockReleased
<1>5. TypedStep(d, "failed")
  BY <1>1, <1>2 DEF TypedStep, DownloadInv
<1>6. LocalInv'
  BY DEF DownloadInv, LocalInv, Full
<1>7. faults' # 0
  BY <1>1
<1>8. QED
  BY <1>3, <1>4, <1>5, <1>6, <1>7, FaultKept

LEMMA ClearKeeps == ASSUME DownloadInv, NEW d \in Downloads, Clear(d) PROVE DownloadInv'
<1>1. /\ pc[d] = "clear" /\ UNCHANGED <<remote, local, spool, params, want, resumed, keep, copy>>
      /\ want \in [Downloads -> Versions] /\ faults \in Nat /\ lock \subseteq Versions
      /\ part \in [Versions -> Seq(Chunk)] /\ copy \in [Downloads -> Seq(Chunk)]
  BY DEF Clear, progress, DownloadInv, DownloadTypes, TypeOK
<1>2. DownloadTypes /\ TypeOK /\ LockInv /\ d \notin keep \cup resumed /\ pc[d] \in HoldingPcs
  BY <1>1 DEF DownloadInv, DownloadTypes, KeepInv, HoldingPcs
<1>3. CASE /\ part' = [part EXCEPT ![want[d]] = Missing] /\ meta' = [meta EXCEPT ![want[d]] = "none"]
           /\ Goto(d, "describe") /\ UNCHANGED <<lock, faults>>
  <2>1. /\ part' \in [Versions -> Seq(Chunk)] /\ meta' \in [Versions -> {"none", "valid", "torn"}]
        /\ OthersUntouched(d)
    BY <1>1, <1>2, <1>3, MissingTyped, OwnFiles
  <2>2. "describe" \in DownloadPcs /\ "describe" \in HoldingPcs
    BY DEF DownloadPcs, HoldingPcs
  <2>3. LockInv'
    BY <1>1, <1>2, <1>3, <2>2, LockHeld
  <2>4. TypedStep(d, "describe")
    BY <1>1, <1>2, <1>3, <2>1 DEF TypedStep
  <2>5. LocalInv'
    BY <1>1 DEF DownloadInv, LocalInv, Full
  <2>6. QED
    BY <1>3, <2>1, <2>2, <2>3, <2>4, <2>5, StepKept
<1>4. CASE RemovesOne(want[d]) /\ AcquireFails(d)
  <2>1. /\ part' \in [Versions -> Seq(Chunk)] /\ meta' \in [Versions -> {"none", "valid", "torn"}]
        /\ OthersUntouched(d)
    BY <1>1, <1>2, <1>4, MissingTyped, OwnFiles DEF RemovesOne
  <2>2. QED
    BY <1>1, <1>4, <2>1, AcquireFailsKeeps
<1>5. QED
  BY <1>3, <1>4 DEF Clear

LEMMA DescribeKeeps == ASSUME DownloadInv, NEW d \in Downloads, Describe(d) PROVE DownloadInv'
<1>1. /\ pc[d] = "describe" /\ UNCHANGED <<remote, local, part, spool, params, want, resumed, copy>>
      /\ want \in [Downloads -> Versions] /\ faults \in Nat /\ lock \subseteq Versions
      /\ copy \in [Downloads -> Seq(Chunk)]
  BY DEF Describe, DownloadInv, DownloadTypes, TypeOK
<1>2. DownloadTypes /\ TypeOK /\ LockInv /\ d \notin keep \cup resumed /\ pc[d] \in HoldingPcs
  BY <1>1 DEF DownloadInv, DownloadTypes, KeepInv, HoldingPcs
<1>3. CASE /\ meta' = [meta EXCEPT ![want[d]] = "valid"] /\ Goto(d, "fetch")
           /\ keep' = (IF params[d].resume THEN keep \cup {d} ELSE keep) /\ UNCHANGED <<lock, faults>>
  <2>1. /\ part' \in [Versions -> Seq(Chunk)] /\ meta' \in [Versions -> {"none", "valid", "torn"}]
        /\ OthersUntouched(d)
    BY <1>1, <1>2, <1>3, OwnFiles
  <2>2. "fetch" \in DownloadPcs /\ "fetch" \in HoldingPcs /\ "fetch" \in LatePcs
    BY DEF DownloadPcs, HoldingPcs, LatePcs
  <2>3. LockInv'
    BY <1>1, <1>2, <1>3, <2>2, LockHeld
  <2>4. TypedStep(d, "fetch")
    BY <1>1, <1>2, <1>3, <2>1, <2>2 DEF TypedStep
  <2>5. LocalInv'
    BY <1>1 DEF DownloadInv, LocalInv, Full
  <2>6. QED
    BY <1>3, <2>1, <2>2, <2>3, <2>4, <2>5, StepKept
<1>4. CASE meta' = [meta EXCEPT ![want[d]] = "torn"] /\ AcquireFails(d) /\ keep' = keep
  <2>1. /\ part' \in [Versions -> Seq(Chunk)] /\ meta' \in [Versions -> {"none", "valid", "torn"}]
        /\ OthersUntouched(d)
    BY <1>1, <1>2, <1>4, OwnFiles
  <2>2. QED
    BY <1>1, <1>4, <2>1, AcquireFailsKeeps
<1>5. QED
  BY <1>3, <1>4 DEF Describe

LEMMA FetchKeeps == ASSUME DownloadInv, NEW d \in Downloads, Fetch(d) PROVE DownloadInv'
<1> DEFINE v == want[d]
           have == IF part[v] = Missing THEN <<>> ELSE part[v]
<1>1. /\ pc[d] = "fetch" /\ UNCHANGED <<remote, local, lock, meta, spool, params, want, resumed, keep, copy, faults>>
      /\ want \in [Downloads -> Versions] /\ faults \in Nat /\ lock \subseteq Versions /\ remote \in Versions
      /\ part \in [Versions -> Seq(Chunk)] /\ copy \in [Downloads -> Seq(Chunk)]
  BY DEF Fetch, progress, DownloadInv, DownloadTypes, TypeOK
<1>2. DownloadTypes /\ TypeOK /\ LockInv /\ pc[d] \in HoldingPcs
  BY <1>1 DEF DownloadInv, DownloadTypes, HoldingPcs
<1>3. LocalInv'
  BY <1>1 DEF DownloadInv, LocalInv, Full
<1>4. CASE Len(have) < Size
  <2>1. have \in Seq(Chunk)
    BY <1>1, MissingTyped
  <2>2. <<remote, Len(have) + 1>> \in Chunk
    BY <1>1, <2>1 DEF Chunk
  <2>3. Append(have, <<remote, Len(have) + 1>>) \in Seq(Chunk)
    BY <2>1, <2>2
  <2>4. part' = [part EXCEPT ![v] = Append(have, <<remote, Len(have) + 1>>)] /\ pc' = pc
    BY <1>4 DEF Fetch
  <2>5. Goto(d, "fetch")
    BY <1>1, <1>2, <2>4 DEF Goto, TypeOK
  <2>6. part' \in [Versions -> Seq(Chunk)] /\ meta' \in [Versions -> {"none", "valid", "torn"}] /\ OthersUntouched(d)
    BY <1>1, <1>2, <2>3, <2>4, OwnFiles
  <2>7. "fetch" \in DownloadPcs /\ "fetch" \in HoldingPcs /\ "fetch" \in LatePcs
    BY DEF DownloadPcs, HoldingPcs, LatePcs
  <2>8. LockInv'
    BY <1>1, <1>2, <2>5, <2>7, LockHeld
  <2>9. TypedStep(d, "fetch")
    BY <1>1, <2>5, <2>6, <2>7 DEF TypedStep
  <2>10. QED
    BY <1>1, <1>3, <2>6, <2>7, <2>8, <2>9, StepKept
<1>5. CASE ~(Len(have) < Size)
  <2>1. Goto(d, "verify") /\ part' = part
    BY <1>5 DEF Fetch
  <2>2. "verify" \in DownloadPcs /\ "verify" \in HoldingPcs /\ "verify" \in LatePcs
    BY DEF DownloadPcs, HoldingPcs, LatePcs
  <2>3. LockInv'
    BY <1>1, <1>2, <2>1, <2>2, LockHeld
  <2>4. UNCHANGED files
    BY <1>1, <2>1 DEF files
  <2>5. QED
    BY <1>1, <2>1, <2>2, <2>3, <2>4, QuietKept
<1>6. QED
  BY <1>4, <1>5
LEMMA VerifyKeeps == ASSUME DownloadInv, NEW d \in Downloads, Verify(d) PROVE DownloadInv'
<1>1. /\ pc[d] = "verify" /\ UNCHANGED <<remote, files, spool, params, want, resumed, copy, lock, faults>>
      /\ want \in [Downloads -> Versions] /\ faults \in Nat
  BY DEF Verify, files, DownloadInv, DownloadTypes, TypeOK
<1>2. TypeOK /\ LockInv /\ pc[d] \in HoldingPcs
  BY <1>1 DEF DownloadInv, DownloadTypes, HoldingPcs
<1>3. PICK q \in {"copy", "restart", "release"} :
        /\ Goto(d, q) /\ keep' \subseteq keep
        /\ q = "copy" => part[want[d]] = Full(want[d])
  BY DEF Verify, Matches
<1>4. q \in DownloadPcs /\ q \in HoldingPcs /\ q \in LatePcs /\ q \notin {"unlock", "publish"}
  BY DEF DownloadPcs, HoldingPcs, LatePcs
<1>5. LockInv'
  BY <1>1, <1>2, <1>3, <1>4, LockHeld
<1>6. QED
  BY <1>1, <1>3, <1>4, <1>5, QuietKept

LEMMA RestartKeeps == ASSUME DownloadInv, NEW d \in Downloads, Restart(d) PROVE DownloadInv'
<1>1. /\ pc[d] = "restart" /\ UNCHANGED <<remote, local, lock, meta, spool, params, want, keep, copy, faults>>
      /\ part' = [part EXCEPT ![want[d]] = Missing] /\ resumed' = resumed \ {d} /\ Goto(d, "fetch")
      /\ want \in [Downloads -> Versions] /\ faults \in Nat /\ lock \subseteq Versions
      /\ copy \in [Downloads -> Seq(Chunk)]
  BY DEF Restart, DownloadInv, DownloadTypes, TypeOK
<1>2. DownloadTypes /\ TypeOK /\ LockInv /\ pc[d] \in HoldingPcs
  BY <1>1 DEF DownloadInv, DownloadTypes, HoldingPcs
<1>3. part' \in [Versions -> Seq(Chunk)] /\ meta' \in [Versions -> {"none", "valid", "torn"}] /\ OthersUntouched(d)
  BY <1>1, <1>2, MissingTyped, OwnFiles
<1>4. "fetch" \in DownloadPcs /\ "fetch" \in HoldingPcs /\ "fetch" \in LatePcs
  BY DEF DownloadPcs, HoldingPcs, LatePcs
<1>5. LockInv'
  BY <1>1, <1>2, <1>4, LockHeld
<1>6. TypedStep(d, "fetch")
  BY <1>1, <1>3, <1>4 DEF TypedStep
<1>7. LocalInv'
  BY <1>1 DEF DownloadInv, LocalInv, Full
<1>8. QED
  BY <1>1, <1>3, <1>4, <1>5, <1>6, <1>7, StepKept

LEMMA CopyKeeps == ASSUME DownloadInv, NEW d \in Downloads, Copy(d) PROVE DownloadInv'
<1>1. /\ pc[d] = "copy" /\ UNCHANGED <<remote, local, lock, part, meta, spool, params, want, resumed, keep, faults>>
      /\ copy' = [copy EXCEPT ![d] = part[want[d]]] /\ Goto(d, "publish")
      /\ want \in [Downloads -> Versions] /\ faults \in Nat /\ lock \subseteq Versions
      /\ copy \in [Downloads -> Seq(Chunk)] /\ part \in [Versions -> Seq(Chunk)]
      /\ meta \in [Versions -> {"none", "valid", "torn"}]
  BY DEF Copy, files, DownloadInv, DownloadTypes, TypeOK
<1>2. TypeOK /\ LockInv /\ pc[d] \in HoldingPcs /\ part[want[d]] = Full(want[d])
  BY <1>1 DEF DownloadInv, DownloadTypes, HoldingPcs, ContentInv
<1>3. copy' \in [Downloads -> Seq(Chunk)] /\ copy'[d] = Full(want[d]) /\ \A e \in Downloads \ {d} : copy'[e] = copy[e]
  BY <1>1, <1>2
<1>4. "publish" \in DownloadPcs /\ "publish" \in HoldingPcs /\ "publish" \in LatePcs
  BY DEF DownloadPcs, HoldingPcs, LatePcs
<1>5. LockInv'
  BY <1>1, <1>2, <1>4, LockHeld
<1>6. TypedStep(d, "publish")
  BY <1>1, <1>3, <1>4 DEF TypedStep
<1>7. OthersUntouched(d) /\ LocalInv'
  BY <1>1, <1>3 DEF OthersUntouched, DownloadInv, LocalInv, Full
<1>8. copy'[d] = Full(want'[d])
  BY <1>1, <1>3
<1>9. QED
  BY <1>1, <1>4, <1>5, <1>6, <1>7, <1>8, StepKept

LEMMA PublishKeeps == ASSUME DownloadInv, NEW d \in Downloads, Publish(d) PROVE DownloadInv'
<1>1. /\ pc[d] = "publish" /\ UNCHANGED <<remote, lock, part, meta, spool, params, want, resumed, faults>>
      /\ copy' = [copy EXCEPT ![d] = Missing] /\ Goto(d, "release") /\ keep' \subseteq keep
      /\ local' \in {copy[d], local}
      /\ want \in [Downloads -> Versions] /\ faults \in Nat /\ lock \subseteq Versions
      /\ copy \in [Downloads -> Seq(Chunk)] /\ part \in [Versions -> Seq(Chunk)]
      /\ meta \in [Versions -> {"none", "valid", "torn"}]
  BY DEF Publish, DownloadInv, DownloadTypes, TypeOK
<1>2. TypeOK /\ LockInv /\ pc[d] \in HoldingPcs /\ copy[d] = Full(want[d]) /\ want[d] \in Versions
  BY <1>1 DEF DownloadInv, DownloadTypes, HoldingPcs, ContentInv
<1>3. copy' \in [Downloads -> Seq(Chunk)] /\ \A e \in Downloads \ {d} : copy'[e] = copy[e]
  BY <1>1, MissingTyped
<1>4. "release" \in DownloadPcs /\ "release" \in HoldingPcs /\ "release" \in LatePcs
  BY DEF DownloadPcs, HoldingPcs, LatePcs
<1>5. LockInv'
  BY <1>1, <1>2, <1>4, LockHeld
<1>6. TypedStep(d, "release")
  BY <1>1, <1>3, <1>4 DEF TypedStep
<1>7. OthersUntouched(d)
  BY <1>1, <1>3 DEF OthersUntouched
<1>8. LocalInv'
  BY <1>1, <1>2 DEF DownloadInv, LocalInv, Full
<1>9. QED
  BY <1>1, <1>4, <1>5, <1>6, <1>7, <1>8, StepKept
LEMMA FailsKeeps == ASSUME DownloadInv, NEW d \in Downloads, Fails(d) PROVE DownloadInv'
<1>1. /\ UNCHANGED <<remote, local, part, meta, spool, params, want, resumed, keep>>
      /\ copy' = [copy EXCEPT ![d] = Missing]
      /\ want \in [Downloads -> Versions] /\ faults \in Nat /\ lock \subseteq Versions
      /\ copy \in [Downloads -> Seq(Chunk)] /\ part \in [Versions -> Seq(Chunk)]
      /\ meta \in [Versions -> {"none", "valid", "torn"}]
  BY DEF Fails, DownloadInv, DownloadTypes, TypeOK
<1>2. TypeOK /\ LockInv
  BY DEF DownloadInv, DownloadTypes
<1>3. copy' \in [Downloads -> Seq(Chunk)] /\ \A e \in Downloads \ {d} : copy'[e] = copy[e]
  BY <1>1, MissingTyped
<1>4. OthersUntouched(d) /\ LocalInv'
  BY <1>1, <1>3 DEF OthersUntouched, DownloadInv, LocalInv, Full
<1>5. CASE pc[d] \in {"fingerprint", "resolve", "lock"} /\ Goto(d, "failed") /\ MayFault /\ lock' = lock
  <2>1. "failed" \in DownloadPcs \ HoldingPcs /\ pc[d] \in EarlyPcs \ HoldingPcs /\ d \notin keep \cup resumed
    BY <1>5 DEF DownloadPcs, HoldingPcs, EarlyPcs, DownloadInv, KeepInv
  <2>2. spool = "ready"
    BY <1>2, <2>1, SpoolIsReady
  <2>3. LockInv'
    BY <1>1, <1>2, <1>5, <2>1, <2>2, LockAwaited
  <2>4. faults' \in Nat /\ faults' # 0
    BY <1>1, <1>5 DEF MayFault
  <2>5. TypedStep(d, "failed")
    BY <1>1, <1>3, <1>5, <2>1, <2>4 DEF TypedStep
  <2>6. QED
    BY <1>4, <2>1, <2>3, <2>4, <2>5, FaultKept
<1>6. CASE pc[d] = "inspect" /\ AcquireFails(d)
  BY <1>1, <1>3, <1>4, <1>6, AcquireFailsKeeps
<1>7. CASE /\ pc[d] \in {"fetch", "verify", "restart", "copy", "publish"}
           /\ Goto(d, "release") /\ MayFault /\ lock' = lock
  <2>1. "release" \in DownloadPcs /\ "release" \in HoldingPcs /\ "release" \in LatePcs /\ pc[d] \in HoldingPcs
    BY <1>7 DEF DownloadPcs, HoldingPcs, LatePcs
  <2>2. LockInv'
    BY <1>1, <1>2, <1>7, <2>1, LockHeld
  <2>3. faults' \in Nat /\ faults' # 0
    BY <1>1, <1>7 DEF MayFault
  <2>4. TypedStep(d, "release")
    BY <1>1, <1>3, <1>7, <2>1, <2>3 DEF TypedStep
  <2>5. QED
    BY <1>4, <2>1, <2>2, <2>3, <2>4, FaultKept
<1>8. QED
  BY <1>5, <1>6, <1>7 DEF Fails

LEMMA ReleaseKeeps == ASSUME DownloadInv, NEW d \in Downloads, Release(d) PROVE DownloadInv'
<1> DEFINE retained == d \in keep /\ part[want[d]] # Missing /\ meta[want[d]] = "valid"
<1>1. /\ pc[d] = "release" /\ UNCHANGED <<remote, local, lock, spool, params, want, resumed, keep, copy, faults>>
      /\ Goto(d, "unlock")
      /\ want \in [Downloads -> Versions] /\ faults \in Nat /\ lock \subseteq Versions
      /\ copy \in [Downloads -> Seq(Chunk)] /\ part \in [Versions -> Seq(Chunk)]
      /\ meta \in [Versions -> {"none", "valid", "torn"}]
  BY DEF Release, progress, DownloadInv, DownloadTypes, TypeOK
<1>2. DownloadTypes /\ TypeOK /\ LockInv /\ pc[d] \in HoldingPcs
  BY <1>1 DEF DownloadInv, DownloadTypes, HoldingPcs
<1>3. "unlock" \in DownloadPcs /\ "unlock" \in HoldingPcs /\ "unlock" \in LatePcs
  BY DEF DownloadPcs, HoldingPcs, LatePcs
<1>4. LockInv'
  BY <1>1, <1>2, <1>3, LockHeld
<1>5. LocalInv'
  BY <1>1 DEF DownloadInv, LocalInv, Full
<1>6. /\ part' \in [Versions -> Seq(Chunk)] /\ meta' \in [Versions -> {"none", "valid", "torn"}] /\ OthersUntouched(d)
      /\ Sound(want[d])'
  <2>1. CASE retained
    <3>1. part' = part /\ meta' = meta
      BY <2>1 DEF Release
    <3>2. OthersUntouched(d)
      BY <1>1, <3>1 DEF OthersUntouched
    <3>3. Sound(want[d])'
      BY <1>1, <2>1, <3>1 DEF Sound
    <3>4. QED
      BY <1>1, <3>1, <3>2, <3>3
  <2>2. CASE ~retained
    <3>1. part' = [part EXCEPT ![want[d]] = Missing] /\ meta' = [meta EXCEPT ![want[d]] = "none"]
      BY <2>2 DEF Release
    <3>2. part' \in [Versions -> Seq(Chunk)] /\ meta' \in [Versions -> {"none", "valid", "torn"}] /\ OthersUntouched(d)
      BY <1>1, <1>2, <3>1, MissingTyped, OwnFiles
    <3>3. part'[want[d]] = Missing /\ meta'[want[d]] = "none"
      BY <1>1, <3>1
    <3>4. Sound(want[d])'
      BY <1>1, <3>3 DEF Sound
    <3>5. QED
      BY <3>2, <3>4
  <2>3. QED
    BY <2>1, <2>2
<1>7. TypedStep(d, "unlock")
  BY <1>1, <1>3, <1>6 DEF TypedStep
<1>8. QED
  BY <1>1, <1>3, <1>4, <1>5, <1>6, <1>7, StepKept

LEMMA ReleaseFailsKeeps == ASSUME DownloadInv, NEW d \in Downloads, ReleaseFails(d) PROVE DownloadInv'
<1>1. /\ pc[d] = "release" /\ UNCHANGED <<remote, local, lock, spool, params, want, resumed, keep, copy>>
      /\ Goto(d, "unlock") /\ faults' = faults + 1
      /\ want \in [Downloads -> Versions] /\ faults \in Nat /\ lock \subseteq Versions
      /\ copy \in [Downloads -> Seq(Chunk)] /\ part \in [Versions -> Seq(Chunk)]
      /\ meta \in [Versions -> {"none", "valid", "torn"}]
  BY DEF ReleaseFails, MayFault, DownloadInv, DownloadTypes, TypeOK
<1>2. DownloadTypes /\ TypeOK /\ LockInv /\ pc[d] \in HoldingPcs
  BY <1>1 DEF DownloadInv, DownloadTypes, HoldingPcs
<1>3. /\ "unlock" \in DownloadPcs \ {"copy", "publish"} /\ "unlock" \in DownloadPcs
      /\ "unlock" \in HoldingPcs /\ "unlock" \in LatePcs
  BY DEF DownloadPcs, HoldingPcs, LatePcs
<1>4. LockInv'
  BY <1>1, <1>2, <1>3, LockHeld
<1>5. LocalInv' /\ faults' \in Nat /\ faults' # 0
  BY <1>1 DEF DownloadInv, LocalInv, Full
<1>6. part' \in [Versions -> Seq(Chunk)] /\ meta' \in [Versions -> {"none", "valid", "torn"}] /\ OthersUntouched(d)
  BY <1>1, <1>2, MissingTyped, OwnFiles DEF ReleaseFails, RemovesOne
<1>7. TypedStep(d, "unlock")
  BY <1>1, <1>3, <1>5, <1>6 DEF TypedStep
<1>8. QED
  BY <1>3, <1>4, <1>5, <1>6, <1>7, FaultKept

LEMMA UnlockKeeps == ASSUME DownloadInv, NEW d \in Downloads, Unlock(d) PROVE DownloadInv'
<1>1. /\ pc[d] = "unlock" /\ UNCHANGED <<remote, local, part, meta, spool, params, want, copy, faults>>
      /\ lock' = lock \ {want[d]} /\ resumed' = resumed \ {d} /\ keep' = keep \ {d}
      /\ want \in [Downloads -> Versions] /\ faults \in Nat /\ lock \subseteq Versions
      /\ copy \in [Downloads -> Seq(Chunk)] /\ part \in [Versions -> Seq(Chunk)]
      /\ meta \in [Versions -> {"none", "valid", "torn"}]
  BY DEF Unlock, DownloadInv, DownloadTypes, TypeOK
<1>2. TypeOK /\ LockInv /\ pc[d] \in HoldingPcs
  BY <1>1 DEF DownloadInv, DownloadTypes, HoldingPcs
<1>3. PICK q \in {"done", "failed"} : Goto(d, q)
  BY DEF Unlock
<1>4. q \in DownloadPcs /\ q \notin {"unlock", "copy", "publish"}
  BY DEF DownloadPcs
<1>5. LockInv'
  BY <1>1, <1>2, <1>3, LockReleased
<1>6. OthersUntouched(d) /\ LocalInv'
  BY <1>1 DEF OthersUntouched, DownloadInv, LocalInv, Full
<1>7. TypedStep(d, q)
  BY <1>1, <1>3 DEF TypedStep
<1>8. QED
  BY <1>1, <1>4, <1>5, <1>6, <1>7, StepKept
LEMMA RemoteChangesKeeps == ASSUME DownloadInv, RemoteChanges PROVE DownloadInv'
<1>1. /\ remote' \in Versions
      /\ UNCHANGED <<local, lock, part, meta, spool, params, pc, want, resumed, keep, copy, won, faults>>
  BY DEF RemoteChanges, files, progress
<1>2. Holding' = Holding /\ Active' = Active
  BY <1>1 DEF Holding, Active
<1>3. DownloadTypes' /\ KeepInv'
  BY <1>1, <1>2 DEF DownloadInv, DownloadTypes, TypeOK, KeepInv
<1>4. LockInv'
  BY <1>1, <1>2 DEF DownloadInv, LockInv
<1>5. ResumableInv' /\ ContentInv' /\ LocalInv'
  BY <1>1 DEF DownloadInv, ResumableInv, Sound, ContentInv, LocalInv, Full
<1>6. QED
  BY <1>3, <1>4, <1>5 DEF DownloadInv

\* While the spool is being prepared nothing is under way.
LEMMA IdleKept ==
    ASSUME TypeOK', part' \in [Versions -> Seq(Chunk)], copy' \in [Downloads -> Seq(Chunk)],
           params' \in [Downloads -> Params], faults' \in Nat,
           \A d \in Downloads : pc'[d] \notin HoldingPcs \cup EarlyPcs, keep' = {}, resumed' = {}, LocalInv',
           spool' = "ready" => lock' = {} /\ \A v \in Versions : Sound(v)'
    PROVE  DownloadInv'
<1>1. Holding' = {} /\ Active' = {}
  BY ActiveAre DEF Holding, Active, HoldingPcs, EarlyPcs
<1>2. DownloadTypes' /\ KeepInv'
  BY DEF DownloadTypes, KeepInv
<1>3. LockInv'
  BY <1>1 DEF LockInv
<1>4. ResumableInv' /\ ContentInv'
  BY DEF ResumableInv, ContentInv, HoldingPcs
<1>5. QED
  BY <1>2, <1>3, <1>4 DEF DownloadInv

LEMMA CrashKeeps == ASSUME DownloadInv, Crash PROVE DownloadInv'
<1>1. /\ spool' = "preparing" /\ resumed' = {} /\ keep' = {} /\ copy' = [d \in Downloads |-> Missing]
      /\ pc' = [d \in Downloads |-> IF d \in Active THEN "failed" ELSE pc[d]]
      /\ UNCHANGED <<remote, local, lock, meta, params, want, won, changes, faults>>
  BY DEF Crash
<1>2. part \in [Versions -> Seq(Chunk)] /\ want \in [Downloads -> Versions] /\ pc \in [Downloads -> DownloadPcs]
  BY DEF DownloadInv, DownloadTypes, TypeOK, DownloadPcs, HoldingPcs, EarlyPcs, Ended
<1>3. \A d \in Downloads : pc'[d] \notin HoldingPcs \cup EarlyPcs /\ pc'[d] \in DownloadPcs
  BY <1>1, <1>2, ActiveAre DEF DownloadPcs, HoldingPcs, EarlyPcs
<1>4. part' \in [Versions -> Seq(Chunk)]
  <2>1. CASE part' = part
    BY <1>2, <2>1
  <2>2. ASSUME NEW d \in Downloads, part' = [part EXCEPT ![want[d]][Len(part[want[d]])] = <<"torn", 0>>]
        PROVE  part' \in [Versions -> Seq(Chunk)]
    <3> DEFINE f == part[want[d]]
    <3>1. f \in Seq(Chunk) /\ want[d] \in Versions /\ <<"torn", 0>> \in Chunk
      BY <1>2 DEF Chunk
    <3>2. [f EXCEPT ![Len(f)] = <<"torn", 0>>] \in Seq(Chunk)
      <4>1. CASE Len(f) = 0
        <5>1. DOMAIN f = {} /\ f = [i \in DOMAIN f |-> f[i]]
          BY <3>1, <4>1
        <5>2. [f EXCEPT ![Len(f)] = <<"torn", 0>>] = [i \in DOMAIN f |-> f[i]]
          BY <5>1
        <5>3. QED
          BY <3>1, <5>1, <5>2
      <4>2. CASE Len(f) # 0
        <5>1. Len(f) \in 1..Len(f)
          BY <3>1, <4>2
        <5>2. QED
          BY <3>1, <5>1, ExceptSeq
      <4>3. QED
        BY <4>1, <4>2
    <3>3. part' = [part EXCEPT ![want[d]] = [f EXCEPT ![Len(f)] = <<"torn", 0>>]]
      BY <2>2
    <3>4. QED
      BY <1>2, <3>1, <3>2, <3>3
  <2>3. QED
    BY <2>1, <2>2 DEF Crash
<1>5. copy' \in [Downloads -> Seq(Chunk)]
  BY <1>1, MissingTyped
<1>6. TypeOK'
  <2>1. pc' \in [Downloads -> DownloadPcs]
    BY <1>1, <1>3
  <2>2. QED
    BY <1>1, <2>1 DEF DownloadInv, DownloadTypes, TypeOK, DownloadPcs, HoldingPcs, EarlyPcs, Ended
<1>7. LocalInv' /\ params' \in [Downloads -> Params] /\ faults' \in Nat
  BY <1>1 DEF DownloadInv, LocalInv, Full, DownloadTypes
<1>8. QED
  BY <1>1, <1>3, <1>4, <1>5, <1>6, <1>7, IdleKept

LEMMA IdleNow ==
    ASSUME DownloadInv, spool = "preparing"
    PROVE  (\A d \in Downloads : pc[d] \notin HoldingPcs \cup EarlyPcs) /\ keep = {} /\ resumed = {}
<1>1. Active = {}
  BY DEF DownloadInv, LockInv
<1>2. Holding = {}
  BY <1>1 DEF Active
<1>3. QED
  BY <1>1, <1>2, ActiveAre DEF DownloadInv, DownloadTypes, TypeOK

LEMMA PrepareKeeps == ASSUME DownloadInv, Prepare PROVE DownloadInv'
<1>1. /\ spool = "preparing" /\ spool' = "ready" /\ lock' = {}
      /\ UNCHANGED <<remote, local, params, pc, want, resumed, keep, copy, won, faults>>
  BY DEF Prepare, LocksKept, progress
<1>2. PICK expired \in SUBSET Versions :
        LET gone == expired \cup {v \in Versions : part[v] = Missing \/ meta[v] # "valid"}
        IN /\ part' = [v \in Versions |-> IF v \in gone THEN Missing ELSE part[v]]
           /\ meta' = [v \in Versions |-> IF v \in gone THEN "none" ELSE meta[v]]
  BY DEF Prepare
<1>3. part \in [Versions -> Seq(Chunk)] /\ meta \in [Versions -> {"none", "valid", "torn"}]
  BY DEF DownloadInv, DownloadTypes, TypeOK
<1>4. part' \in [Versions -> Seq(Chunk)] /\ meta' \in [Versions -> {"none", "valid", "torn"}]
  BY <1>2, <1>3, MissingTyped
<1>5. ASSUME NEW v \in Versions
      PROVE  Sound(v)'
  BY <1>2, <1>3 DEF Sound
<1>6. TypeOK'
  BY <1>1, <1>4 DEF DownloadInv, DownloadTypes, TypeOK, Holding
<1>7. LocalInv' /\ params' \in [Downloads -> Params] /\ faults' \in Nat /\ copy' \in [Downloads -> Seq(Chunk)]
  BY <1>1 DEF DownloadInv, LocalInv, Full, DownloadTypes
<1>8. (\A d \in Downloads : pc'[d] \notin HoldingPcs \cup EarlyPcs) /\ keep' = {} /\ resumed' = {}
  BY <1>1, IdleNow
<1>9. QED
  BY <1>1, <1>4, <1>5, <1>6, <1>7, <1>8, IdleKept

LEMMA PrepareFailsKeeps == ASSUME DownloadInv, PrepareFails PROVE DownloadInv'
<1>1. /\ spool = "preparing" /\ spool' = "broken" /\ faults' = faults + 1
      /\ UNCHANGED <<remote, local, lock, part, meta, params, pc, want, resumed, keep, copy, won>>
  BY DEF PrepareFails, MayFault, files, progress
<1>2. TypeOK'
  BY <1>1 DEF DownloadInv, DownloadTypes, TypeOK, Holding
<1>3. /\ LocalInv' /\ params' \in [Downloads -> Params] /\ faults' \in Nat /\ part' \in [Versions -> Seq(Chunk)]
      /\ copy' \in [Downloads -> Seq(Chunk)]
  BY <1>1 DEF DownloadInv, LocalInv, Full, DownloadTypes
<1>4. (\A d \in Downloads : pc'[d] \notin HoldingPcs \cup EarlyPcs) /\ keep' = {} /\ resumed' = {}
  BY <1>1, IdleNow
<1>5. QED
  BY <1>1, <1>2, <1>3, <1>4, IdleKept

LEMMA DownloadInit == Init => DownloadInv
<1> SUFFICES ASSUME Init
             PROVE  DownloadInv
  OBVIOUS
<1>1. part \in [Versions -> Seq(Chunk)] /\ copy \in [Downloads -> Seq(Chunk)]
  BY MissingTyped DEF Init
<1>2. Holding = {} /\ Active = {}
  BY ActiveAre DEF Init, HoldingPcs, EarlyPcs
<1>3. TypeOK
  BY <1>2 DEF Init, TypeOK
<1>4. DownloadTypes /\ LocalInv /\ KeepInv
  BY <1>1, <1>3 DEF Init, DownloadTypes, LocalInv, KeepInv
<1>5. LockInv /\ ResumableInv /\ ContentInv
  BY <1>2 DEF Init, LockInv, ResumableInv, ContentInv
<1>6. QED
  BY <1>4, <1>5 DEF DownloadInv

LEMMA DownloadStep == ASSUME DownloadInv, [Next]_vars PROVE DownloadInv'
<1>1. CASE RemoteChanges \/ Crash \/ Prepare \/ PrepareFails
  BY <1>1, RemoteChangesKeeps, CrashKeeps, PrepareKeeps, PrepareFailsKeeps
<1>2. ASSUME NEW d \in Downloads, Step(d) \/ Fails(d) \/ ReleaseFails(d)
      PROVE  DownloadInv'
  BY <1>2, BeginKeeps, FingerprintKeeps, ResolveKeeps, LockKeeps, InspectKeeps, ClearKeeps, DescribeKeeps, FetchKeeps,
     VerifyKeeps, RestartKeeps, CopyKeeps, PublishKeeps, ReleaseKeeps, UnlockKeeps, FailsKeeps, ReleaseFailsKeeps
  DEF Step
<1>3. CASE UNCHANGED vars
  <2>1. UNCHANGED <<remote, local, lock, part, meta, spool, params, pc, want, resumed, keep, copy, faults>>
    BY <1>3 DEF vars, files, progress
  <2>2. Holding' = Holding /\ Active' = Active
    BY <2>1 DEF Holding, Active
  <2>3. DownloadTypes' /\ KeepInv'
    BY <2>1, <2>2 DEF DownloadInv, DownloadTypes, TypeOK, KeepInv
  <2>4. LockInv'
    BY <2>1, <2>2 DEF DownloadInv, LockInv
  <2>5. ResumableInv' /\ ContentInv' /\ LocalInv'
    BY <2>1 DEF DownloadInv, ResumableInv, Sound, ContentInv, LocalInv, Full
  <2>6. QED
    BY <2>3, <2>4, <2>5 DEF DownloadInv
<1>4. QED
  BY <1>1, <1>2, <1>3 DEF Next

LEMMA DownloadInvariance == AllSpec => []DownloadInv
<1>1. AllInit => DownloadInv
  BY DownloadInit DEF AllInit
<1>2. DownloadInv /\ [AllNext]_allVars => DownloadInv'
  BY StepOfParts, DownloadStep
<1>3. QED
  BY <1>1, <1>2, PTL DEF AllSpec
LEMMA DownloadsWhole == DownloadInv => LocalIntact /\ SpoolExact
<1> SUFFICES ASSUME DownloadInv
             PROVE  LocalIntact /\ SpoolExact
  OBVIOUS
<1>1. LocalIntact
  BY DEF DownloadInv, DownloadTypes, LocalInv, LocalIntact
<1>2. /\ \A d, e \in Holding : d # e => want[d] # want[e]
      /\ spool = "ready" => lock = {want[d] : d \in Holding}
  BY DEF DownloadInv, LockInv
<1>3. spool = "ready" /\ faults = 0 => \A v \in Versions \ lock : part[v] # Missing <=> meta[v] = "valid"
  BY DEF DownloadInv, ResumableInv, Sound
<1>4. QED
  BY <1>1, <1>2, <1>3 DEF SpoolExact

\* Only a publication changes the local path, and it is a step of the download that publishes.
LEMMA LocalKept ==
    ASSUME DownloadInv, [Next]_vars, NEW d \in Downloads,
           ~params[d].overwrite, pc'[d] # pc[d], local # Missing
    PROVE  local' = local
<1>1. ASSUME NEW e \in Downloads, Publish(e)
      PROVE  local' = local
  <2>1. pc \in [Downloads -> DownloadPcs] /\ pc' = [pc EXCEPT ![e] = "release"]
    BY <1>1 DEF DownloadInv, DownloadTypes, TypeOK, Publish, Goto, DownloadPcs, HoldingPcs, EarlyPcs, Ended
  <2>2. d = e
    BY <2>1
  <2>3. QED
    BY <1>1, <2>2 DEF Publish, MayPublish
<1>2. CASE RemoteChanges \/ Crash \/ Prepare \/ PrepareFails
  BY <1>2 DEF RemoteChanges, Crash, Prepare, PrepareFails, files
<1>3. ASSUME NEW e \in Downloads, Begin(e) \/ Fingerprint(e) \/ Resolve(e) \/ Lock(e) \/ Inspect(e) \/ Clear(e)
                                    \/ Describe(e)
      PROVE  local' = local
  BY <1>3 DEF Begin, Fingerprint, Resolve, Lock, Inspect, Clear, Describe, files
<1>4. ASSUME NEW e \in Downloads, Fetch(e) \/ Verify(e) \/ Restart(e) \/ Copy(e) \/ Release(e) \/ Unlock(e)
                                    \/ Fails(e) \/ ReleaseFails(e)
      PROVE  local' = local
  BY <1>4 DEF Fetch, Verify, Restart, Copy, Release, Unlock, Fails, ReleaseFails, files
<1>5. CASE UNCHANGED vars
  BY <1>5 DEF vars, files
<1>6. QED
  BY <1>1, <1>2, <1>3, <1>4, <1>5 DEF Next, Step
----------------------------------------------------------------------------
(* The uploads: what is where.                                             *)

UploadPcs == {"new", "check", "resume", "trim", "open", "write", "verify", "retry", "discard", "cleanup", "publish",
              "rename", "unlink", "done", "failed"}

UploadChunk == (Contents \cup {"old", "hole"}) \X Nat

Content(u) == uParams[u].content

\* An upload that writes has chunks to send and, over SFTP, a file to send them to; what it has
\* sent is counted from nothing.
UploadTypes ==
    /\ Upload!TypeOK
    /\ shared \in BOOLEAN /\ uParams \in [Uploads -> Upload!Params]
    /\ data \in Seq(Seq(UploadChunk))
    /\ ~shared => \A i \in 1..Len(data) : Len(data[i]) <= Size + 1
    /\ \A u \in Uploads : uPc[u] = "write" => pos[u] < Size /\ (~shared => handle[u] # 0)
    /\ \A u \in Uploads : uPc[u] \in {"new", "check", "resume", "trim", "open"} => pos[u] = 0
    /\ \A u \in Uploads : uPc[u] = "open" => ~shared

\* Of the uploads under way no two have the same content (Begin, when Isolated).
OneEach == \A u, v \in Upload!Active : u # v => Content(u) # Content(v)

\* A staging path names a file of its own, and the published one only between ln and rm.
OwnStaging ==
    /\ \A c, e \in Contents : uPart[c] # 0 /\ uPart[c] = uPart[e] => c = e
    /\ \A c \in Contents : uPart[c] # 0 /\ uPart[c] = dest =>
          \E u \in Uploads : uPc[u] = "unlink" /\ Content(u) = c

\* SFTP writes to the file at the staging path.
HandleInv == \A u \in Uploads : uPc[u] = "write" /\ ~shared => handle[u] = Upload!Staged(u)

\* What is about to be published was verified and is still that file.
VerifiedInv ==
    \A u \in Uploads :
        /\ uPc[u] \in {"publish", "rename", "unlink"} => Upload!Matches(u)
        /\ uPc[u] = "rename" => uParams[u].overwrite

IsolatedInv == OneEach /\ OwnStaging /\ HandleInv /\ VerifiedInv /\ Upload!PublishedIntact

\* An upload that may have written its partial file and has not been through with it.
Working == {"write", "verify", "retry", "discard", "cleanup", "publish", "rename", "unlink"}

\* Without a fault a partial file is to be resumed, was never written, or is being worked on.
LeftInv ==
    uFaults = 0 =>
      \A c \in Contents : uPart[c] # 0 =>
        \/ \E u \in Uploads : Content(u) = c /\ uPc[u] = "failed" /\ uParams[u].resume
        \/ \A u \in Uploads : Content(u) = c => pos[u] = 0
        \/ \E u \in Uploads : Content(u) = c /\ uPc[u] \in Working
LEMMA UploadPcsAre == UploadTypes => uPc \in [Uploads -> UploadPcs]
BY DEF UploadTypes, Upload!TypeOK, Upload!Ended, Upload!BeforeTry, UploadPcs

LEMMA ContentTyped ==
    ASSUME UploadTypes, NEW u \in Uploads
    PROVE  /\ Content(u) \in Contents /\ uParams[u].content = Content(u)
           /\ uParams[u].overwrite \in BOOLEAN /\ uParams[u].resume \in BOOLEAN
           /\ Upload!Staged(u) = uPart[Content(u)] /\ Upload!Staged(u) \in 0..Len(data)
<1>1. uParams[u] \in Upload!Params /\ uPart \in [Contents -> 0..Len(data)]
  BY DEF UploadTypes, Upload!TypeOK
<1>2. uParams[u].content \in Contents /\ uParams[u].overwrite \in BOOLEAN /\ uParams[u].resume \in BOOLEAN
  BY <1>1 DEF Upload!Params
<1>3. QED
  BY <1>1, <1>2 DEF Content, Upload!Staged

\* A new upload, or one that goes on, does not go on as a new one.
OnErrorPcs == {"discard", "failed", "cleanup"}

LEMMA OnErrorTyped == ASSUME NEW u \in Uploads PROVE Upload!OnError(u) \in OnErrorPcs
BY DEF Upload!OnError, OnErrorPcs

\* The upload goes on as its command says, or as an error leads it.
GoesOn(u, q, next) ==
    /\ uPc' = [uPc EXCEPT ![u] = q]
    /\ \/ q = next /\ uFaults' = uFaults
       \/ q \in {Upload!OnError(u), "failed"} /\ uFaults' = uFaults + 1

LEMMA RanEffect ==
    ASSUME UploadTypes, NEW u \in Uploads, NEW next \in UploadPcs, Upload!Ran(u, next)
    PROVE  \E q \in UploadPcs : GoesOn(u, q, next) /\ uFaults' \in 0..UploadFaults
<1>1. uFaults \in 0..UploadFaults /\ UploadFaults \in Nat
  BY TransfersAssumption DEF UploadTypes, Upload!TypeOK
<1>2. CASE uPc' = [uPc EXCEPT ![u] = next] /\ uFaults' = uFaults
  BY <1>1, <1>2 DEF GoesOn
<1>3. CASE Upload!Fault(u)
  <2>1. uFaults' = uFaults + 1 /\ uFaults' \in 0..UploadFaults
    BY <1>1, <1>3 DEF Upload!Fault
  <2>2. PICK q \in {Upload!OnError(u), "failed"} : uPc' = [uPc EXCEPT ![u] = q]
    BY <1>3 DEF Upload!Fault
  <2>3. q \in UploadPcs
    BY OnErrorTyped DEF OnErrorPcs, UploadPcs
  <2>4. QED
    BY <2>1, <2>2, <2>3 DEF GoesOn
<1>4. QED
  BY <1>2, <1>3 DEF Upload!Ran

LEMMA PutAtEffect ==
    ASSUME NEW f \in Seq(UploadChunk), NEW k \in Nat \ {0}, NEW x \in UploadChunk
    PROVE  /\ Upload!PutAt(f, k, x) \in Seq(UploadChunk)
           /\ Len(Upload!PutAt(f, k, x)) = IF Len(f) < k THEN k ELSE Len(f)
<1> DEFINE n == IF Len(f) < k THEN k ELSE Len(f)
<1> DEFINE g(j) == IF j = k THEN x ELSE IF j <= Len(f) THEN f[j] ELSE <<"hole", j>>
<1>1. n \in Nat
  OBVIOUS
<1>2. ASSUME NEW j \in 1..n
      PROVE  g(j) \in UploadChunk
  <2>1. <<"hole", j>> \in UploadChunk
    BY DEF UploadChunk
  <2>2. j <= Len(f) => f[j] \in UploadChunk
    OBVIOUS
  <2>3. QED
    BY <2>1, <2>2
<1>3. Upload!PutAt(f, k, x) = [j \in 1..n |-> g(j)]
  BY DEF Upload!PutAt
<1> HIDE DEF n, g
<1>4. [j \in 1..n |-> g(j)] \in Seq(UploadChunk) /\ Len([j \in 1..n |-> g(j)]) = n
  BY <1>1, <1>2
<1>5. QED
  BY <1>3, <1>4 DEF n

\* The file at the staging path is the one rewritten, or a new one; no other changes.
LEMMA RewriteEffect ==
    ASSUME UploadTypes, NEW u \in Uploads, NEW s \in Seq(UploadChunk), Upload!Rewrite(u, s)
    PROVE  /\ data' \in Seq(Seq(UploadChunk))
           /\ Len(data') \in {Len(data), Len(data) + 1}
           /\ uPart' \in [Contents -> 0..Len(data')]
           /\ \A c \in Contents \ {Content(u)} : uPart'[c] = uPart[c]
           /\ uPart'[Content(u)] \in {Upload!Staged(u), Len(data) + 1} /\ uPart'[Content(u)] \in 1..Len(data')
           /\ \A i \in 1..Len(data) : i # Upload!Staged(u) => data'[i] = data[i]
           /\ \A i \in 1..Len(data') : i = uPart'[Content(u)] \/ (i \in 1..Len(data) /\ data'[i] = data[i])
           /\ data'[uPart'[Content(u)]] = s
<1> DEFINE c == Content(u)
<1>1. /\ c \in Contents /\ uParams[u].content = c
      /\ Upload!Staged(u) = uPart[c] /\ Upload!Staged(u) \in 0..Len(data)
  BY ContentTyped
<1>2. data \in Seq(Seq(UploadChunk)) /\ uPart \in [Contents -> 0..Len(data)] /\ Len(data) \in Nat
  BY DEF UploadTypes, Upload!TypeOK
<1> HIDE DEF c
<1>3. CASE Upload!Staged(u) = 0
  <2>1. data' = Append(data, s) /\ uPart' = [uPart EXCEPT ![c] = Len(data) + 1]
    BY <1>1, <1>3 DEF Upload!Rewrite
  <2>2. /\ data' \in Seq(Seq(UploadChunk)) /\ Len(data') = Len(data) + 1
        /\ \A i \in 1..Len(data) : data'[i] = data[i]
        /\ data'[Len(data) + 1] = s
    BY <1>2, <2>1, AppendProperties
  <2>3. /\ uPart' \in [Contents -> 0..Len(data')] /\ uPart'[c] = Len(data) + 1
        /\ \A e \in Contents \ {c} : uPart'[e] = uPart[e]
    BY <1>1, <1>2, <2>1, <2>2
  <2>4. QED
    BY <1>2, <2>2, <2>3 DEF c
<1>4. CASE Upload!Staged(u) # 0
  <2>1. data' = [data EXCEPT ![uPart[c]] = s] /\ uPart' = uPart
    BY <1>1, <1>4 DEF Upload!Rewrite
  <2>2. uPart[c] \in 1..Len(data)
    BY <1>1, <1>2, <1>4
  <2>3. /\ data' \in Seq(Seq(UploadChunk)) /\ Len(data') = Len(data)
        /\ \A i \in 1..Len(data) : data'[i] = IF i = uPart[c] THEN s ELSE data[i]
    BY <1>2, <2>1, <2>2, ExceptSeq
  <2>4. QED
    BY <1>1, <1>2, <2>1, <2>2, <2>3 DEF c
<1>5. QED
  BY <1>3, <1>4
----------------------------------------------------------------------------
(* The uploads: what a step of one of them may do.                         *)

\* Everything of u keeps its type, and the rest of the others' is left alone.
StepTypes(u, q) ==
    /\ uPc' = [uPc EXCEPT ![u] = q] /\ UNCHANGED <<shared, uParams>>
    /\ uFaults' \in 0..UploadFaults
    /\ data' \in Seq(Seq(UploadChunk)) /\ Len(data) <= Len(data')
    /\ ~shared => \A i \in 1..Len(data') : Len(data'[i]) <= Size + 1
    /\ uPart' \in [Contents -> 0..Len(data')] /\ dest' \in 0..Len(data')
    /\ handle' \in [Uploads -> 0..Len(data')] /\ pos' \in [Uploads -> 0..(Size + 1)]
    /\ \A v \in Uploads \ {u} : handle'[v] = handle[v] /\ pos'[v] = pos[v]
    /\ \A c \in Contents \ {Content(u)} : uPart'[c] = uPart[c]
    /\ q = "write" => pos'[u] < Size /\ (~shared => handle'[u] # 0)
    /\ q \in {"check", "resume", "trim", "open"} => pos'[u] = 0
    /\ q = "open" => ~shared
    /\ uPc[u] \notin Upload!Ended /\ q # "new"
    /\ uPc[u] = "new" /\ Isolated => \A v \in Upload!Active : Content(v) # Content(u)

\* The file a write of u goes to.
Written(u) == IF uPc[u] = "write" /\ ~shared THEN handle[u] ELSE Upload!Staged(u)

\* Only the file that u writes to changes, only a staged file becomes the destination, and what
\* u goes on to publish is the file it has found to match.
StepFiles(u, q) ==
    /\ \A i \in 1..Len(data) : data'[i] = data[i] \/ (uPc[u] \in {"open", "write"} /\ i = Written(u))
    /\ uPart'[Content(u)] \in {0, uPart[Content(u)], Len(data) + 1}
    /\ \/ dest' \in {0, dest}
       \/ /\ dest' = uPart[Content(u)] /\ uPc[u] \in {"publish", "rename"}
          /\ q = "unlink" \/ uPart'[Content(u)] = 0
    /\ uPc[u] = "unlink" /\ Isolated => uPart'[Content(u)] = 0
    /\ q = "write" /\ ~shared =>
          \/ handle'[u] = uPart'[Content(u)]
          \/ uPc[u] = "write" /\ handle'[u] = handle[u] /\ uPart'[Content(u)] = uPart[Content(u)]
    /\ q \in {"publish", "rename", "unlink"} =>
          UNCHANGED <<uPart, data>> /\ (uPc[u] \in {"publish", "rename", "unlink"} \/ Upload!Matches(u))
    /\ q = "rename" => uParams[u].overwrite
    /\ dest' # dest => uPc[u] = "rename" \/ uParams[u].overwrite \/ dest = 0

\* Without a fault u leaves a partial file only as the request allows.
StepLeft(u, q) ==
    /\ uFaults' \in {uFaults, uFaults + 1}
    /\ uFaults' = 0 /\ uPart'[Content(u)] # 0 =>
          /\ uPc[u] \in Working => q \in Working \/ (q = "failed" /\ uParams[u].resume)
          /\ uPart[Content(u)] # 0 \/ q \in Working
          /\ pos'[u] # 0 => pos[u] # 0 \/ q \in Working

OneStep(u) == \E q \in UploadPcs : StepTypes(u, q) /\ StepFiles(u, q) /\ StepLeft(u, q)

\* A command that changes nothing at the remote end.
LEMMA QuietStep ==
    ASSUME UploadTypes, NEW u \in Uploads, NEW q \in UploadPcs, uPc' = [uPc EXCEPT ![u] = q],
           UNCHANGED <<shared, uParams, uPart, dest, data, handle, pos>>,
           uFaults' \in 0..UploadFaults, uFaults' \in {uFaults, uFaults + 1},
           uPc[u] \notin Upload!Ended, q # "new", q # "rename",
           uPc[u] = "new" /\ Isolated => \A v \in Upload!Active : Content(v) # Content(u),
           q \in {"check", "resume", "trim", "open"} => pos[u] = 0,
           q = "write" => pos[u] < Size /\ shared, q = "open" => ~shared,
           ~(Isolated /\ uPc[u] = "unlink"),
           q \in {"publish", "unlink"} => Upload!Matches(u),
           uFaults' = 0 /\ uPc[u] \in Working => q \in Working \/ (q = "failed" /\ uParams[u].resume)
    PROVE  OneStep(u)
<1>1. StepTypes(u, q)
  BY DEF UploadTypes, Upload!TypeOK, StepTypes
<1>2. StepFiles(u, q)
  BY DEF StepFiles
<1>3. StepLeft(u, q)
  BY DEF StepLeft
<1>4. QED
  BY <1>1, <1>2, <1>3 DEF OneStep

LEMMA FaultsAre ==
    ASSUME UploadTypes
    PROVE  uFaults \in Nat /\ UploadFaults \in Nat /\ uFaults \in 0..UploadFaults /\ uFaults + 1 # 0
BY TransfersAssumption DEF UploadTypes, Upload!TypeOK

\* Where a command leads that has nothing to show for it but its answer.
LEMMA AnswerStep ==
    ASSUME UploadTypes, NEW u \in Uploads, NEW next \in UploadPcs, Upload!Ran(u, next),
           UNCHANGED <<shared, uParams, uPart, dest, data, handle, pos>>,
           uPc[u] \notin Upload!Ended \cup {"new", "unlink"}, next \notin {"new", "rename", "unlink"},
           next \in {"check", "resume", "trim", "open"} => pos[u] = 0,
           next = "write" => pos[u] < Size /\ shared, next = "open" => ~shared,
           next = "publish" => Upload!Matches(u),
           uPc[u] \in Working => next \in Working
    PROVE  OneStep(u)
<1>1. PICK q \in UploadPcs : GoesOn(u, q, next) /\ uFaults' \in 0..UploadFaults
  BY RanEffect
<1>2. q \in OnErrorPcs \cup {next}
  BY <1>1, OnErrorTyped DEF GoesOn, OnErrorPcs
<1>3. uFaults' \in {uFaults, uFaults + 1} /\ (uFaults' = 0 => q = next)
  BY <1>1, FaultsAre DEF GoesOn
<1>4. uPc' = [uPc EXCEPT ![u] = q]
  BY <1>1 DEF GoesOn
<1>5. /\ q \notin {"new", "rename", "unlink"}
      /\ q \in {"check", "resume", "trim", "open"} => pos[u] = 0
      /\ q = "write" => pos[u] < Size /\ shared
      /\ q = "open" => ~shared
      /\ q = "publish" => Upload!Matches(u)
  BY <1>2 DEF OnErrorPcs
<1>6. uFaults' = 0 /\ uPc[u] \in Working => q \in Working
  BY <1>3
<1>7. QED
  BY <1>1, <1>3, <1>4, <1>5, <1>6, QuietStep DEF Upload!Ended
LEMMA RefusedStep ==
    ASSUME UploadTypes, NEW u \in Uploads, Upload!Refused(u),
           UNCHANGED <<shared, uParams, uPart, dest, data, handle, pos>>,
           uPc[u] \notin Upload!Ended \cup {"new", "unlink", "cleanup"}
    PROVE  OneStep(u)
<1>1. PICK q \in OnErrorPcs : q = Upload!OnError(u)
  BY OnErrorTyped
<1>2. q \in UploadPcs
  BY DEF OnErrorPcs, UploadPcs
<1>3. uPc' = [uPc EXCEPT ![u] = q] /\ uFaults' = uFaults
  BY <1>1 DEF Upload!Refused
<1>4. uPc[u] \in Working => q \in Working \/ (q = "failed" /\ uParams[u].resume)
  BY <1>1 DEF Upload!OnError, Working, Upload!BeforeTry
<1>5. uFaults' \in 0..UploadFaults /\ uFaults' \in {uFaults, uFaults + 1}
  BY <1>3, FaultsAre
<1>6. q \notin {"new", "check", "resume", "trim", "open", "write", "publish", "rename", "unlink"}
  BY DEF OnErrorPcs
<1>7. QED
  BY <1>2, <1>3, <1>4, <1>5, <1>6, QuietStep

LEMMA UploadBegin == ASSUME UploadTypes, NEW u \in Uploads, Upload!Begin(u) PROVE OneStep(u)
<1>1. /\ uPc[u] = "new" /\ uPc' = [uPc EXCEPT ![u] = "check"]
      /\ UNCHANGED <<shared, uParams, uPart, dest, data, handle, pos, uFaults>>
  BY DEF Upload!Begin, Upload!files
<1>2. Isolated => \A v \in Upload!Active : Content(v) # Content(u)
  BY DEF Upload!Begin, Content
<1>3. uFaults' \in 0..UploadFaults /\ uFaults' \in {uFaults, uFaults + 1}
  BY <1>1, FaultsAre
<1>4. pos[u] = 0 /\ "check" \in UploadPcs
  BY <1>1 DEF UploadTypes, UploadPcs
<1>5. QED
  BY <1>1, <1>2, <1>3, <1>4, QuietStep DEF Upload!Ended, Working

LEMMA SendIs == Upload!Send \in {"open", "write"} /\ (Upload!Send = "write" <=> shared)
BY DEF Upload!Send

LEMMA UploadCheckDestination == ASSUME UploadTypes, NEW u \in Uploads, Upload!CheckDestination(u) PROVE OneStep(u)
<1>1. uPc[u] = "check" /\ UNCHANGED <<shared, uParams, uPart, dest, data, handle, pos>>
  BY DEF Upload!CheckDestination, Upload!files
<1>2. pos[u] = 0 /\ 0 < Size
  BY <1>1, DownloadSpoolAssumption DEF UploadTypes
<1>3. CASE Upload!Refused(u)
  BY <1>1, <1>3, RefusedStep DEF Upload!Ended
<1>4. CASE Upload!Ran(u, IF uParams[u].resume THEN "resume" ELSE Upload!Send)
  <2>1. PICK next \in {"resume", "open", "write"} :
          Upload!Ran(u, next) /\ (next = "write" => shared) /\ (next = "open" => ~shared)
    BY <1>4, SendIs
  <2>2. next \in UploadPcs
    BY DEF UploadPcs
  <2>3. QED
    BY <1>1, <1>2, <2>1, <2>2, AnswerStep DEF Upload!Ended, Working
<1>5. QED
  BY <1>3, <1>4 DEF Upload!CheckDestination

\* What the staging path holds is what has been sent.
LEMMA CountStep ==
    ASSUME UploadTypes, NEW u \in Uploads, uPc[u] \in {"resume", "open"},
           NEW next \in {"verify", "write"}, Upload!Ran(u, next), UNCHANGED <<shared, uParams, uPart, dest, data>>,
           NEW n \in 0..(Size + 1), pos' = [pos EXCEPT ![u] = n],
           handle' \in [Uploads -> 0..Len(data)], \A v \in Uploads \ {u} : handle'[v] = handle[v],
           next = "write" => n < Size,
           ~shared => handle'[u] = Upload!Staged(u) /\ Upload!Staged(u) # 0
    PROVE  OneStep(u)
<1>1. next \in UploadPcs /\ next \in Working
  BY DEF UploadPcs, Working
<1>2. PICK q \in UploadPcs : GoesOn(u, q, next) /\ uFaults' \in 0..UploadFaults
  BY <1>1, RanEffect
<1>3. q \in OnErrorPcs \cup {next}
  BY <1>2, OnErrorTyped DEF GoesOn, OnErrorPcs
<1>4. uFaults' \in {uFaults, uFaults + 1} /\ (uFaults' = 0 => q = next) /\ uPc' = [uPc EXCEPT ![u] = q]
  BY <1>2, FaultsAre DEF GoesOn
<1>5. pos \in [Uploads -> 0..(Size + 1)]
  BY DEF UploadTypes, Upload!TypeOK
<1>6. pos' \in [Uploads -> 0..(Size + 1)] /\ pos'[u] = n /\ \A v \in Uploads \ {u} : pos'[v] = pos[v]
  BY <1>5
<1>7. q \notin {"new", "check", "resume", "trim", "open", "publish", "rename", "unlink"}
  BY <1>3 DEF OnErrorPcs
<1>8. q = "write" => n < Size
  BY <1>3 DEF OnErrorPcs
<1>9. StepTypes(u, q)
  <2>1. q = "write" => pos'[u] < Size /\ (~shared => handle'[u] # 0)
    BY <1>6, <1>8
  <2>2. data \in Seq(Seq(UploadChunk)) /\ (~shared => \A i \in 1..Len(data) : Len(data[i]) <= Size + 1)
    BY DEF UploadTypes
  <2>3. uPart \in [Contents -> 0..Len(data)] /\ dest \in 0..Len(data) /\ Len(data) \in Nat
    BY DEF UploadTypes, Upload!TypeOK
  <2>4. QED
    BY <1>2, <1>4, <1>6, <1>7, <2>1, <2>2, <2>3 DEF StepTypes, Upload!Ended
<1>10. StepFiles(u, q)
  BY <1>7, ContentTyped DEF StepFiles
<1>11. StepLeft(u, q)
  BY <1>1, <1>4 DEF StepLeft, Working
<1>12. QED
  BY <1>9, <1>10, <1>11 DEF OneStep

LEMMA UploadFindPartial == ASSUME UploadTypes, NEW u \in Uploads, Upload!FindPartial(u) PROVE OneStep(u)
<1>1. uPc[u] = "resume" /\ UNCHANGED <<shared, uParams, uPart, dest, data, handle>>
  BY DEF Upload!FindPartial, Upload!files
<1>2. pos[u] = 0 /\ 0 < Size /\ Size \in Nat
  BY <1>1, DownloadSpoolAssumption DEF UploadTypes
<1>3. CASE Upload!Ran(u, Upload!Send) /\ UNCHANGED pos
  <2>1. PICK next \in {"open", "write"} :
          Upload!Ran(u, next) /\ (next = "write" => shared) /\ (next = "open" => ~shared)
    BY <1>3, SendIs
  <2>2. next \in UploadPcs
    BY DEF UploadPcs
  <2>3. QED
    BY <1>1, <1>2, <1>3, <2>1, <2>2, AnswerStep DEF Upload!Ended, Working
<1>4. CASE Upload!Ran(u, "trim") /\ UNCHANGED pos
  <2>1. "trim" \in UploadPcs
    BY DEF UploadPcs
  <2>2. QED
    BY <1>1, <1>2, <1>4, <2>1, AnswerStep DEF Upload!Ended, Working
<1>5. CASE /\ Upload!Staged(u) # 0 /\ shared /\ Len(data[Upload!Staged(u)]) <= Size
           /\ Upload!Ran(u, IF Len(data[Upload!Staged(u)]) = Size THEN "verify" ELSE "write")
           /\ pos' = [pos EXCEPT ![u] = Len(data[Upload!Staged(u)])]
  <2>1. Upload!Staged(u) \in 1..Len(data)
    BY <1>5, ContentTyped
  <2>2. data[Upload!Staged(u)] \in Seq(UploadChunk)
    BY <2>1 DEF UploadTypes
  <2>3. PICK n \in 0..Size : n = Len(data[Upload!Staged(u)])
    BY <1>2, <1>5, <2>2
  <2>4. PICK next \in {"verify", "write"} : Upload!Ran(u, next) /\ (next = "write" => n # Size)
    BY <1>5, <2>3
  <2>5. pos' = [pos EXCEPT ![u] = n]
    BY <1>5, <2>3
  <2>6. next = "write" => n < Size
    BY <1>2, <2>4
  <2>7. n \in 0..(Size + 1)
    BY <1>2
  <2>8. handle' \in [Uploads -> 0..Len(data)] /\ \A v \in Uploads \ {u} : handle'[v] = handle[v]
    BY <1>1 DEF UploadTypes, Upload!TypeOK
  <2>9. QED
    BY <1>1, <1>5, <2>4, <2>5, <2>6, <2>7, <2>8, CountStep
<1>6. QED
  BY <1>3, <1>4, <1>5 DEF Upload!FindPartial
\* A write to the staging path.
LEMMA RewriteStep ==
    ASSUME UploadTypes, NEW u \in Uploads, uPc[u] = "open" \/ (uPc[u] = "write" /\ shared),
           NEW s \in Seq(UploadChunk), Upload!Rewrite(u, s), ~shared => Len(s) <= Size + 1,
           UNCHANGED <<shared, uParams, dest>>,
           NEW next \in {"verify", "write"}, Upload!Ran(u, next),
           NEW n \in 0..Size, pos' = [pos EXCEPT ![u] = n], next = "write" => n < Size,
           handle' \in [Uploads -> 0..Len(data')], \A v \in Uploads \ {u} : handle'[v] = handle[v],
           ~shared => handle'[u] = uPart'[Content(u)]
    PROVE  OneStep(u)
<1>1. next \in UploadPcs /\ next \in Working
  BY DEF UploadPcs, Working
<1>2. PICK q \in UploadPcs : GoesOn(u, q, next) /\ uFaults' \in 0..UploadFaults
  BY <1>1, RanEffect
<1>3. q \in OnErrorPcs \cup {next}
  BY <1>2, OnErrorTyped DEF GoesOn, OnErrorPcs
<1>4. uFaults' \in {uFaults, uFaults + 1} /\ (uFaults' = 0 => q = next) /\ uPc' = [uPc EXCEPT ![u] = q]
  BY <1>2, FaultsAre DEF GoesOn
<1>5. pos \in [Uploads -> 0..(Size + 1)] /\ Size \in Nat /\ dest \in 0..Len(data) /\ Len(data) \in Nat
  BY DownloadSpoolAssumption DEF UploadTypes, Upload!TypeOK
<1>6. pos' \in [Uploads -> 0..(Size + 1)] /\ pos'[u] = n /\ \A v \in Uploads \ {u} : pos'[v] = pos[v]
  BY <1>5
<1>7. q \notin {"new", "check", "resume", "trim", "open", "publish", "rename", "unlink"}
  BY <1>3 DEF OnErrorPcs
<1>8. q = "write" => n < Size
  BY <1>3 DEF OnErrorPcs
<1>9. /\ data' \in Seq(Seq(UploadChunk)) /\ Len(data') \in {Len(data), Len(data) + 1}
      /\ uPart' \in [Contents -> 0..Len(data')] /\ \A c \in Contents \ {Content(u)} : uPart'[c] = uPart[c]
      /\ uPart'[Content(u)] \in {Upload!Staged(u), Len(data) + 1} /\ uPart'[Content(u)] \in 1..Len(data')
      /\ \A i \in 1..Len(data) : i # Upload!Staged(u) => data'[i] = data[i]
      /\ \A i \in 1..Len(data') : i = uPart'[Content(u)] \/ (i \in 1..Len(data) /\ data'[i] = data[i])
      /\ data'[uPart'[Content(u)]] = s
  BY RewriteEffect
<1>10. ~shared => \A i \in 1..Len(data') : Len(data'[i]) <= Size + 1
  BY <1>9 DEF UploadTypes
<1>11. StepTypes(u, q)
  <2>1. q = "write" => pos'[u] < Size /\ (~shared => handle'[u] # 0)
    BY <1>6, <1>8, <1>9
  <2>2. Len(data) <= Len(data') /\ dest' \in 0..Len(data')
    <3>1. Len(data') \in {Len(data), Len(data) + 1} /\ dest' = dest
      BY <1>9
    <3>2. QED
      BY <1>5, <3>1
  <2>3. uPc[u] \notin Upload!Ended \cup {"new"}
    BY DEF Upload!Ended
  <2>4. uPart' \in [Contents -> 0..Len(data')] /\ \A c \in Contents \ {Content(u)} : uPart'[c] = uPart[c]
    BY <1>9
  <2>5. QED
    BY <1>2, <1>4, <1>6, <1>7, <1>9, <1>10, <2>1, <2>2, <2>3, <2>4 DEF StepTypes
<1>12. StepFiles(u, q)
  <2>1. Written(u) = Upload!Staged(u) /\ Upload!Staged(u) = uPart[Content(u)]
    BY ContentTyped DEF Written
  <2>2. \A i \in 1..Len(data) : data'[i] = data[i] \/ (uPc[u] \in {"open", "write"} /\ i = Written(u))
    BY <1>9, <2>1
  <2>3. uPart'[Content(u)] \in {0, uPart[Content(u)], Len(data) + 1}
    BY <1>9, <2>1
  <2>4. q = "write" /\ ~shared => handle'[u] = uPart'[Content(u)]
    OBVIOUS
  <2>5. QED
    BY <1>7, <2>2, <2>3, <2>4 DEF StepFiles
<1>13. StepLeft(u, q)
  BY <1>1, <1>4 DEF StepLeft, Working
<1>14. QED
  BY <1>11, <1>12, <1>13 DEF OneStep

LEMMA UploadOpen == ASSUME UploadTypes, NEW u \in Uploads, Upload!Open(u) PROVE OneStep(u)
<1>1. uPc[u] = "open" /\ UNCHANGED <<shared, uParams, dest>>
  BY DEF Upload!Open
<1>2. /\ pos[u] = 0 /\ 0 < Size /\ Size \in Nat /\ pos \in [Uploads -> 0..(Size + 1)]
      /\ handle \in [Uploads -> 0..Len(data)] /\ Len(data) \in Nat /\ shared \in BOOLEAN
  BY <1>1, DownloadSpoolAssumption DEF UploadTypes, Upload!TypeOK
<1>3. CASE /\ Upload!Rewrite(u, <<>>) /\ handle' = [handle EXCEPT ![u] = uPart'[uParams[u].content]]
           /\ pos' = [pos EXCEPT ![u] = 0] /\ Upload!Ran(u, "write")
  <2>1. <<>> \in Seq(UploadChunk) /\ Len(<<>>) <= Size + 1
    BY <1>2
  <2>2. Len(data') \in {Len(data), Len(data) + 1} /\ uPart'[Content(u)] \in 1..Len(data')
    BY <1>3, <2>1, RewriteEffect
  <2>3. /\ handle' \in [Uploads -> 0..Len(data')] /\ handle'[u] = uPart'[Content(u)]
        /\ \A v \in Uploads \ {u} : handle'[v] = handle[v]
    BY <1>2, <1>3, <2>2 DEF Content
  <2>4. PICK next \in {"verify", "write"} : next = "write"
    OBVIOUS
  <2>5. PICK n \in 0..Size : n = 0
    BY <1>2
  <2>6. PICK s \in Seq(UploadChunk) : s = <<>>
    BY <2>1
  <2>7. /\ Upload!Rewrite(u, s) /\ Len(s) <= Size + 1 /\ Upload!Ran(u, next) /\ pos' = [pos EXCEPT ![u] = n]
        /\ n < Size
    BY <1>2, <1>3, <2>1, <2>4, <2>5, <2>6
  <2>8. QED
    BY <1>1, <2>3, <2>7, RewriteStep
<1>4. CASE Upload!Refused(u) /\ UNCHANGED <<uPart, data, handle, pos>>
  BY <1>1, <1>4, RefusedStep DEF Upload!Ended
<1>5. CASE /\ Upload!Staged(u) # 0 /\ handle' = [handle EXCEPT ![u] = Upload!Staged(u)]
           /\ pos' = [pos EXCEPT ![u] = Len(data[Upload!Staged(u)])]
           /\ Upload!Ran(u, IF Len(data[Upload!Staged(u)]) >= Size THEN "verify" ELSE "write")
           /\ UNCHANGED <<uPart, data>>
  <2>1. Upload!Staged(u) \in 1..Len(data)
    BY <1>5, ContentTyped
  <2>2. data[Upload!Staged(u)] \in Seq(UploadChunk) /\ (~shared => Len(data[Upload!Staged(u)]) <= Size + 1)
    BY <2>1 DEF UploadTypes
  <2>3. ~shared
    BY <1>1 DEF UploadTypes
  <2>4. PICK n \in 0..(Size + 1) : n = Len(data[Upload!Staged(u)])
    BY <1>2, <2>2, <2>3
  <2>5. PICK next \in {"verify", "write"} : Upload!Ran(u, next) /\ (next = "write" => n < Size)
    BY <1>2, <1>5, <2>4
  <2>6. /\ handle' \in [Uploads -> 0..Len(data)] /\ handle'[u] = Upload!Staged(u)
        /\ \A v \in Uploads \ {u} : handle'[v] = handle[v]
    BY <1>2, <1>5, <2>1
  <2>7. QED
    BY <1>1, <1>5, <2>4, <2>5, <2>6, CountStep
<1>6. QED
  BY <1>3, <1>4, <1>5 DEF Upload!Open
\* A chunk through the SFTP handle.
LEMMA HandleStep ==
    ASSUME UploadTypes, NEW u \in Uploads, uPc[u] = "write", ~shared,
           NEW next \in {"verify", "write"}, Upload!Ran(u, next), UNCHANGED <<shared, uParams, uPart, dest, handle>>,
           NEW k \in 1..Size, pos' = [pos EXCEPT ![u] = k], next = "write" => k < Size,
           NEW x \in UploadChunk, data' = [data EXCEPT ![handle[u]] = Upload!PutAt(@, k, x)]
    PROVE  OneStep(u)
<1>1. next \in UploadPcs /\ next \in Working
  BY DEF UploadPcs, Working
<1>2. PICK q \in UploadPcs : GoesOn(u, q, next) /\ uFaults' \in 0..UploadFaults
  BY <1>1, RanEffect
<1>3. q \in OnErrorPcs \cup {next}
  BY <1>2, OnErrorTyped DEF GoesOn, OnErrorPcs
<1>4. uFaults' \in {uFaults, uFaults + 1} /\ (uFaults' = 0 => q = next) /\ uPc' = [uPc EXCEPT ![u] = q]
  BY <1>2, FaultsAre DEF GoesOn
<1>5. pos \in [Uploads -> 0..(Size + 1)] /\ Size \in Nat /\ Len(data) \in Nat
  BY DownloadSpoolAssumption DEF UploadTypes, Upload!TypeOK
<1>6. pos' \in [Uploads -> 0..(Size + 1)] /\ pos'[u] = k /\ \A v \in Uploads \ {u} : pos'[v] = pos[v]
  BY <1>5
<1>7. q \notin {"new", "check", "resume", "trim", "open", "publish", "rename", "unlink"}
  BY <1>3 DEF OnErrorPcs
<1>8. q = "write" => k < Size
  BY <1>3 DEF OnErrorPcs
<1>9. handle[u] \in 1..Len(data) /\ data \in Seq(Seq(UploadChunk)) /\ Len(data[handle[u]]) <= Size + 1
  BY <1>5 DEF UploadTypes, Upload!TypeOK
<1>10. PICK s \in Seq(UploadChunk) : s = Upload!PutAt(data[handle[u]], k, x) /\ Len(s) <= Size + 1
  <2>1. data[handle[u]] \in Seq(UploadChunk)
    BY <1>9
  <2>2. PICK f \in Seq(UploadChunk) : f = data[handle[u]]
    BY <2>1
  <2>3. k \in Nat \ {0} /\ k <= Size + 1
    BY <1>5
  <2>4. /\ Upload!PutAt(f, k, x) \in Seq(UploadChunk)
        /\ Len(Upload!PutAt(f, k, x)) = IF Len(f) < k THEN k ELSE Len(f)
    BY <2>3, PutAtEffect
  <2>5. Len(Upload!PutAt(f, k, x)) <= Size + 1
    BY <1>9, <2>2, <2>3, <2>4
  <2>6. QED
    BY <2>2, <2>4, <2>5
<1>11. data' = [data EXCEPT ![handle[u]] = s]
  BY <1>10
<1>12. /\ data' \in Seq(Seq(UploadChunk)) /\ Len(data') = Len(data)
       /\ \A i \in 1..Len(data) : data'[i] = IF i = handle[u] THEN s ELSE data[i]
  BY <1>9, <1>11, ExceptSeq
<1>13. StepTypes(u, q)
  <2>1. q = "write" => pos'[u] < Size /\ (~shared => handle'[u] # 0)
    BY <1>6, <1>8, <1>9
  <2>2. \A i \in 1..Len(data') : Len(data'[i]) <= Size + 1
    BY <1>10, <1>12 DEF UploadTypes
  <2>3. /\ uPart' \in [Contents -> 0..Len(data')] /\ dest' \in 0..Len(data')
        /\ handle' \in [Uploads -> 0..Len(data')] /\ Len(data) <= Len(data')
    BY <1>5, <1>12 DEF UploadTypes, Upload!TypeOK
  <2>4. QED
    BY <1>2, <1>4, <1>6, <1>7, <1>12, <2>1, <2>2, <2>3 DEF StepTypes, Upload!Ended
<1>14. StepFiles(u, q)
  BY <1>7, <1>12 DEF StepFiles, Written
<1>15. StepLeft(u, q)
  BY <1>1, <1>4 DEF StepLeft, Working
<1>16. QED
  BY <1>13, <1>14, <1>15 DEF OneStep

LEMMA UploadWriteChunk == ASSUME UploadTypes, NEW u \in Uploads, Upload!WriteChunk(u) PROVE OneStep(u)
<1>1. uPc[u] = "write" /\ UNCHANGED <<shared, uParams, dest, handle>>
  BY DEF Upload!WriteChunk
<1>2. /\ pos[u] < Size /\ Size \in Nat /\ pos \in [Uploads -> 0..(Size + 1)]
      /\ handle \in [Uploads -> 0..Len(data)] /\ Len(data) \in Nat /\ shared \in BOOLEAN
  BY <1>1, DownloadSpoolAssumption DEF UploadTypes, Upload!TypeOK
<1>3. PICK k \in 1..Size : k = pos[u] + 1
  BY <1>2
<1>4. PICK x \in UploadChunk : x = <<uParams[u].content, k>>
  <2>1. uParams[u].content \in Contents /\ k \in Nat
    BY <1>2, ContentTyped
  <2>2. <<uParams[u].content, k>> \in UploadChunk
    BY <2>1 DEF UploadChunk
  <2>3. QED
    BY <2>2
<1>5. CASE Upload!Refused(u) /\ UNCHANGED <<uPart, data, pos>>
  BY <1>1, <1>5, RefusedStep DEF Upload!Ended
<1>6. CASE ~(shared /\ k > 1 /\ Upload!Staged(u) = 0)
  <2>1. /\ \/ ~shared /\ data' = [data EXCEPT ![handle[u]] = Upload!PutAt(@, k, x)] /\ uPart' = uPart
           \/ shared /\ Upload!Rewrite(u, IF k = 1 THEN <<x>> ELSE Append(data[Upload!Staged(u)], x))
        /\ pos' = [pos EXCEPT ![u] = k]
        /\ Upload!Ran(u, IF k = Size THEN "verify" ELSE "write")
    BY <1>3, <1>4, <1>6 DEF Upload!WriteChunk
  <2>2. PICK next \in {"verify", "write"} : Upload!Ran(u, next) /\ (next = "write" => k # Size)
    BY <2>1
  <2>3. next = "write" => k < Size
    BY <1>2, <2>2
  <2>4. CASE ~shared
    BY <1>1, <2>1, <2>2, <2>3, <2>4, HandleStep
  <2>5. CASE shared
    <3>1. k # 1 => data[Upload!Staged(u)] \in Seq(UploadChunk)
      BY <1>3, <1>6, <2>5, ContentTyped DEF UploadTypes
    <3>2. (IF k = 1 THEN <<x>> ELSE Append(data[Upload!Staged(u)], x)) \in Seq(UploadChunk)
      BY <3>1, AppendProperties
    <3>3. PICK s \in Seq(UploadChunk) : s = IF k = 1 THEN <<x>> ELSE Append(data[Upload!Staged(u)], x)
      BY <3>2
    <3>4. Upload!Rewrite(u, s)
      BY <2>1, <2>5, <3>3
    <3>5. Len(data') \in {Len(data), Len(data) + 1}
      BY <3>4, RewriteEffect
    <3>6. handle' \in [Uploads -> 0..Len(data')] /\ \A v \in Uploads \ {u} : handle'[v] = handle[v]
      BY <1>1, <1>2, <3>5
    <3>7. k \in 0..Size
      BY <1>2
    <3>8. QED
      BY <1>1, <2>1, <2>2, <2>3, <2>5, <3>4, <3>6, <3>7, RewriteStep
  <2>6. QED
    BY <1>2, <2>4, <2>5
<1>7. QED
  BY <1>1, <1>3, <1>5, <1>6 DEF Upload!WriteChunk
LEMMA UploadVerify == ASSUME UploadTypes, NEW u \in Uploads, Upload!Verify(u) PROVE OneStep(u)
<1>1. /\ uPc[u] = "verify" /\ UNCHANGED <<shared, uParams, uPart, dest, data, handle, pos>>
  BY DEF Upload!Verify, Upload!files
<1>2. PICK next \in {"publish", "retry", "discard"} :
        Upload!Ran(u, next) /\ (next = "publish" => Upload!Matches(u))
  BY DEF Upload!Verify
<1>3. next \in UploadPcs /\ next \in Working
  BY DEF UploadPcs, Working
<1>4. QED
  BY <1>1, <1>2, <1>3, AnswerStep DEF Upload!Ended

\* The staging path is empty afterwards.
LEMMA ClearedStep ==
    ASSUME UploadTypes, NEW u \in Uploads, NEW q \in UploadPcs, uPc' = [uPc EXCEPT ![u] = q],
           UNCHANGED <<shared, uParams, data, handle>>,
           uPart' = [uPart EXCEPT ![Content(u)] = 0],
           pos' \in [Uploads -> 0..(Size + 1)], \A v \in Uploads \ {u} : pos'[v] = pos[v],
           uFaults' \in 0..UploadFaults, uFaults' \in {uFaults, uFaults + 1},
           uPc[u] \notin Upload!Ended \cup {"new"},
           q \in {"open", "write"} => pos'[u] = 0, q = "open" => ~shared, q = "write" => shared,
           q \notin {"new", "check", "resume", "trim", "publish", "rename", "unlink"},
           \/ dest' = dest
           \/ /\ dest' = Upload!Staged(u) /\ uPc[u] \in {"publish", "rename"}
              /\ uPc[u] = "rename" \/ uParams[u].overwrite \/ dest = 0
    PROVE  OneStep(u)
<1>1. /\ Content(u) \in Contents /\ uPart[Content(u)] = Upload!Staged(u) /\ Upload!Staged(u) \in 0..Len(data)
      /\ uPart \in [Contents -> 0..Len(data)] /\ dest \in 0..Len(data) /\ Len(data) \in Nat
  BY ContentTyped DEF UploadTypes, Upload!TypeOK
<1>2. /\ uPart' \in [Contents -> 0..Len(data)] /\ uPart'[Content(u)] = 0
      /\ \A c \in Contents \ {Content(u)} : uPart'[c] = uPart[c]
  BY <1>1
<1>3. StepTypes(u, q)
  <2>1. q = "write" => pos'[u] < Size /\ shared
    BY DownloadSpoolAssumption
  <2>2. dest' \in 0..Len(data')
    BY <1>1
  <2>3. /\ data \in Seq(Seq(UploadChunk)) /\ (~shared => \A i \in 1..Len(data) : Len(data[i]) <= Size + 1)
        /\ handle \in [Uploads -> 0..Len(data)]
    BY DEF UploadTypes, Upload!TypeOK
  <2>4. QED
    BY <1>1, <1>2, <2>1, <2>2, <2>3 DEF StepTypes
<1>4. StepFiles(u, q)
  BY <1>1, <1>2 DEF StepFiles
<1>5. StepLeft(u, q)
  BY <1>2 DEF StepLeft
<1>6. QED
  BY <1>3, <1>4, <1>5 DEF OneStep

\* The command that empties it, and its answer.
LEMMA ClearedAnswerStep ==
    ASSUME UploadTypes, NEW u \in Uploads, NEW next \in UploadPcs, Upload!Ran(u, next),
           UNCHANGED <<shared, uParams, data, handle>>,
           uPart' = [uPart EXCEPT ![Content(u)] = 0],
           pos' \in [Uploads -> 0..(Size + 1)], \A v \in Uploads \ {u} : pos'[v] = pos[v],
           uPc[u] \notin Upload!Ended \cup {"new"},
           next \in {"open", "write"} => pos'[u] = 0, next = "open" => ~shared, next = "write" => shared,
           next \notin {"new", "check", "resume", "trim", "publish", "rename", "unlink"},
           \/ dest' = dest
           \/ /\ dest' = Upload!Staged(u) /\ uPc[u] \in {"publish", "rename"}
              /\ uPc[u] = "rename" \/ uParams[u].overwrite \/ dest = 0
    PROVE  OneStep(u)
<1>1. PICK q \in UploadPcs : GoesOn(u, q, next) /\ uFaults' \in 0..UploadFaults
  BY RanEffect
<1>2. q \in OnErrorPcs \cup {next}
  BY <1>1, OnErrorTyped DEF GoesOn, OnErrorPcs
<1>3. uFaults' \in {uFaults, uFaults + 1} /\ uPc' = [uPc EXCEPT ![u] = q]
  BY <1>1 DEF GoesOn
<1>4. /\ q \in {"open", "write"} => pos'[u] = 0
      /\ q = "open" => ~shared
      /\ q = "write" => shared
      /\ q \notin {"new", "check", "resume", "trim", "publish", "rename", "unlink"}
  BY <1>2 DEF OnErrorPcs
<1>5. QED
  BY <1>1, <1>3, <1>4, ClearedStep

LEMMA UploadRemove == ASSUME UploadTypes, NEW u \in Uploads, Upload!Remove(u) PROVE OneStep(u)
<1>1. /\ uPc[u] \in {"trim", "retry", "discard", "cleanup"}
      /\ UNCHANGED <<shared, uParams, dest, data, handle>>
      /\ uPart' = [uPart EXCEPT ![Content(u)] = 0]
      /\ Upload!Ran(u, IF uPc[u] \in {"trim", "retry"} THEN Upload!Send ELSE Upload!OnError(u))
      /\ pos' = IF uPc[u] \in {"trim", "retry"} THEN [pos EXCEPT ![u] = 0] ELSE pos
  BY DEF Upload!Remove, Content
<1>2. pos \in [Uploads -> 0..(Size + 1)] /\ Size \in Nat
  BY DownloadSpoolAssumption DEF UploadTypes, Upload!TypeOK
<1>3. pos' \in [Uploads -> 0..(Size + 1)] /\ \A v \in Uploads \ {u} : pos'[v] = pos[v]
  BY <1>1, <1>2
<1>4. CASE uPc[u] \in {"trim", "retry"}
  <2>1. PICK next \in {"open", "write"} :
          Upload!Ran(u, next) /\ (next = "write" => shared) /\ (next = "open" => ~shared)
    BY <1>1, <1>4, SendIs
  <2>2. next \in UploadPcs /\ pos'[u] = 0
    BY <1>1, <1>2, <1>4 DEF UploadPcs
  <2>3. QED
    BY <1>1, <1>3, <2>1, <2>2, ClearedAnswerStep DEF Upload!Ended
<1>5. CASE uPc[u] \notin {"trim", "retry"}
  <2>1. PICK next \in OnErrorPcs : Upload!Ran(u, next)
    BY <1>1, <1>5, OnErrorTyped
  <2>2. next \in UploadPcs /\ next \in {"discard", "failed", "cleanup"}
    BY DEF UploadPcs, OnErrorPcs
  <2>3. QED
    BY <1>1, <1>3, <2>1, <2>2, ClearedAnswerStep DEF Upload!Ended
<1>6. QED
  BY <1>4, <1>5
\* rm and ln, whose staged file is still at its staging path.
LEMMA LinkStep ==
    ASSUME UploadTypes, NEW u \in Uploads, uPc[u] = "publish", NEW q \in UploadPcs, uPc' = [uPc EXCEPT ![u] = q],
           UNCHANGED <<shared, uParams, uPart, data, handle, pos>>,
           uFaults' \in 0..UploadFaults, uFaults' \in {uFaults, uFaults + 1}, uFaults' = 0 => q \in Working,
           \/ dest' = 0 /\ uParams[u].overwrite /\ q \in OnErrorPcs \cup {"rename"}
           \/ dest' = Upload!Staged(u) /\ dest = 0 /\ q = "unlink"
    PROVE  OneStep(u)
<1>1. Upload!Staged(u) = uPart[Content(u)] /\ Upload!Staged(u) \in 0..Len(data) /\ Len(data) \in Nat
  BY ContentTyped DEF UploadTypes
<1>2. q \notin {"new", "check", "resume", "trim", "open", "write"}
  BY DEF OnErrorPcs
<1>3. dest' \in 0..Len(data)
  BY <1>1
<1>4. StepTypes(u, q)
  BY <1>1, <1>2, <1>3 DEF UploadTypes, Upload!TypeOK, StepTypes, Upload!Ended
<1>5. StepFiles(u, q)
  BY <1>1, <1>2 DEF StepFiles, OnErrorPcs
<1>6. StepLeft(u, q)
  BY DEF StepLeft
<1>7. QED
  BY <1>4, <1>5, <1>6 DEF OneStep

LEMMA UploadPublish == ASSUME UploadTypes, NEW u \in Uploads, Upload!Publish(u) PROVE OneStep(u)
<1>1. uPc[u] = "publish" /\ UNCHANGED <<shared, uParams, handle, pos>>
  BY DEF Upload!Publish
<1>2. pos \in [Uploads -> 0..(Size + 1)]
  BY DEF UploadTypes, Upload!TypeOK
<1>3. CASE Upload!Refused(u) /\ UNCHANGED <<uPart, dest, data>>
  BY <1>1, <1>3, RefusedStep DEF Upload!Ended
<1>4. CASE Upload!Ran(u, "done") /\ Upload!Move(u) /\ UNCHANGED data /\ (uParams[u].overwrite \/ dest = 0)
  <2>1. dest' = Upload!Staged(u) /\ uPart' = [uPart EXCEPT ![Content(u)] = 0]
    BY <1>4 DEF Upload!Move, Content
  <2>2. PICK next \in {"done"} : Upload!Ran(u, next)
    BY <1>4
  <2>3. next \in UploadPcs
    BY DEF UploadPcs
  <2>4. QED
    BY <1>1, <1>2, <1>4, <2>1, <2>2, <2>3, ClearedAnswerStep DEF Upload!Ended
<1>5. CASE uParams[u].overwrite /\ Upload!Ran(u, "rename") /\ dest' = 0 /\ UNCHANGED <<uPart, data>>
  <2>1. "rename" \in UploadPcs /\ "rename" \in Working
    BY DEF UploadPcs, Working
  <2>2. PICK q \in UploadPcs : GoesOn(u, q, "rename") /\ uFaults' \in 0..UploadFaults
    BY <1>5, <2>1, RanEffect
  <2>3. q \in OnErrorPcs \cup {"rename"}
    BY <2>2, OnErrorTyped DEF GoesOn, OnErrorPcs
  <2>4. uFaults' \in {uFaults, uFaults + 1} /\ (uFaults' = 0 => q = "rename") /\ uPc' = [uPc EXCEPT ![u] = q]
    BY <2>2, FaultsAre DEF GoesOn
  <2>5. QED
    BY <1>1, <1>5, <2>1, <2>2, <2>3, <2>4, LinkStep
<1>6. CASE /\ Upload!MayLink(u) /\ uPc' = [uPc EXCEPT ![u] = "unlink"] /\ dest' = Upload!Staged(u)
           /\ UNCHANGED <<uPart, data, uFaults>>
  <2>1. "unlink" \in UploadPcs /\ "unlink" \in Working /\ dest = 0
    BY <1>6 DEF UploadPcs, Working, Upload!MayLink
  <2>2. uFaults' \in 0..UploadFaults /\ uFaults' \in {uFaults, uFaults + 1}
    BY <1>6, FaultsAre
  <2>3. PICK q \in {"unlink"} : uPc' = [uPc EXCEPT ![u] = q]
    BY <1>6
  <2>4. QED
    BY <1>1, <1>6, <2>1, <2>2, <2>3, LinkStep
<1>7. QED
  BY <1>3, <1>4, <1>5, <1>6 DEF Upload!Publish, Upload!files, Upload!MayLink

LEMMA UploadRename == ASSUME UploadTypes, NEW u \in Uploads, Upload!Rename(u) PROVE OneStep(u)
<1>1. uPc[u] = "rename" /\ UNCHANGED <<shared, uParams, handle, pos>>
  BY DEF Upload!Rename
<1>2. pos \in [Uploads -> 0..(Size + 1)]
  BY DEF UploadTypes, Upload!TypeOK
<1>3. CASE Upload!Refused(u) /\ UNCHANGED <<uPart, dest, data>>
  BY <1>1, <1>3, RefusedStep DEF Upload!Ended
<1>4. CASE Upload!Ran(u, "done") /\ Upload!Move(u) /\ UNCHANGED data
  <2>1. dest' = Upload!Staged(u) /\ uPart' = [uPart EXCEPT ![Content(u)] = 0]
    BY <1>4 DEF Upload!Move, Content
  <2>2. PICK next \in {"done"} : Upload!Ran(u, next)
    BY <1>4
  <2>3. next \in UploadPcs
    BY DEF UploadPcs
  <2>4. QED
    BY <1>1, <1>2, <1>4, <2>1, <2>2, <2>3, ClearedAnswerStep DEF Upload!Ended
<1>5. QED
  BY <1>3, <1>4 DEF Upload!Rename, Upload!files

LEMMA UploadUnlink == ASSUME UploadTypes, NEW u \in Uploads, Upload!Unlink(u) PROVE OneStep(u)
<1>1. /\ uPc[u] = "unlink" /\ UNCHANGED <<shared, uParams, dest, data, handle, pos>>
      /\ uPart' = [uPart EXCEPT ![Content(u)] = 0]
  BY DEF Upload!Unlink, Content
<1>2. pos \in [Uploads -> 0..(Size + 1)]
  BY DEF UploadTypes, Upload!TypeOK
<1>3. PICK next \in {"done"} : Upload!Ran(u, next)
  BY DEF Upload!Unlink
<1>4. next \in UploadPcs
  BY DEF UploadPcs
<1>5. QED
  BY <1>1, <1>2, <1>3, <1>4, ClearedAnswerStep DEF Upload!Ended

LEMMA UploadCut == ASSUME UploadTypes, NEW u \in Uploads, Upload!Cut(u) PROVE OneStep(u)
<1>1. /\ u \in Upload!Active /\ ~(Isolated /\ uPc[u] = "unlink") /\ Upload!Fault(u)
      /\ UNCHANGED <<shared, uParams, uPart, dest, data, handle, pos>>
  BY DEF Upload!Cut, Upload!files
<1>2. PICK q \in OnErrorPcs : uPc' = [uPc EXCEPT ![u] = q]
  BY <1>1, OnErrorTyped DEF Upload!Fault, OnErrorPcs
<1>3. q \in UploadPcs
  BY DEF OnErrorPcs, UploadPcs
<1>4. uFaults' = uFaults + 1 /\ uFaults' \in 0..UploadFaults /\ uFaults' # 0
  BY <1>1, FaultsAre DEF Upload!Fault
<1>5. uPc[u] \notin Upload!Ended /\ uPc[u] # "new"
  BY <1>1 DEF Upload!Active
<1>6. q \notin {"new", "check", "resume", "trim", "open", "write", "publish", "rename", "unlink"}
  BY DEF OnErrorPcs
<1>7. QED
  BY <1>1, <1>2, <1>3, <1>4, <1>5, <1>6, QuietStep

LEMMA StepIsOne == ASSUME UploadTypes, NEW u \in Uploads, Upload!Step(u) PROVE OneStep(u)
BY UploadBegin, UploadCheckDestination, UploadFindPartial, UploadOpen, UploadWriteChunk, UploadVerify, UploadRemove,
   UploadPublish, UploadRename, UploadUnlink, UploadCut DEF Upload!Step
----------------------------------------------------------------------------
(* The uploads: what every step of one keeps.                              *)

LEMMA UploadTypesKept == ASSUME UploadTypes, NEW u \in Uploads, OneStep(u) PROVE UploadTypes'
<1>1. PICK q \in UploadPcs : StepTypes(u, q)
  BY DEF OneStep
<1>2. uPc \in [Uploads -> UploadPcs]
  BY UploadPcsAre
<1>3. uPc' \in [Uploads -> UploadPcs] /\ uPc'[u] = q /\ \A v \in Uploads \ {u} : uPc'[v] = uPc[v]
  BY <1>1, <1>2 DEF StepTypes
<1>4. Upload!TypeOK'
  <2>1. uPc' \in [Uploads -> Upload!Ended \cup Upload!BeforeTry \cup {"new", "open", "write", "verify",
                 "retry", "discard", "cleanup", "publish", "rename", "unlink"}]
    BY <1>3 DEF UploadPcs, Upload!Ended, Upload!BeforeTry
  <2>2. QED
    BY <1>1, <2>1 DEF StepTypes, Upload!TypeOK
<1>5. /\ shared' \in BOOLEAN /\ uParams' \in [Uploads -> Upload!Params] /\ data' \in Seq(Seq(UploadChunk))
      /\ ~shared' => \A i \in 1..Len(data') : Len(data'[i]) <= Size + 1
  BY <1>1 DEF UploadTypes, StepTypes, Upload!Params
<1>6. ASSUME NEW v \in Uploads
      PROVE  /\ uPc'[v] = "write" => pos'[v] < Size /\ (~shared' => handle'[v] # 0)
             /\ uPc'[v] \in {"new", "check", "resume", "trim", "open"} => pos'[v] = 0
             /\ uPc'[v] = "open" => ~shared'
  <2>1. CASE v = u
    BY <1>1, <1>3, <2>1 DEF StepTypes
  <2>2. CASE v # u
    BY <1>1, <1>3, <2>2 DEF StepTypes, UploadTypes
  <2>3. QED
    BY <2>1, <2>2
<1>7. QED
  BY <1>4, <1>5, <1>6 DEF UploadTypes

LEMMA LeftKept == ASSUME UploadTypes, LeftInv, NEW u \in Uploads, OneStep(u) PROVE LeftInv'
<1> SUFFICES ASSUME uFaults' = 0, NEW c \in Contents, uPart'[c] # 0
             PROVE  \/ \E v \in Uploads : Content(v)' = c /\ uPc'[v] = "failed" /\ uParams'[v].resume
                    \/ \A v \in Uploads : Content(v)' = c => pos'[v] = 0
                    \/ \E v \in Uploads : Content(v)' = c /\ uPc'[v] \in Working
  BY DEF LeftInv, Working
<1>1. PICK q \in UploadPcs : StepTypes(u, q) /\ StepLeft(u, q)
  BY DEF OneStep
<1>2. uPc \in [Uploads -> UploadPcs] /\ uFaults = 0
  BY <1>1, UploadPcsAre, FaultsAre DEF StepLeft
<1>3. uPc'[u] = q /\ \A v \in Uploads \ {u} : uPc'[v] = uPc[v] /\ pos'[v] = pos[v]
  BY <1>1, <1>2 DEF StepTypes
<1>4. uParams' = uParams /\ uPc[u] # "failed" /\ \A v \in Uploads : Content(v)' = Content(v)
  BY <1>1 DEF StepTypes, Content, Upload!Ended
<1>5. CASE Content(u) # c
  <2>1. uPart[c] # 0
    BY <1>1, <1>5 DEF StepTypes
  <2>2. \A v \in Uploads : Content(v) = c => v # u
    BY <1>5
  <2>3. QED
    BY <1>2, <1>3, <1>4, <2>1, <2>2 DEF LeftInv
<1>6. CASE Content(u) = c
  <2>1. /\ uPc[u] \in Working => q \in Working \/ (q = "failed" /\ uParams[u].resume)
        /\ uPart[c] # 0 \/ q \in Working
        /\ pos'[u] # 0 => pos[u] # 0 \/ q \in Working
    BY <1>1, <1>6 DEF StepLeft
  <2>2. CASE q \in Working
    BY <1>3, <1>4, <1>6, <2>2
  <2>3. CASE q \notin Working
    <3>1. \/ \E v \in Uploads : Content(v) = c /\ uPc[v] = "failed" /\ uParams[v].resume
          \/ \A v \in Uploads : Content(v) = c => pos[v] = 0
          \/ \E v \in Uploads : Content(v) = c /\ uPc[v] \in Working
      BY <1>2, <2>1, <2>3 DEF LeftInv
    <3>2. CASE \E v \in Uploads : Content(v) = c /\ uPc[v] = "failed" /\ uParams[v].resume
      BY <1>3, <1>4, <3>2
    <3>3. CASE \A v \in Uploads : Content(v) = c => pos[v] = 0
      BY <1>3, <1>4, <1>6, <2>1, <2>3, <3>3
    <3>4. CASE \E v \in Uploads : Content(v) = c /\ uPc[v] \in Working
      BY <1>3, <1>4, <1>6, <2>1, <2>3, <3>4
    <3>5. QED
      BY <3>1, <3>2, <3>3, <3>4
  <2>4. QED
    BY <2>2, <2>3
<1>7. QED
  BY <1>5, <1>6

LEMMA LeftSays == LeftInv => Upload!NothingLeft
BY DEF LeftInv, Upload!NothingLeft, Upload!Active, Upload!Ended, Working, Content
----------------------------------------------------------------------------
(* The uploads: what a step keeps when the staging paths are spared.       *)

\* A step of u is one of an upload under way, and others of its content are not.
LEMMA AloneWithContent ==
    ASSUME OneEach, NEW u \in Upload!Active, NEW v \in Uploads, v # u, Content(v) = Content(u)
    PROVE  uPc[v] \in {"new", "done", "failed"}
BY DEF OneEach, Upload!Active, Upload!Ended

LEMMA OneEachKept ==
    ASSUME Isolated, UploadTypes, OneEach, NEW u \in Uploads, NEW q \in UploadPcs, StepTypes(u, q)
    PROVE  OneEach'
<1> SUFFICES ASSUME NEW v \in Upload!Active', NEW w \in Upload!Active', v # w
             PROVE  Content(v) # Content(w)
  BY DEF OneEach, StepTypes, Content
<1>1. uPc \in [Uploads -> UploadPcs] /\ uPc' = [uPc EXCEPT ![u] = q] /\ uPc[u] \notin Upload!Ended
  BY UploadPcsAre DEF StepTypes
<1>2. \A x \in Upload!Active' : x \in Uploads /\ (x # u => x \in Upload!Active)
  BY <1>1 DEF Upload!Active
<1>3. CASE uPc[u] = "new"
  BY <1>2, <1>3 DEF OneEach, StepTypes
<1>4. CASE uPc[u] # "new"
  BY <1>1, <1>2, <1>4 DEF OneEach, Upload!Active
<1>5. QED
  BY <1>3, <1>4

\* What another upload under way has staged is not written to, removed or moved.
LEMMA OthersSpared ==
    ASSUME UploadTypes, OneEach, OwnStaging, HandleInv, NEW u \in Uploads, NEW q \in UploadPcs,
           StepTypes(u, q), StepFiles(u, q),
           NEW c \in Contents, c # Content(u), uPart[c] # 0
    PROVE  uPart'[c] = uPart[c] /\ data'[uPart[c]] = data[uPart[c]]
<1>1. uPart'[c] = uPart[c]
  BY DEF StepTypes
<1>2. uPart[c] \in 1..Len(data) /\ Content(u) \in Contents
  BY ContentTyped DEF UploadTypes, Upload!TypeOK
<1>3. Written(u) = uPart[Content(u)] \/ uPc[u] \notin {"open", "write"}
  BY ContentTyped DEF Written, HandleInv
<1>4. Written(u) # uPart[c] \/ uPc[u] \notin {"open", "write"}
  BY <1>2, <1>3 DEF OwnStaging
<1>5. QED
  BY <1>1, <1>2, <1>4 DEF StepFiles

\* The published file is never written to.
LEMMA PublishedSpared ==
    ASSUME UploadTypes, OneEach, OwnStaging, HandleInv, NEW u \in Uploads, NEW q \in UploadPcs,
           StepTypes(u, q), StepFiles(u, q), dest # 0
    PROVE  data'[dest] = data[dest]
<1>1. dest \in 1..Len(data) /\ Content(u) \in Contents
  BY ContentTyped DEF UploadTypes, Upload!TypeOK
<1>2. ASSUME uPc[u] \in {"open", "write"}, dest = Written(u)
      PROVE  FALSE
  <2>1. dest = uPart[Content(u)]
    BY <1>2, ContentTyped DEF Written, HandleInv
  <2>2. PICK v \in Uploads : uPc[v] = "unlink" /\ Content(v) = Content(u)
    BY <1>1, <2>1 DEF OwnStaging
  <2>3. u \in Upload!Active /\ v # u
    BY <1>2, <2>2 DEF Upload!Active, Upload!Ended
  <2>4. QED
    BY <2>2, <2>3, AloneWithContent
<1>3. QED
  BY <1>1, <1>2 DEF StepFiles

LEMMA OwnStagingKept ==
    ASSUME Isolated, UploadTypes, OneEach, OwnStaging, NEW u \in Uploads, NEW q \in UploadPcs,
           StepTypes(u, q), StepFiles(u, q)
    PROVE  OwnStaging'
<1> DEFINE own == Content(u)
<1>1. /\ own \in Contents /\ uPart \in [Contents -> 0..Len(data)] /\ dest \in 0..Len(data) /\ Len(data) \in Nat
      /\ uPc \in [Uploads -> UploadPcs]
  BY ContentTyped, UploadPcsAre DEF UploadTypes, Upload!TypeOK
<1>2. /\ \A c \in Contents \ {own} : uPart'[c] = uPart[c]
      /\ uPart'[own] \in {0, uPart[own], Len(data) + 1}
  BY DEF StepTypes, StepFiles
<1>3. /\ uPc' = [uPc EXCEPT ![u] = q] /\ \A v \in Uploads : Content(v)' = Content(v)
  BY DEF StepTypes, Content
<1>4. uPc[u] \notin Upload!Ended
  BY DEF StepTypes
<1> HIDE DEF own
<1>5. ASSUME NEW c \in Contents, NEW e \in Contents, uPart'[c] # 0, uPart'[c] = uPart'[e]
      PROVE  c = e
  <2>1. \A x \in Contents : uPart[x] # Len(data) + 1
    BY <1>1
  <2>2. QED
    BY <1>1, <1>2, <1>5, <2>1 DEF OwnStaging
<1>6. ASSUME NEW c \in Contents, uPart'[c] # 0, uPart'[c] = dest'
      PROVE  \E v \in Uploads : uPc'[v] = "unlink" /\ Content(v)' = c
  <2>1. CASE dest' = dest
    <3>1. uPart'[c] = uPart[c]
      BY <1>1, <1>2, <1>6, <2>1
    <3>2. PICK v \in Uploads : uPc[v] = "unlink" /\ Content(v) = c
      BY <1>6, <2>1, <3>1 DEF OwnStaging
    <3>3. v # u
      <4>1. uPc[u] = "unlink" => uPart'[own] = 0
        BY DEF StepFiles, own
      <4>2. QED
        BY <1>6, <3>2, <4>1 DEF own
    <3>4. QED
      BY <1>1, <1>3, <3>2, <3>3
  <2>2. CASE dest' # dest
    <3>1. dest' = uPart[own] /\ (q = "unlink" \/ uPart'[own] = 0)
      BY <1>6, <2>2 DEF StepFiles, own
    <3>2. c = own
      BY <1>1, <1>2, <1>6, <3>1 DEF OwnStaging
    <3>3. q = "unlink"
      BY <1>6, <3>1, <3>2
    <3>4. uPc'[u] = "unlink" /\ Content(u)' = c
      BY <1>1, <1>3, <3>2, <3>3 DEF own
    <3>5. QED
      BY <3>4
  <2>3. QED
    BY <2>1, <2>2
<1>7. QED
  BY <1>5, <1>6 DEF OwnStaging
LEMMA OtherContent ==
    ASSUME Isolated, OneEach, NEW u \in Uploads, NEW q \in UploadPcs, StepTypes(u, q),
           NEW v \in Upload!Active, v # u
    PROVE  Content(v) # Content(u)
<1>1. CASE uPc[u] = "new"
  BY <1>1 DEF StepTypes
<1>2. CASE uPc[u] # "new"
  BY <1>2 DEF StepTypes, OneEach, Upload!Active
<1>3. QED
  BY <1>1, <1>2

LEMMA HandleKept ==
    ASSUME Isolated, UploadTypes, OneEach, HandleInv, NEW u \in Uploads, NEW q \in UploadPcs,
           StepTypes(u, q), StepFiles(u, q)
    PROVE  HandleInv'
<1> SUFFICES ASSUME NEW v \in Uploads, uPc'[v] = "write", ~shared'
             PROVE  handle'[v] = uPart'[Content(v)]
  BY DEF HandleInv, Upload!Staged, Content, StepTypes
<1>1. uPc \in [Uploads -> UploadPcs] /\ uPc' = [uPc EXCEPT ![u] = q] /\ shared' = shared
  BY UploadPcsAre DEF StepTypes
<1>2. CASE v = u
  BY <1>1, <1>2, ContentTyped DEF StepFiles, HandleInv
<1>3. CASE v # u
  <2>1. uPc[v] = "write" /\ v \in Upload!Active
    BY <1>1, <1>3 DEF Upload!Active, Upload!Ended
  <2>2. Content(v) # Content(u) /\ Content(v) \in Contents
    BY <1>3, <2>1, OtherContent, ContentTyped
  <2>3. handle[v] = uPart[Content(v)]
    BY <1>1, <2>1, ContentTyped DEF HandleInv
  <2>4. QED
    BY <1>3, <2>2, <2>3 DEF StepTypes
<1>4. QED
  BY <1>2, <1>3

LEMMA VerifiedKept ==
    ASSUME Isolated, UploadTypes, OneEach, OwnStaging, HandleInv, VerifiedInv, NEW u \in Uploads, NEW q \in UploadPcs,
           StepTypes(u, q), StepFiles(u, q)
    PROVE  VerifiedInv'
<1>1. uPc \in [Uploads -> UploadPcs] /\ uPc' = [uPc EXCEPT ![u] = q] /\ uParams' = uParams
  BY UploadPcsAre DEF StepTypes
<1>2. ASSUME NEW v \in Uploads, uPc'[v] \in {"publish", "rename", "unlink"}
      PROVE  Upload!Matches(v)'
  <2>1. CASE v = u
    <3>1. UNCHANGED <<uPart, data>> /\ Upload!Matches(u)
      BY <1>1, <1>2, <2>1 DEF StepFiles, VerifiedInv
    <3>2. QED
      BY <1>1, <2>1, <3>1 DEF Upload!Matches, Upload!Staged, Upload!Full
  <2>2. CASE v # u
    <3>1. uPc[v] \in {"publish", "rename", "unlink"} /\ v \in Upload!Active
      BY <1>1, <1>2, <2>2 DEF Upload!Active, Upload!Ended
    <3>2. Content(v) # Content(u) /\ Content(v) \in Contents
      BY <2>2, <3>1, OtherContent, ContentTyped
    <3>3. uPart[Content(v)] # 0 /\ data[uPart[Content(v)]] = Upload!Full(Content(v))
      BY <3>1 DEF VerifiedInv, Upload!Matches, Upload!Staged, Content
    <3>4. uPart'[Content(v)] = uPart[Content(v)] /\ data'[uPart[Content(v)]] = data[uPart[Content(v)]]
      BY <3>2, <3>3, OthersSpared
    <3>5. QED
      BY <1>1, <3>3, <3>4 DEF Upload!Matches, Upload!Staged, Upload!Full, Content
  <2>3. QED
    BY <2>1, <2>2
<1>3. ASSUME NEW v \in Uploads, uPc'[v] = "rename"
      PROVE  uParams'[v].overwrite
  BY <1>1, <1>3 DEF StepFiles, VerifiedInv
<1>4. QED
  BY <1>2, <1>3 DEF VerifiedInv

LEMMA PublishedKept ==
    ASSUME UploadTypes, OneEach, OwnStaging, HandleInv, VerifiedInv, Upload!PublishedIntact,
           NEW u \in Uploads, NEW q \in UploadPcs, StepTypes(u, q), StepFiles(u, q), UploadTypes'
    PROVE  Upload!PublishedIntact'
<1>1. CASE dest' = 0
  BY <1>1 DEF Upload!PublishedIntact, UploadTypes
<1>2. CASE dest' = dest /\ dest # 0
  <2>1. data'[dest'] = data[dest] /\ data[dest] \in {Upload!OldFile} \cup {Upload!Full(c) : c \in Contents}
    BY <1>2, PublishedSpared DEF Upload!PublishedIntact
  <2>2. data'[dest'] \in {Upload!OldFile} \cup {Upload!Full(c) : c \in Contents}
    BY <2>1
  <2>3. QED
    BY <2>2 DEF Upload!PublishedIntact, UploadTypes, Upload!Full, Upload!OldFile
<1>3. CASE dest' = uPart[Content(u)] /\ uPc[u] \in {"publish", "rename"}
  <2>1. uPart[Content(u)] # 0 /\ data[uPart[Content(u)]] = Upload!Full(Content(u))
    BY <1>3 DEF VerifiedInv, Upload!Matches, Upload!Staged, Content
  <2>2. uPart[Content(u)] \in 1..Len(data) /\ Content(u) \in Contents
    <3>1. /\ Content(u) \in Contents /\ Upload!Staged(u) = uPart[Content(u)]
          /\ Upload!Staged(u) \in 0..Len(data) /\ Len(data) \in Nat
      BY ContentTyped DEF UploadTypes
    <3>2. QED
      BY <2>1, <3>1
  <2>3. data'[dest'] = Upload!Full(Content(u))
    BY <1>3, <2>1, <2>2 DEF StepFiles
  <2>4. data'[dest'] \in {Upload!OldFile} \cup {Upload!Full(c) : c \in Contents}
    BY <2>2, <2>3
  <2>5. QED
    BY <2>4 DEF Upload!PublishedIntact, UploadTypes, Upload!Full, Upload!OldFile
<1>4. QED
  BY <1>1, <1>2, <1>3 DEF StepFiles

LEMMA IsolatedKept == ASSUME Isolated, UploadTypes, IsolatedInv, NEW u \in Uploads, OneStep(u) PROVE IsolatedInv'
<1>1. PICK q \in UploadPcs : StepTypes(u, q) /\ StepFiles(u, q)
  BY DEF OneStep
<1>2. OneEach /\ OwnStaging /\ HandleInv /\ VerifiedInv /\ Upload!PublishedIntact
  BY DEF IsolatedInv
<1>3. OneEach' /\ OwnStaging' /\ HandleInv' /\ VerifiedInv'
  BY <1>1, <1>2, OneEachKept, OwnStagingKept, HandleKept, VerifiedKept
<1>4. Upload!PublishedIntact'
  BY <1>1, <1>2, UploadTypesKept, PublishedKept
<1>5. QED
  BY <1>3, <1>4 DEF IsolatedInv

\* The destination that an upload finds is not its to change unless it may overwrite.
LEMMA DestinationKept ==
    ASSUME UploadTypes, IsolatedInv, NEW w \in Uploads, OneStep(w),
           NEW u \in Uploads, ~uParams[u].overwrite, <<uPc[u], pos[u]>>' # <<uPc[u], pos[u]>>, dest # 0
    PROVE  dest' = dest /\ data'[dest] = data[dest]
<1>1. PICK q \in UploadPcs : StepTypes(w, q) /\ StepFiles(w, q)
  BY DEF OneStep
<1>2. u = w
  <2>1. uPc \in [Uploads -> UploadPcs] /\ uPc' = [uPc EXCEPT ![w] = q]
    BY <1>1, UploadPcsAre DEF StepTypes
  <2>2. u # w => uPc'[u] = uPc[u] /\ pos'[u] = pos[u]
    BY <1>1, <2>1 DEF StepTypes
  <2>3. QED
    BY <2>2
<1>3. data'[dest] = data[dest]
  BY <1>1, PublishedSpared DEF IsolatedInv
<1>4. dest' = dest
  BY <1>1, <1>2 DEF StepFiles, IsolatedInv, VerifiedInv
<1>5. QED
  BY <1>3, <1>4
----------------------------------------------------------------------------
(* The uploads: from the start on.                                         *)

LEMMA LeftoverTyped ==
    ASSUME NEW c \in Contents, NEW f \in Upload!Leftovers(c)
    PROVE  f \in Seq(UploadChunk) /\ Len(f) <= Size + 1
<1>1. Size \in Nat \ {0}
  BY DownloadSpoolAssumption
<1>2. PICK g \in Seq(UploadChunk) : g = Upload!Full(c) /\ Len(g) = Size
  <2>1. \A k \in 1..Size : <<c, k>> \in UploadChunk
    BY <1>1 DEF UploadChunk
  <2>2. Upload!Full(c) \in Seq(UploadChunk) /\ Len(Upload!Full(c)) = Size
    BY <1>1, <2>1 DEF Upload!Full
  <2>3. QED
    BY <2>2
<1>3. PICK x \in UploadChunk : x = <<c, Size>>
  BY <1>1 DEF UploadChunk
<1>4. CASE \E n \in 0..Size : f = SubSeq(g, 1, n)
  <2>1. PICK n \in 0..Size : f = SubSeq(g, 1, n)
    BY <1>4
  <2>2. SubSeq(g, 1, n) \in Seq(UploadChunk) /\ Len(SubSeq(g, 1, n)) <= Size
    BY <1>1, <1>2
  <2>3. QED
    BY <1>1, <2>1, <2>2
<1>5. CASE f = Append(g, x)
  BY <1>1, <1>2, <1>5, AppendProperties
<1>6. CASE f = Upload!PutAt(<<>>, Size, x)
  <2>1. PICK e \in Seq(UploadChunk) : e = <<>> /\ Len(e) = 0
    BY EmptySeq
  <2>2. /\ Upload!PutAt(e, Size, x) \in Seq(UploadChunk)
        /\ Len(Upload!PutAt(e, Size, x)) = IF Len(e) < Size THEN Size ELSE Len(e)
    BY <1>1, PutAtEffect
  <2>3. QED
    BY <1>1, <1>6, <2>1, <2>2
<1>7. QED
  BY <1>2, <1>3, <1>4, <1>5, <1>6 DEF Upload!Leftovers

LEMMA UploadInit == Upload!Init => UploadTypes /\ LeftInv /\ IsolatedInv
<1> SUFFICES ASSUME Upload!Init
             PROVE  UploadTypes /\ LeftInv /\ IsolatedInv
  OBVIOUS
<1>1. /\ shared \in BOOLEAN /\ uParams \in [Uploads -> Upload!Params] /\ uPc = [u \in Uploads |-> "new"]
      /\ handle = [u \in Uploads |-> 0] /\ pos = [u \in Uploads |-> 0] /\ uFaults = 0
  BY DEF Upload!Init
<1>2. PICK before \in {<<>>, <<Upload!OldFile>>} :
         /\ dest = Len(before)
         /\ \/ data = before /\ uPart = [c \in Contents |-> 0]
            \/ \E c \in Contents : \E f \in Upload!Leftovers(c) :
                 /\ data = Append(before, f)
                 /\ uPart = [d \in Contents |-> IF d = c THEN Len(before) + 1 ELSE 0]
  BY DEF Upload!Init
<1>3. Upload!OldFile \in Seq(UploadChunk) /\ Len(Upload!OldFile) <= Size + 1
  BY DownloadSpoolAssumption DEF Upload!OldFile, UploadChunk
<1>4. /\ before \in Seq(Seq(UploadChunk)) /\ Len(before) \in 0..1
      /\ \A i \in 1..Len(before) : before[i] = Upload!OldFile /\ Len(before[i]) <= Size + 1
  <2>1. CASE before = <<>>
    BY <2>1
  <2>2. CASE before = <<Upload!OldFile>>
    BY <1>3, <2>2
  <2>3. QED
    BY <2>1, <2>2
<1>5. /\ data \in Seq(Seq(UploadChunk)) /\ dest \in 0..Len(data) /\ uPart \in [Contents -> 0..Len(data)]
      /\ \A i \in 1..Len(data) : Len(data[i]) <= Size + 1
      /\ dest # 0 => data[dest] = Upload!OldFile
      /\ \A c \in Contents : uPart[c] # 0 => uPart[c] # dest
      /\ \A c, e \in Contents : uPart[c] # 0 /\ uPart[e] # 0 => c = e
  <2>1. CASE data = before /\ uPart = [c \in Contents |-> 0]
    BY <1>2, <1>4, <2>1
  <2>2. ASSUME NEW c \in Contents, NEW f \in Upload!Leftovers(c), data = Append(before, f),
               uPart = [d \in Contents |-> IF d = c THEN Len(before) + 1 ELSE 0]
        PROVE  /\ data \in Seq(Seq(UploadChunk)) /\ dest \in 0..Len(data) /\ uPart \in [Contents -> 0..Len(data)]
               /\ \A i \in 1..Len(data) : Len(data[i]) <= Size + 1
               /\ dest # 0 => data[dest] = Upload!OldFile
               /\ \A e \in Contents : uPart[e] # 0 => uPart[e] # dest
               /\ \A d, e \in Contents : uPart[d] # 0 /\ uPart[e] # 0 => d = e
    <3>1. f \in Seq(UploadChunk) /\ Len(f) <= Size + 1
      BY LeftoverTyped
    <3>2. /\ data \in Seq(Seq(UploadChunk)) /\ Len(data) = Len(before) + 1
          /\ \A i \in 1..Len(before) : data[i] = before[i]
          /\ data[Len(before) + 1] = f
      BY <1>4, <2>2, <3>1, AppendProperties
    <3>3. ASSUME NEW i \in 1..Len(data)
          PROVE  Len(data[i]) <= Size + 1
      <4>1. i \in 1..Len(before) \/ i = Len(before) + 1
        BY <1>4, <3>2
      <4>2. QED
        BY <1>4, <3>1, <3>2, <4>1
    <3>4. QED
      BY <1>2, <1>4, <2>2, <3>2, <3>3
  <2>3. QED
    BY <1>2, <2>1, <2>2
<1>6. UploadTypes
  BY <1>1, <1>5, TransfersAssumption, DownloadSpoolAssumption
  DEF UploadTypes, Upload!TypeOK, Upload!Ended, Upload!BeforeTry
<1>7. LeftInv
  BY <1>1 DEF LeftInv
<1>8. OneEach /\ HandleInv /\ VerifiedInv
  BY <1>1 DEF OneEach, HandleInv, VerifiedInv, Upload!Active
<1>9. OwnStaging
  BY <1>5 DEF OwnStaging
<1>10. Upload!PublishedIntact
  BY <1>5, <1>6 DEF Upload!PublishedIntact, UploadTypes
<1>11. QED
  BY <1>6, <1>7, <1>8, <1>9, <1>10 DEF IsolatedInv
LEMMA UploadTypesStep == ASSUME UploadTypes, [Upload!Next]_uploadVars PROVE UploadTypes'
<1>1. CASE Upload!Next
  BY <1>1, StepIsOne, UploadTypesKept DEF Upload!Next
<1>2. CASE UNCHANGED uploadVars
  BY <1>2 DEF uploadVars, UploadTypes, Upload!TypeOK
<1>3. QED
  BY <1>1, <1>2

LEMMA LeftStep == ASSUME UploadTypes, LeftInv, [Upload!Next]_uploadVars PROVE LeftInv'
<1>1. CASE Upload!Next
  BY <1>1, StepIsOne, LeftKept DEF Upload!Next
<1>2. CASE UNCHANGED uploadVars
  BY <1>2 DEF uploadVars, LeftInv, Content, Working
<1>3. QED
  BY <1>1, <1>2

LEMMA IsolatedStep ==
    ASSUME Isolated, UploadTypes, IsolatedInv, [Upload!Next]_uploadVars
    PROVE  IsolatedInv'
<1>1. CASE Upload!Next
  BY <1>1, StepIsOne, IsolatedKept DEF Upload!Next
<1>2. CASE UNCHANGED uploadVars
  <2>1. UNCHANGED <<shared, uParams, uPc, uPart, dest, data, handle, pos, uResumed, uFaults>>
    BY <1>2 DEF uploadVars
  <2>2. OneEach' /\ OwnStaging' /\ HandleInv'
    BY <2>1 DEF IsolatedInv, OneEach, OwnStaging, HandleInv, Upload!Active, Content, Upload!Staged
  <2>3. VerifiedInv'
    BY <2>1 DEF IsolatedInv, VerifiedInv, Upload!Matches, Upload!Staged, Upload!Full
  <2>4. Upload!PublishedIntact'
    BY <2>1 DEF IsolatedInv, Upload!PublishedIntact, Upload!TypeOK, Upload!Full, Upload!OldFile
  <2>5. QED
    BY <2>2, <2>3, <2>4 DEF IsolatedInv
<1>3. QED
  BY <1>1, <1>2

LEMMA UploadInvariance == AllSpec => [](UploadTypes /\ LeftInv)
<1>1. AllInit => UploadTypes /\ LeftInv
  BY UploadInit DEF AllInit
<1>2. UploadTypes /\ LeftInv /\ [AllNext]_allVars => UploadTypes' /\ LeftInv'
  BY StepOfParts, UploadTypesStep, LeftStep
<1>3. QED
  BY <1>1, <1>2, PTL DEF AllSpec

LEMMA IsolatedInvariance == ASSUME Isolated PROVE AllSpec => [](UploadTypes /\ IsolatedInv)
<1>1. AllInit => UploadTypes /\ IsolatedInv
  BY UploadInit DEF AllInit
<1>2. UploadTypes /\ IsolatedInv /\ [AllNext]_allVars => UploadTypes' /\ IsolatedInv'
  BY StepOfParts, UploadTypesStep, IsolatedStep
<1>3. QED
  BY <1>1, <1>2, PTL DEF AllSpec

----------------------------------------------------------------------------
(* The properties of both ends.                                            *)

\* Whatever the remote file does while it is fetched, whatever fails, crashes or is answered
\* late, and however the remote commands of the uploads interleave: the local path and the
\* remote destination hold nothing, what was there before, or one whole, verified content
\* (publishDownloadedFile, uploadFile).  Of the uploads this takes the isolation that
\* RemoteUpload states: one upload of a content at a time, and no loss between ln and rm.
THEOREM FilesAreWhole == ASSUME Isolated PROVE AllSpec => []OnlyWholeFiles
<1>1. DownloadInv /\ UploadTypes /\ IsolatedInv => OnlyWholeFiles
  BY DownloadsWhole DEF IsolatedInv, OnlyWholeFiles
<1>2. QED
  BY <1>1, DownloadInvariance, IsolatedInvariance, PTL

\* The spool is what its downloads hold or can resume, over any number of crashes
\* (acquireDownloadSpool, prepareTransferSpool); and of uploads that race for one path, and
\* of a sync that ends in any way, nothing is left behind without a fault but what can be
\* resumed (uploadFile's catch block, syncDirectory's finally block).
THEOREM NothingIsForgotten == AllSpec => []NothingForgotten
<1>1. SyncInit => SyncSpoolInv
  BY DEF SyncInit, Sync!Init, SyncSpoolInv
<1>2. AllInit => SyncSpoolInv
  BY <1>1 DEF AllInit
<1>3. SyncSpoolInv /\ [AllNext]_allVars => SyncSpoolInv'
  BY StepOfParts, SyncSpoolStep
<1>4. SyncSpoolInv => Sync!NothingStaged
  BY DEF SyncSpoolInv, Sync!NothingStaged
<1>5. DownloadInv /\ LeftInv /\ SyncSpoolInv => NothingForgotten
  BY <1>4, DownloadsWhole, LeftSays DEF NothingForgotten
<1>6. QED
  BY <1>2, <1>3, <1>5, DownloadInvariance, UploadInvariance, PTL DEF AllSpec

\* A download or an upload that may not overwrite leaves what it finds where it publishes,
\* whoever put it there since it looked (publishDownloadedFile, publishRemoteExclusive).
THEOREM NothingIsOverwritten == ASSUME Isolated PROVE AllSpec => NothingOverwritten
<1>1. DownloadInv /\ [AllNext]_allVars =>
        [\A d \in Downloads :
           ~params[d].overwrite /\ pc'[d] # pc[d] /\ local # Missing => local' = local]_vars
  BY StepOfParts, LocalKept
<1>2. UploadTypes /\ IsolatedInv /\ [AllNext]_allVars =>
        [\A u \in Uploads :
           /\ ~uParams[u].overwrite
           /\ <<uPc[u], pos[u]>>' # <<uPc[u], pos[u]>>
           /\ dest # 0
           => dest' = dest /\ data'[dest] = data[dest]]_Upload!vars
  <2> SUFFICES ASSUME UploadTypes, IsolatedInv, [AllNext]_allVars,
                      NEW u \in Uploads, ~uParams[u].overwrite, <<uPc[u], pos[u]>>' # <<uPc[u], pos[u]>>, dest # 0
               PROVE  dest' = dest /\ data'[dest] = data[dest]
    OBVIOUS
  <2>1. [Upload!Next]_uploadVars
    BY StepOfParts
  <2>2. ~(UNCHANGED uploadVars)
    BY DEF uploadVars
  <2>3. PICK w \in Uploads : Upload!Step(w)
    BY <2>1, <2>2 DEF Upload!Next
  <2>4. QED
    BY <2>3, StepIsOne, DestinationKept
<1>3. QED
  BY <1>1, <1>2, DownloadInvariance, IsolatedInvariance, PTL
  DEF AllSpec, NothingOverwritten, ExclusiveLocal, Upload!ExclusiveKept
----------------------------------------------------------------------------
(* Text: what completeUtf8PrefixLength and isValidUtf8 say of bytes.       *)

LEMMA RoleLengths ==
    /\ Text!Continuation = "continuation" /\ "continuation" \in Text!Bytes
    /\ \A b \in Text!Bytes : Text!Lengths[b] \in 1..4 /\ (Text!Lengths[b] > 1 => b # "continuation")
BY DEF Text!Continuation, Text!Bytes, Text!Lengths

\* From c on, s is the beginning of one sequence and lacks its end.
Unfinished(s, c) ==
    /\ c \in 0 .. Len(s) - 1 /\ s[c + 1] # "continuation"
    /\ \A i \in c + 2 .. Len(s) : s[i] = "continuation"
    /\ Text!Lengths[s[c + 1]] > Len(s) - c
Finished(s) == \A c \in 0 .. Len(s) - 1 : ~Unfinished(s, c)

\* Up to three continuations at the end are looked at.
LEMMA TrailingIs ==
    ASSUME NEW s \in Seq(Text!Bytes)
    PROVE  /\ Text!Trailing(s) \in 0..3 /\ Text!Trailing(s) <= Len(s)
           /\ \A i \in Len(s) - Text!Trailing(s) + 1 .. Len(s) : s[i] = "continuation"
           /\ Text!Trailing(s) < 3 /\ Text!Trailing(s) < Len(s) => s[Len(s) - Text!Trailing(s)] # "continuation"
<1> DEFINE m == Text!Least(3, Len(s))
           Good(n) == /\ \A i \in Len(s) - n + 1 .. Len(s) : s[i] = "continuation"
                      /\ n < m => s[Len(s) - n] # "continuation"
<1>1. m \in 0..3 /\ m <= Len(s) /\ (m < Len(s) => m = 3) /\ Len(s) \in Nat
  <2>1. Len(s) \in Nat /\ m = IF 3 < Len(s) THEN 3 ELSE Len(s)
    BY DEF Text!Least
  <2> QED BY <2>1
<1>2. \E n \in 0..m : Good(n)
  <2>1. CASE m = 0 \/ s[Len(s)] # "continuation"
    <3>1. Good(0)
      BY <1>1, <2>1
    <3> QED BY <1>1, <3>1
  <2>2. CASE m > 0 /\ s[Len(s)] = "continuation" /\ (m = 1 \/ s[Len(s) - 1] # "continuation")
    <3>1. Good(1)
      BY <1>1, <2>2
    <3> QED BY <1>1, <2>2, <3>1
  <2>3. CASE m > 1 /\ s[Len(s)] = "continuation" /\ s[Len(s) - 1] = "continuation" /\ (m = 2 \/ s[Len(s) - 2] # "continuation")
    <3>1. \A i \in Len(s) - 2 + 1 .. Len(s) : i = Len(s) \/ i = Len(s) - 1
      BY <1>1
    <3>2. Good(2)
      BY <1>1, <2>3, <3>1
    <3>3. 2 \in 0..m
      BY <1>1, <2>3
    <3> QED BY <3>2, <3>3
  <2>4. CASE m = 3 /\ s[Len(s)] = "continuation" /\ s[Len(s) - 1] = "continuation" /\ s[Len(s) - 2] = "continuation"
    <3>1. \A i \in Len(s) - 3 + 1 .. Len(s) : i = Len(s) \/ i = Len(s) - 1 \/ i = Len(s) - 2
      BY <1>1
    <3>2. Good(3)
      BY <1>1, <2>4, <3>1
    <3> QED BY <1>1, <2>4, <3>2
  <2> QED BY <1>1, <2>1, <2>2, <2>3, <2>4
<1>3. Text!Trailing(s) = CHOOSE n \in 0..m : Good(n)
  BY RoleLengths DEF Text!Trailing
<1>4. Text!Trailing(s) \in 0..m /\ Good(Text!Trailing(s))
  BY <1>2, <1>3
<1> HIDE DEF m
<1> QED BY <1>1, <1>4

\* What completeUtf8PrefixLength cuts off is an unfinished sequence, and it leaves none.
LEMMA PrefixIs ==
    ASSUME NEW s \in Seq(Text!Bytes)
    PROVE  \/ Text!CompletePrefix(s) = Len(s) /\ Finished(s)
           \/ Unfinished(s, Text!CompletePrefix(s))
<1> DEFINE n == Text!Trailing(s)
           lead == Len(s) - n
<1>1. /\ n \in 0..3 /\ n <= Len(s) /\ Len(s) \in Nat
      /\ \A i \in lead + 1 .. Len(s) : s[i] = "continuation"
      /\ n < 3 /\ n < Len(s) => s[lead] # "continuation"
  BY TrailingIs
<1>2. Text!CompletePrefix(s) = IF lead > 0 /\ Text!Lengths[s[lead]] > n + 1 THEN lead - 1 ELSE Len(s)
  BY DEF Text!CompletePrefix
<1> HIDE DEF n
<1>3. CASE lead > 0 /\ Text!Lengths[s[lead]] > n + 1
  <2>1. s[lead] \in Text!Bytes
    BY <1>1, <1>3
  <2>2. s[lead] # "continuation"
    BY <1>1, <1>3, <2>1, RoleLengths
  <2> QED BY <1>1, <1>2, <1>3, <2>2 DEF Unfinished
<1>4. CASE ~(lead > 0 /\ Text!Lengths[s[lead]] > n + 1)
  <2>1. ASSUME NEW c \in 0 .. Len(s) - 1, Unfinished(s, c)
        PROVE  FALSE
    <3>1. s[c + 1] \in Text!Bytes /\ s[c + 1] # "continuation" /\ Text!Lengths[s[c + 1]] > Len(s) - c
      BY <1>1, <2>1 DEF Unfinished
    <3>2. Len(s) - c < 4
      BY <1>1, <3>1, RoleLengths
    <3>3. c + 1 <= lead
      BY <1>1, <3>1
    <3>4. lead < c + 2
      BY <1>1, <2>1, <3>2 DEF Unfinished
    <3>5. lead = c + 1
      BY <1>1, <3>3, <3>4
    <3> QED BY <1>1, <1>4, <3>1, <3>5
  <2> QED BY <1>2, <1>4, <2>1 DEF Finished
<1> QED BY <1>3, <1>4

\* In a valid text every byte that is no continuation begins a whole sequence, and the next one follows it.
LEMMA ValidStarts ==
    ASSUME NEW s \in Seq(Text!Bytes), Text!Valid(s), NEW i \in 1..Len(s), s[i] # "continuation"
    PROVE  Text!WholeAt(s, i)
<1>1. PICK first \in 1..i : Text!WholeAt(s, first) /\ i < first + Text!Lengths[s[first]]
  BY DEF Text!Valid
<1>2. first \in 1..Len(s) /\ Text!Lengths[s[first]] \in 1..4
  BY RoleLengths
<1>3. first = i
  BY <1>1, <1>2, RoleLengths DEF Text!WholeAt
<1> QED BY <1>1, <1>3

LEMMA ValidGoesOn ==
    ASSUME NEW s \in Seq(Text!Bytes), Text!Valid(s), NEW i \in 1..Len(s), s[i] # "continuation",
           i + Text!Lengths[s[i]] <= Len(s)
    PROVE  s[i + Text!Lengths[s[i]]] # "continuation"
<1> DEFINE e == i + Text!Lengths[s[i]]
<1>1. Text!Lengths[s[i]] \in 1..4 /\ Text!WholeAt(s, i)
  BY ValidStarts, RoleLengths
<1>2. e \in 1..Len(s) /\ i < e
  BY <1>1
<1>3. PICK first \in 1..e : Text!WholeAt(s, first) /\ e < first + Text!Lengths[s[first]]
  <2>0. DOMAIN s = 1..Len(s)
    OBVIOUS
  <2>1. \A k \in 1..Len(s) : \E first \in 1..k : Text!WholeAt(s, first) /\ k < first + Text!Lengths[s[first]]
    BY <2>0, Zenon DEF Text!Valid
  <2> HIDE DEF e
  <2> QED BY <1>2, <2>1
<1>4. first \in 1..Len(s) /\ Text!Lengths[s[first]] \in 1..4 /\ s[first] # "continuation"
  BY <1>2, <1>3, RoleLengths DEF Text!WholeAt
<1>5. ~(first < i)
  BY <1>1, <1>2, <1>3, <1>4, RoleLengths DEF Text!WholeAt
<1>6. ~(i < first /\ first < e)
  <2> SUFFICES ASSUME i < first, first < e
               PROVE  FALSE
    OBVIOUS
  <2>1. first \in i + 1 .. i + Text!Lengths[s[i]] - 1
    BY <1>1, <1>4
  <2> QED BY <1>1, <1>4, <2>1, RoleLengths DEF Text!WholeAt
<1>7. first # i
  BY <1>1, <1>3
<1>8. first = e
  BY <1>2, <1>3, <1>4, <1>5, <1>6, <1>7
<1> QED BY <1>4, <1>8
----------------------------------------------------------------------------
(* Places in the stream.                                                   *)

LEMMA PartIs ==
    ASSUME tBytes \in Seq(Text!Bytes), NEW a \in Nat, NEW b \in Nat, a <= b, b <= Len(tBytes)
    PROVE  /\ Text!Part(a, b) \in Seq(Text!Bytes) /\ Len(Text!Part(a, b)) = b - a
           /\ \A i \in 1 .. b - a : Text!Part(a, b)[i] = tBytes[a + i]
<1>1. Text!Part(a, b) = SubSeq(tBytes, a + 1, b)
  BY DEF Text!Part
<1>2. Len(tBytes) \in Nat
  OBVIOUS
<1>3. SubSeq(tBytes, a + 1, b) \in Seq(Text!Bytes)
  BY <1>2
<1>4. Len(SubSeq(tBytes, a + 1, b)) = b - a
  BY <1>2
<1>5. \A i \in 1 .. b - a : SubSeq(tBytes, a + 1, b)[i] = tBytes[a + i]
  BY <1>2
<1> QED BY <1>1, <1>3, <1>4, <1>5

\* The sequence that begins at l is valid, longer than a byte and has x in the middle.
Around(l, x) ==
    /\ l \in 0 .. Len(tBytes) - 1 /\ l < x /\ x < l + Text!Lengths[tBytes[l + 1]] /\ l + Text!Lengths[tBytes[l + 1]] <= Len(tBytes)
    /\ Text!Valid(Text!Part(l, l + Text!Lengths[tBytes[l + 1]]))
Inside(x) == \E l \in 0 .. x - 1 : Around(l, x)

LEMMA AroundIs ==
    ASSUME tBytes \in Seq(Text!Bytes), NEW x \in Nat, NEW l, Around(l, x)
    PROVE  /\ Text!Lengths[tBytes[l + 1]] \in 2..4 /\ tBytes[l + 1] # "continuation"
           /\ \A i \in l + 2 .. l + Text!Lengths[tBytes[l + 1]] : tBytes[i] = "continuation"
<1> DEFINE n == Text!Lengths[tBytes[l + 1]]
           s == Text!Part(l, l + n)
<1>1. /\ l \in Nat /\ l < Len(tBytes) /\ l < x /\ x < l + n /\ l + n <= Len(tBytes)
      /\ Text!Valid(s) /\ Len(tBytes) \in Nat
  BY DEF Around
<1>2. n \in 1..4
  <2>1. tBytes[l + 1] \in Text!Bytes
    BY <1>1
  <2> QED BY <2>1, RoleLengths
<1>3. n \in 2..4
  BY <1>1, <1>2
<1>4. s \in Seq(Text!Bytes) /\ Len(s) = n /\ \A i \in 1..n : s[i] = tBytes[l + i]
  <2>1. l + n \in Nat /\ l <= l + n /\ (l + n) - l = n
    BY <1>1, <1>3
  <2> HIDE DEF n
  <2> QED BY <1>1, <2>1, PartIs
<1>5. tBytes[l + 1] # "continuation"
  BY <1>1, <1>3, RoleLengths
<1> HIDE DEF s
<1>6. Text!WholeAt(s, 1)
  <2>1. s[1] = tBytes[l + 1] /\ 1 \in 1..Len(s)
    BY <1>3, <1>4
  <2> QED BY <1>1, <1>4, <1>5, <2>1, ValidStarts
<1>7. \A j \in 2..n : s[j] = "continuation"
  <2>1. s[1] = tBytes[l + 1]
    BY <1>3, <1>4
  <2> QED BY <1>3, <1>6, <2>1, RoleLengths DEF Text!WholeAt
<1>8. ASSUME NEW i \in l + 2 .. l + n
      PROVE  tBytes[i] = "continuation"
  <2>1. i - l \in 2..n /\ i - l \in 1..n /\ l + (i - l) = i
    BY <1>1, <1>3
  <2> QED BY <1>4, <1>7, <2>1
<1> QED BY <1>3, <1>5, <1>8
\* From p on, the bytes before b are the beginning of one sequence and lack its end.
Lacks(p, b) ==
    /\ p \in Nat /\ p < b /\ tBytes[p + 1] # "continuation"
    /\ \A i \in p + 2 .. b : tBytes[i] = "continuation"
    /\ Text!Lengths[tBytes[p + 1]] > b - p

LEMMA CutIs ==
    ASSUME tBytes \in Seq(Text!Bytes), NEW a \in Nat, NEW b \in Nat, a <= b, b <= Len(tBytes)
    PROVE  /\ Text!Cut(a, b) \in a..b /\ Text!CompletePrefix(Text!Part(a, b)) = Text!Cut(a, b) - a
           /\ \/ Text!Cut(a, b) = b /\ \A p \in a .. b - 1 : ~Lacks(p, b)
              \/ Text!Cut(a, b) < b /\ Lacks(Text!Cut(a, b), b)
<1> DEFINE s == Text!Part(a, b)
           c == Text!CompletePrefix(s)
<1>1. s \in Seq(Text!Bytes) /\ Len(s) = b - a /\ \A i \in 1 .. b - a : s[i] = tBytes[a + i]
  BY PartIs
<1>2. Text!Cut(a, b) = a + c
  BY DEF Text!Cut
<1>3. (c = Len(s) /\ Finished(s)) \/ Unfinished(s, c)
  BY <1>1, PrefixIs
<1> HIDE DEF s, c
<1>4. c \in 0 .. b - a
  BY <1>1, <1>3 DEF Unfinished
<1>5. \A k \in 0 .. b - a - 1 : Lacks(a + k, b) <=> Unfinished(s, k)
  <2> SUFFICES ASSUME NEW k \in 0 .. b - a - 1
               PROVE  Lacks(a + k, b) <=> Unfinished(s, k)
    OBVIOUS
  <2>1. s[k + 1] = tBytes[a + k + 1]
    <3>1. k + 1 \in 1 .. b - a /\ a + (k + 1) = a + k + 1
      OBVIOUS
    <3>2. \A i \in 1 .. b - a : s[i] = tBytes[a + i]
      BY <1>1
    <3>3. s[k + 1] = tBytes[a + (k + 1)]
      BY <3>1, <3>2, Zenon
    <3> QED BY <3>1, <3>3, Zenon
  <2>2. (\A i \in a + k + 2 .. b : tBytes[i] = "continuation") <=> (\A i \in k + 2 .. b - a : s[i] = "continuation")
    <3>1. ASSUME \A i \in a + k + 2 .. b : tBytes[i] = "continuation", NEW i \in k + 2 .. b - a
          PROVE  s[i] = "continuation"
      <4>1. a + i \in a + k + 2 .. b /\ i \in 1 .. b - a
        OBVIOUS
      <4> QED BY <1>1, <3>1, <4>1
    <3>2. ASSUME \A i \in k + 2 .. b - a : s[i] = "continuation", NEW i \in a + k + 2 .. b
          PROVE  tBytes[i] = "continuation"
      <4>1. i - a \in k + 2 .. b - a /\ i - a \in 1 .. b - a /\ a + (i - a) = i
        OBVIOUS
      <4> QED BY <1>1, <3>2, <4>1
    <3> QED BY <3>1, <3>2
  <2>3. b - (a + k) = Len(s) - k /\ a + k < b /\ a + k \in Nat /\ k \in 0 .. Len(s) - 1
    BY <1>1
  <2> QED BY <1>1, <2>1, <2>2, <2>3 DEF Lacks, Unfinished
<1>6. CASE c = Len(s) /\ Finished(s)
  <2>1. ASSUME NEW p \in a .. b - 1
        PROVE  ~Lacks(p, b)
    <3>1. p - a \in 0 .. b - a - 1 /\ a + (p - a) = p /\ p - a \in 0 .. Len(s) - 1
      BY <1>1
    <3>2. Lacks(p, b) <=> Unfinished(s, p - a)
      BY <1>5, <3>1
    <3> QED BY <1>6, <3>1, <3>2 DEF Finished
  <2> QED BY <1>1, <1>2, <1>6, <2>1 DEF s, c
<1>7. CASE Unfinished(s, c)
  <2>1. c \in 0 .. b - a - 1
    BY <1>1, <1>7 DEF Unfinished
  <2>2. Lacks(a + c, b)
    BY <1>5, <1>7, <2>1
  <2> QED BY <1>2, <2>1, <2>2 DEF s, c
<1> QED BY <1>3, <1>6, <1>7

\* A page of a valid text that begins with a character is cut where one begins.
LEMMA CutIsBoundary ==
    ASSUME tBytes \in Seq(Text!Bytes), Text!Valid(tBytes),
           NEW a \in Nat, NEW b \in Nat, a <= b, b <= Len(tBytes), Text!OnBoundary(a)
    PROVE  Text!OnBoundary(Text!Cut(a, b))
<1>0. Text!Continuation = "continuation" /\ Len(tBytes) \in Nat
  BY RoleLengths
<1>1. CASE Lacks(Text!Cut(a, b), b)
  BY <1>0, <1>1 DEF Lacks, Text!OnBoundary
<1>2. CASE Text!Cut(a, b) = b /\ \A p \in a .. b - 1 : ~Lacks(p, b)
  <2> SUFFICES ASSUME b < Len(tBytes), tBytes[b + 1] = "continuation"
               PROVE  FALSE
    BY <1>0, <1>2 DEF Text!OnBoundary
  <2>1. b + 1 \in 1..Len(tBytes)
    BY <1>0
  <2>2. PICK first \in 1 .. b + 1 : Text!WholeAt(tBytes, first) /\ b + 1 < first + Text!Lengths[tBytes[first]]
    BY <2>1 DEF Text!Valid
  <2>3. first \in 1..b /\ tBytes[first] # "continuation" /\ Text!Lengths[tBytes[first]] \in 1..4
    <3>1. first \in 1..Len(tBytes)
      BY <1>0, <2>1, <2>2
    <3>2. tBytes[first] # "continuation"
      BY <1>0, <2>2 DEF Text!WholeAt
    <3>3. Text!Lengths[tBytes[first]] \in 1..4
      BY <3>1, RoleLengths
    <3>4. first # b + 1
      BY <3>2
    <3> QED BY <2>2, <3>2, <3>3, <3>4
  <2>4. \A i \in first + 1 .. b + 1 : tBytes[i] = "continuation"
    BY <1>0, <2>2, <2>3 DEF Text!WholeAt
  <2>5. CASE first <= a
    <3>1. a + 1 \in first + 1 .. b + 1 /\ a # Len(tBytes)
      BY <1>0, <2>3, <2>5
    <3> QED BY <1>0, <2>4, <3>1 DEF Text!OnBoundary
  <2>6. CASE first > a
    <3>1. first - 1 \in a .. b - 1 /\ (first - 1) + 1 = first /\ (first - 1) + 2 = first + 1 /\ first - 1 \in Nat
      BY <2>3, <2>6
    <3>2. Text!Lengths[tBytes[first]] > b - (first - 1)
      BY <2>2, <2>3
    <3>3. \A i \in (first - 1) + 2 .. b : tBytes[i] = "continuation"
      BY <2>3, <2>4
    <3>4. Lacks(first - 1, b)
      BY <2>3, <3>1, <3>2, <3>3 DEF Lacks
    <3> QED BY <1>2, <3>1, <3>4
  <2> QED BY <2>3, <2>5, <2>6
<1> QED BY <1>1, <1>2, CutIs

\* A page that does not begin in the middle of a sequence is not cut there, in any stream.
LEMMA CutIsOutside ==
    ASSUME tBytes \in Seq(Text!Bytes), NEW a \in Nat, NEW b \in Nat, a < b, b <= Len(tBytes), ~Inside(a)
    PROVE  ~Inside(Text!Cut(a, b))
<1> DEFINE x == Text!Cut(a, b)
<1>0. x \in a..b /\ x \in Nat /\ Len(tBytes) \in Nat
  BY CutIs
<1> SUFFICES ASSUME NEW l \in 0 .. x - 1, Around(l, x)
             PROVE  FALSE
  BY DEF Inside
<1>1. /\ Text!Lengths[tBytes[l + 1]] \in 2..4 /\ tBytes[l + 1] # "continuation"
      /\ \A i \in l + 2 .. l + Text!Lengths[tBytes[l + 1]] : tBytes[i] = "continuation"
      /\ l < x /\ x < l + Text!Lengths[tBytes[l + 1]]
  BY <1>0, AroundIs DEF Around
<1>2. CASE Lacks(x, b)
  <2> DEFINE n == Text!Lengths[tBytes[l + 1]]
  <2>0. n \in Nat /\ l \in Nat /\ l < x /\ x < l + n
    BY <1>0, <1>1
  <2> HIDE DEF n
  <2>1. x + 1 \in l + 2 .. l + n
    BY <1>0, <2>0
  <2> QED BY <1>1, <1>2, <2>1 DEF Lacks, n
<1>3. CASE x = b /\ \A p \in a .. b - 1 : ~Lacks(p, b)
  <2>1. CASE l < a
    <3>1. Around(l, a) /\ l \in 0 .. a - 1
      BY <1>0, <1>1, <1>3, <2>1 DEF Around
    <3> QED BY <3>1 DEF Inside
  <2>2. CASE l >= a
    <3>1. l \in a .. b - 1
      BY <1>0, <1>3, <2>2
    <3>2. \A i \in l + 2 .. b : tBytes[i] = "continuation"
      BY <1>1, <1>3
    <3>3. Lacks(l, b)
      BY <1>0, <1>1, <1>3, <3>1, <3>2 DEF Lacks
    <3> QED BY <1>3, <3>1, <3>3
  <2> QED BY <1>0, <2>1, <2>2
<1> QED BY <1>2, <1>3, CutIs

\* What a sequence lacks is read, if there is as much.
LEMMA MoreIs ==
    ASSUME tBytes \in Seq(Text!Bytes), NEW a \in Nat, NEW b \in Nat, a <= b, b <= Len(tBytes),
           NEW p \in a .. b - 1, Lacks(p, b), tTotal \in Nat
    PROVE  /\ Text!Lengths[tBytes[p + 1]] \in 2..4
           /\ Text!Read(b, Text!Missing(Text!Part(a, b), p - a)) =
                 Text!Least(p + Text!Lengths[tBytes[p + 1]], tTotal)
<1> DEFINE s == Text!Part(a, b)
           n == Text!Lengths[tBytes[p + 1]]
<1>1. s \in Seq(Text!Bytes) /\ Len(s) = b - a /\ \A i \in 1 .. b - a : s[i] = tBytes[a + i]
  BY PartIs
<1>2. n \in 1..4 /\ n > b - p
  <2>1. tBytes[p + 1] \in Text!Bytes
    OBVIOUS
  <2> QED BY <2>1, RoleLengths DEF Lacks
<1> HIDE DEF s
<1>3. s[(p - a) + 1] = tBytes[p + 1]
  <2>1. (p - a) + 1 \in 1 .. b - a /\ a + ((p - a) + 1) = p + 1
    OBVIOUS
  <2> QED BY <1>1, <2>1
<1>4. Text!Missing(s, p - a) = Text!Greatest(0, n - ((b - a) - (p - a)))
  BY <1>1, <1>3 DEF Text!Missing
<1> HIDE DEF n
<1>5. Text!Missing(s, p - a) = n - (b - p)
  BY <1>2, <1>4 DEF Text!Greatest
<1>6. b + (n - (b - p)) = p + n /\ n \in 2..4
  BY <1>2
<1> QED BY <1>5, <1>6 DEF Text!Read, s, n

\* With what it lacked, the sequence is not cut off again.
LEMMA CutGetsOn ==
    ASSUME tBytes \in Seq(Text!Bytes), NEW a \in Nat, NEW b \in Nat, a <= b, NEW p \in a .. b - 1, Lacks(p, b),
           p + Text!Lengths[tBytes[p + 1]] <= Len(tBytes), Text!Lengths[tBytes[p + 1]] \in 2..4
    PROVE  Text!Cut(a, p + Text!Lengths[tBytes[p + 1]]) > a
<1> DEFINE n == Text!Lengths[tBytes[p + 1]]
           m == p + n
<1>1. m \in Nat /\ a < m /\ p + 1 <= m /\ Len(tBytes) \in Nat
  <2>1. n \in 2..4 /\ p \in a .. b - 1 /\ Len(tBytes) \in Nat
    OBVIOUS
  <2> HIDE DEF n
  <2> QED BY <2>1
<1>2. Text!Lengths[tBytes[p + 1]] = m - p
  OBVIOUS
<1> HIDE DEF m
<1>3. /\ Text!Cut(a, m) \in a..m
      /\ Text!Cut(a, m) = m \/ Lacks(Text!Cut(a, m), m)
  <2>1. m <= Len(tBytes)
    BY DEF m
  <2> QED BY <1>1, <2>1, CutIs
<1>4. ~Lacks(a, m)
  <2>1. CASE p = a
    BY <1>1, <1>2, <2>1 DEF Lacks
  <2>2. CASE p > a
    <3>1. p + 1 \in a + 2 .. m
      BY <1>1, <2>2
    <3> QED BY <3>1 DEF Lacks
  <2> QED BY <2>1, <2>2
<1>5. Text!Cut(a, m) > a
  BY <1>1, <1>3, <1>4
<1> QED BY <1>5 DEF m
----------------------------------------------------------------------------
(* alignUtf8ReadOffset.                                                    *)

LEMMA AlignedAfterIs ==
    ASSUME tBytes \in Seq(Text!Bytes), tTotal = Len(tBytes), NEW x \in 0..Len(tBytes)
    PROVE  /\ \A l \in 0 .. x - 1 : Around(l, x) => l + Text!Lengths[tBytes[l + 1]] \in Text!AlignedAfter(x)
           /\ \A p \in Text!AlignedAfter(x) :
                 \E l \in 0 .. x - 1 : Around(l, x) /\ p = l + Text!Lengths[tBytes[l + 1]]
<1> DEFINE n(l) == Text!Lengths[tBytes[l + 1]]
           w == Text!Greatest(0, x - 3)
           L == {l \in w .. x - 1 : /\ n(l) > 1 /\ x < l + n(l) /\ l + n(l) <= Text!Read(w, 7)
                                    /\ Text!Valid(Text!Part(l, l + n(l)))}
<1>1. Text!AlignedAfter(x) = {l + n(l) : l \in L}
  BY DEF Text!AlignedAfter
<1>2. Len(tBytes) \in Nat /\ x \in Nat /\ w = IF x < 3 THEN 0 ELSE x - 3
  <2>1. Len(tBytes) \in Nat /\ x \in Nat /\ (0 < x - 3 <=> x > 3)
    OBVIOUS
  <2> QED BY <2>1 DEF Text!Greatest
<1>3. Text!Read(w, 7) = IF w + 7 < Len(tBytes) THEN w + 7 ELSE Len(tBytes)
  BY DEF Text!Read, Text!Least
<1> HIDE DEF w, n
<1>4. ASSUME NEW l \in 0 .. x - 1, Around(l, x)
      PROVE  l + n(l) \in Text!AlignedAfter(x)
  <2>1. n(l) \in 2..4 /\ x < l + n(l) /\ l + n(l) <= Len(tBytes)
    BY <1>2, <1>4, AroundIs DEF Around, n
  <2>2. l \in w .. x - 1 /\ l + n(l) <= w + 7
    BY <1>2, <2>1
  <2>3. Text!Valid(Text!Part(l, l + n(l)))
    BY <1>4 DEF Around, n
  <2>4. l \in L
    BY <1>3, <2>1, <2>2, <2>3
  <2> QED BY <1>1, <2>4
<1>5. ASSUME NEW p \in Text!AlignedAfter(x)
      PROVE  \E l \in 0 .. x - 1 : Around(l, x) /\ p = l + n(l)
  <2>1. PICK l \in L : p = l + n(l)
    BY <1>1
  <2>2. l \in 0 .. x - 1 /\ l \in 0 .. Len(tBytes) - 1 /\ l < x /\ x < l + n(l)
    BY <1>2
  <2>3. n(l) \in 1..4
    <3>1. tBytes[l + 1] \in Text!Bytes
      BY <1>2, <2>2
    <3> QED BY <3>1, RoleLengths DEF n
  <2>4. l + n(l) <= Len(tBytes)
    <3>1. l + n(l) <= Text!Read(w, 7)
      OBVIOUS
    <3> QED BY <1>2, <1>3, <2>2, <2>3, <3>1
  <2>5. Around(l, x)
    BY <2>2, <2>4 DEF Around, n
  <2> QED BY <2>1, <2>2, <2>5
<1> QED BY <1>4, <1>5 DEF n

\* The end of a valid sequence is in the middle of none.
LEMMA EndIsOutside ==
    ASSUME tBytes \in Seq(Text!Bytes), NEW x \in Nat, NEW k \in Nat, Around(k, x)
    PROVE  ~Inside(k + Text!Lengths[tBytes[k + 1]])
<1> DEFINE e == k + Text!Lengths[tBytes[k + 1]]
<1>1. /\ Text!Lengths[tBytes[k + 1]] \in 2..4 /\ tBytes[k + 1] # "continuation"
      /\ \A i \in k + 2 .. e : tBytes[i] = "continuation"
  BY AroundIs
<1>2. e \in Nat /\ k + 2 <= e /\ e = k + Text!Lengths[tBytes[k + 1]]
  BY <1>1
<1> HIDE DEF e
<1> SUFFICES ASSUME NEW l \in 0 .. e - 1, Around(l, e)
             PROVE  FALSE
  BY DEF Inside, e
<1>3. /\ Text!Lengths[tBytes[l + 1]] \in 2..4 /\ tBytes[l + 1] # "continuation"
      /\ \A i \in l + 2 .. l + Text!Lengths[tBytes[l + 1]] : tBytes[i] = "continuation"
      /\ e < l + Text!Lengths[tBytes[l + 1]]
  BY <1>2, AroundIs DEF Around
<1>4. CASE l < k
  <2> DEFINE n == Text!Lengths[tBytes[l + 1]]
  <2>1. n \in Nat /\ e < l + n
    BY <1>3
  <2> HIDE DEF n
  <2>2. k + 1 \in l + 2 .. l + n
    BY <1>2, <1>4, <2>1
  <2> QED BY <1>1, <1>3, <2>2 DEF n
<1>5. CASE l = k
  BY <1>2, <1>3, <1>5
<1>6. CASE l > k
  <2>1. l + 1 \in k + 2 .. e
    BY <1>2, <1>6
  <2> QED BY <1>1, <1>3, <2>1
<1> QED BY <1>4, <1>5, <1>6

\* A whole sequence is a valid text.
LEMMA WholeIsValid ==
    ASSUME tBytes \in Seq(Text!Bytes), NEW l \in 0 .. Len(tBytes) - 1, Text!WholeAt(tBytes, l + 1),
           Text!Lengths[tBytes[l + 1]] \in 2..4
    PROVE  Text!Valid(Text!Part(l, l + Text!Lengths[tBytes[l + 1]]))
<1> DEFINE n == Text!Lengths[tBytes[l + 1]]
           s == Text!Part(l, l + n)
<1>0. Text!Continuation = "continuation" /\ Len(tBytes) \in Nat
  BY RoleLengths
<1>1. n \in 2..4 /\ l + n \in Nat /\ l <= l + n /\ l + n <= Len(tBytes) /\ (l + n) - l = n /\ l \in Nat
  BY <1>0 DEF Text!WholeAt
<1>2. s \in Seq(Text!Bytes) /\ Len(s) = n /\ \A i \in 1..n : s[i] = tBytes[l + i]
  <2> HIDE DEF n
  <2> QED BY <1>1, PartIs
<1>3. tBytes[l + 1] # "continuation" /\ \A j \in l + 2 .. l + n : tBytes[j] = "continuation"
  BY <1>0, <1>1 DEF Text!WholeAt
<1>4. Text!Lengths[tBytes[l + 1]] = n
  OBVIOUS
<1> HIDE DEF s, n
<1>5. s[1] = tBytes[l + 1]
  <2>1. 1 \in 1..n
    BY <1>1
  <2> QED BY <1>2, <2>1
<1>6. ASSUME NEW j \in 2..n
      PROVE  s[j] = "continuation"
  <2>1. l + j \in l + 2 .. l + n /\ j \in 1..n
    BY <1>1
  <2> QED BY <1>2, <1>3, <2>1
<1>7. Text!WholeAt(s, 1)
  BY <1>0, <1>1, <1>2, <1>3, <1>4, <1>5, <1>6 DEF Text!WholeAt
<1>8. \A i \in DOMAIN s : 1 \in 1..i /\ i < 1 + Text!Lengths[s[1]]
  BY <1>1, <1>2, <1>4, <1>5
<1>9. Text!Valid(s)
  BY <1>7, <1>8 DEF Text!Valid
<1> QED BY <1>9 DEF s, n

LEMMA EndOfStream ==
    ASSUME tBytes \in Seq(Text!Bytes)
    PROVE  ~Inside(Len(tBytes)) /\ Text!OnBoundary(Len(tBytes))
<1>1. ASSUME NEW l \in 0 .. Len(tBytes) - 1, Around(l, Len(tBytes))
      PROVE  FALSE
  <2>1. Text!Lengths[tBytes[l + 1]] \in 2..4 /\ Len(tBytes) \in Nat
    BY <1>1, AroundIs
  <2> QED BY <1>1, <2>1 DEF Around
<1> QED BY <1>1 DEF Inside, Text!OnBoundary

\* A place in the middle of a valid sequence is moved to its end, any other stays, and in a valid text it is then
\* where a character begins.
LEMMA AlignIs ==
    ASSUME tBytes \in Seq(Text!Bytes), tTotal = Len(tBytes), NEW x \in 0..Len(tBytes)
    PROVE  /\ Text!AlignUtf8ReadOffset(x) \in 0..Len(tBytes) /\ ~Inside(Text!AlignUtf8ReadOffset(x))
           /\ ~Inside(x) => Text!AlignUtf8ReadOffset(x) = x
           /\ Text!AlignUtf8ReadOffset(x) # x => tBytes[x + 1] = "continuation"
           /\ Text!Valid(tBytes) => Text!OnBoundary(Text!AlignUtf8ReadOffset(x))
<1> DEFINE p == Text!AlignUtf8ReadOffset(x)
<1>0. Text!Continuation = "continuation" /\ Len(tBytes) \in Nat /\ x \in Nat
  BY RoleLengths
<1>1. CASE x = Len(tBytes)
  <2>1. p = x
    BY <1>1 DEF Text!AlignUtf8ReadOffset
  <2> QED BY <1>0, <1>1, <2>1, EndOfStream
<1>2. CASE x # Len(tBytes) /\ tBytes[x + 1] # "continuation"
  <2>1. p = x
    BY <1>0, <1>2 DEF Text!AlignUtf8ReadOffset
  <2>2. ASSUME NEW l \in 0 .. x - 1, Around(l, x)
        PROVE  FALSE
    <3>1. x < l + Text!Lengths[tBytes[l + 1]] /\ Text!Lengths[tBytes[l + 1]] \in 2..4
      BY <1>0, <2>2, AroundIs DEF Around
    <3>2. x + 1 \in l + 2 .. l + Text!Lengths[tBytes[l + 1]]
      BY <1>0, <3>1
    <3> QED BY <1>0, <1>2, <2>2, <3>2, AroundIs
  <2> QED BY <1>0, <1>2, <2>1, <2>2 DEF Inside, Text!OnBoundary
<1>3. CASE x # Len(tBytes) /\ tBytes[x + 1] = "continuation" /\ Text!AlignedAfter(x) = {}
  <2>1. p = x
    BY <1>0, <1>3 DEF Text!AlignUtf8ReadOffset
  <2>2. ~Inside(x)
    BY <1>0, <1>3, AlignedAfterIs DEF Inside
  <2>3. ASSUME Text!Valid(tBytes)
        PROVE  FALSE
    <3>1. PICK first \in 1 .. x + 1 : Text!WholeAt(tBytes, first) /\ x + 1 < first + Text!Lengths[tBytes[first]]
      <4>1. x + 1 \in DOMAIN tBytes
        BY <1>0, <1>3
      <4> QED BY <2>3, <4>1 DEF Text!Valid
    <3>2. first \in 1..x /\ tBytes[first] # "continuation" /\ Text!Lengths[tBytes[first]] \in 2..4
      <4>1. first \in 1..Len(tBytes)
        BY <1>0, <1>3
      <4>2. tBytes[first] \in Text!Bytes
        BY <4>1
      <4>3. Text!Lengths[tBytes[first]] \in 1..4
        BY <4>2, RoleLengths
      <4>4. tBytes[first] # "continuation"
        BY <1>0, <3>1 DEF Text!WholeAt
      <4>5. first # x + 1
        BY <1>3, <4>4
      <4> QED BY <1>0, <3>1, <4>3, <4>4, <4>5
    <3> DEFINE l == first - 1
    <3>3. l \in 0 .. x - 1 /\ l + 1 = first /\ l \in Nat /\ l \in 0 .. Len(tBytes) - 1
      BY <1>0, <3>2
    <3>4. l + Text!Lengths[tBytes[first]] <= Len(tBytes)
      BY <1>0, <3>1, <3>2 DEF Text!WholeAt
    <3>5. Text!Valid(Text!Part(l, l + Text!Lengths[tBytes[first]]))
      BY <3>1, <3>2, <3>3, WholeIsValid
    <3>6. x < l + Text!Lengths[tBytes[first]]
      BY <3>1, <3>2, <3>3
    <3>7. Around(l, x)
      <4> HIDE DEF l
      <4> QED BY <3>3, <3>4, <3>5, <3>6 DEF Around
    <3> QED BY <2>2, <3>3, <3>7 DEF Inside
  <2> QED BY <1>0, <1>3, <2>1, <2>2, <2>3
<1>4. CASE x # Len(tBytes) /\ tBytes[x + 1] = "continuation" /\ Text!AlignedAfter(x) # {}
  <2>1. p \in Text!AlignedAfter(x)
    BY <1>0, <1>4 DEF Text!AlignUtf8ReadOffset
  <2> HIDE DEF p
  <2>2. PICK k \in 0 .. x - 1 : Around(k, x) /\ p = k + Text!Lengths[tBytes[k + 1]]
    BY <1>0, <2>1, AlignedAfterIs
  <2>3. /\ Text!Lengths[tBytes[k + 1]] \in 2..4 /\ tBytes[k + 1] # "continuation" /\ p <= Len(tBytes)
        /\ k \in Nat /\ k < Len(tBytes)
    <3>1. Text!Lengths[tBytes[k + 1]] \in 2..4 /\ tBytes[k + 1] # "continuation"
      BY <1>0, <2>2, AroundIs
    <3>2. k \in 0 .. Len(tBytes) - 1 /\ p <= Len(tBytes)
      BY <2>2 DEF Around
    <3> QED BY <1>0, <3>1, <3>2
  <2>4. p \in 0..Len(tBytes) /\ ~Inside(p)
    BY <1>0, <2>2, <2>3, EndIsOutside
  <2>5. Inside(x)
    BY <2>2 DEF Inside
  <2>6. ASSUME Text!Valid(tBytes)
        PROVE  Text!OnBoundary(p)
    <3> SUFFICES ASSUME p # Len(tBytes)
                 PROVE  tBytes[p + 1] # "continuation"
      BY <1>0 DEF Text!OnBoundary
    <3>1. (k + 1) + Text!Lengths[tBytes[k + 1]] = p + 1 /\ p + 1 <= Len(tBytes) /\ k + 1 \in 1..Len(tBytes)
      BY <1>0, <2>2, <2>3
    <3> QED BY <2>3, <2>6, <3>1, ValidGoesOn
  <2> QED BY <1>4, <2>4, <2>5, <2>6 DEF p
<1> QED BY <1>1, <1>2, <1>3, <1>4
----------------------------------------------------------------------------
(* Where the readers end a page.                                           *)

LEMMA ReadIs ==
    ASSUME NEW a \in Nat, NEW n \in Nat, tTotal \in Nat, a <= tTotal
    PROVE  /\ Text!Read(a, n) \in a..tTotal /\ (n > 0 /\ a < tTotal => a < Text!Read(a, n))
           /\ Text!Least(a + n, tTotal) = Text!Read(a, n)
           /\ Text!Read(a, n) # tTotal => Text!Read(a, n) = a + n
BY DEF Text!Read, Text!Least

\* A page from `from` to `to` goes on unless it waits for the writer, and takes no character apart.
PageEnds(from, to) ==
    /\ to \in from..tTotal
    /\ tTerminal => to = tTotal \/ to > from
    /\ Text!Valid(tBytes) /\ Text!OnBoundary(from) => Text!OnBoundary(to)

LEMMA OutputPageEnds ==
    ASSUME tBytes \in Seq(Text!Bytes), tTotal = Len(tBytes), tLimit \in Nat \ {0}, NEW a \in 0..tTotal, ~Inside(a)
    PROVE  PageEnds(a, Text!ReadUtf8OutputPage(a)) /\ ~Inside(Text!ReadUtf8OutputPage(a))
<1> DEFINE e == Text!ReadUtf8OutputPage(a)
           to == Text!Read(a, tLimit)
           cut == Text!Cut(a, to)
           more == Text!Read(to, Text!Missing(Text!Part(a, to), Text!CompletePrefix(Text!Part(a, to))))
<1>0. tTotal \in Nat /\ a \in Nat /\ Len(tBytes) \in Nat /\ a <= tTotal /\ tLimit \in Nat /\ tLimit > 0
  OBVIOUS
<1>1. to \in a..tTotal /\ (a < tTotal => a < to)
  BY <1>0, ReadIs
<1>2. e = IF to = tTotal \/ cut = to THEN to ELSE IF more = tTotal THEN more ELSE Text!Cut(a, more)
  BY DEF Text!ReadUtf8OutputPage, Text!Cut
<1> HIDE DEF e, to
<1>3. ~Inside(tTotal) /\ Text!OnBoundary(tTotal)
  BY EndOfStream
<1>4. CASE e = tTotal
  BY <1>0, <1>3, <1>4 DEF PageEnds, e
<1>5. CASE to # tTotal /\ cut = to
  <2>1. e = cut /\ a < to /\ to \in Nat /\ to <= Len(tBytes)
    BY <1>0, <1>1, <1>2, <1>5
  <2>2. ~Inside(cut)
    BY <1>0, <2>1, CutIsOutside
  <2>3. Text!Valid(tBytes) /\ Text!OnBoundary(a) => Text!OnBoundary(cut)
    BY <1>0, <2>1, CutIsBoundary
  <2>4. cut \in a..tTotal /\ cut > a
    BY <1>0, <1>1, <1>5, <2>1
  <2> HIDE DEF cut
  <2> QED BY <2>1, <2>2, <2>3, <2>4 DEF PageEnds, e
<1>6. CASE to # tTotal /\ cut # to /\ e # tTotal
  <2>1. a < to /\ to \in Nat /\ a <= to /\ to <= Len(tBytes)
    BY <1>0, <1>1, <1>6
  <2>2. Lacks(cut, to) /\ cut \in a .. to - 1 /\ Text!CompletePrefix(Text!Part(a, to)) = cut - a
    BY <1>0, <1>6, <2>1, CutIs
  <2> DEFINE n == Text!Lengths[tBytes[cut + 1]]
  <2> HIDE DEF cut
  <2>3. n \in 2..4 /\ more = Text!Least(cut + n, tTotal)
    BY <1>0, <2>1, <2>2, MoreIs
  <2>4. cut + n > to
    BY <1>0, <2>1, <2>2, <2>3 DEF Lacks
  <2> HIDE DEF n, more
  <2>5. more # tTotal /\ e = Text!Cut(a, more)
    BY <1>2, <1>6
  <2>6. more = cut + n /\ more < Len(tBytes) /\ a < more /\ more \in Nat
    BY <1>0, <2>1, <2>2, <2>3, <2>4, <2>5 DEF Text!Least
  <2>7. ~Inside(Text!Cut(a, more))
    BY <1>0, <2>6, CutIsOutside
  <2>8. Text!Valid(tBytes) /\ Text!OnBoundary(a) => Text!OnBoundary(Text!Cut(a, more))
    BY <1>0, <2>6, CutIsBoundary
  <2>9. Text!Cut(a, more) \in a..more
    BY <1>0, <2>6, CutIs
  <2>10. Text!Cut(a, more) > a
    <3>1. cut + n <= Len(tBytes)
      BY <2>6
    <3>2. Text!Cut(a, cut + n) > a
      BY <1>0, <2>1, <2>2, <2>3, <3>1, CutGetsOn DEF n
    <3> QED BY <2>6, <3>2
  <2>11. Text!Cut(a, more) \in a..tTotal
    BY <1>0, <2>6, <2>9
  <2> QED BY <2>5, <2>7, <2>8, <2>10, <2>11 DEF PageEnds, e
<1> QED BY <1>1, <1>2, <1>4, <1>5, <1>6

LEMMA TextChunkEnds ==
    ASSUME tBytes \in Seq(Text!Bytes), tTotal = Len(tBytes), tLimit \in Nat \ {0}, NEW a \in 0..tTotal
    PROVE  PageEnds(a, Text!AlignUtf8TextChunk(a))
<1> DEFINE e == Text!AlignUtf8TextChunk(a)
           to == Text!Read(a, tLimit)
           cut == Text!Cut(a, to)
           more == Text!Read(to, Text!Missing(Text!Part(a, to), 0))
<1>0. tTotal \in Nat /\ a \in Nat /\ Len(tBytes) \in Nat /\ a <= tTotal /\ tLimit \in Nat /\ tLimit > 0
  OBVIOUS
<1>1. to \in a..tTotal /\ (a < tTotal => a < to)
  BY <1>0, ReadIs
<1>2. e = IF to = tTotal \/ cut = to THEN to
          ELSE IF Text!CompletePrefix(Text!Part(a, to)) > 0 THEN cut
          ELSE IF Text!CompletePrefix(Text!Part(a, more)) > 0 /\ Text!Valid(Text!Part(a, more)) THEN more ELSE to
  BY DEF Text!AlignUtf8TextChunk, Text!Cut
<1> HIDE DEF e, to
<1>3. CASE to = tTotal
  <2>1. e = tTotal
    BY <1>2, <1>3
  <2> QED BY <1>0, <2>1, EndOfStream DEF PageEnds, e
<1>4. CASE to # tTotal
  <2>1. a < to /\ to \in Nat /\ a <= to /\ to < Len(tBytes)
    BY <1>0, <1>1, <1>4
  <2>2. cut \in a..to /\ Text!CompletePrefix(Text!Part(a, to)) = cut - a /\ (cut = to \/ Lacks(cut, to))
    BY <1>0, <2>1, CutIs
  <2>3. Text!Valid(tBytes) /\ Text!OnBoundary(a) => Text!OnBoundary(cut)
    BY <1>0, <2>1, CutIsBoundary
  <2> HIDE DEF cut
  <2>4. CASE cut > a
    <3>1. e = cut
      BY <1>0, <1>2, <1>4, <2>1, <2>2, <2>4
    <3>2. cut \in a..tTotal
      BY <1>0, <2>1, <2>2
    <3> QED BY <2>3, <2>4, <3>1, <3>2 DEF PageEnds, e
  <2>5. CASE cut = a
    <3> DEFINE n == Text!Lengths[tBytes[a + 1]]
    <3>1. Lacks(a, to) /\ a \in a .. to - 1 /\ a - a = 0
      BY <1>0, <2>1, <2>2, <2>5
    <3>2. n \in 2..4 /\ more = Text!Least(a + n, tTotal)
      BY <1>0, <2>1, <3>1, MoreIs
    <3>3. a + n > to
      BY <1>0, <2>1, <3>1, <3>2 DEF Lacks
    <3>4. e = IF Text!CompletePrefix(Text!Part(a, more)) > 0 /\ Text!Valid(Text!Part(a, more)) THEN more ELSE to
      BY <1>0, <1>2, <1>4, <2>1, <2>2, <2>5
    <3> HIDE DEF more
    <3>5. more \in Nat /\ more > to /\ more <= tTotal
      BY <1>0, <2>1, <3>2, <3>3 DEF Text!Least
    <3>6. e \in a..tTotal /\ e > a
      BY <1>0, <2>1, <3>4, <3>5
    <3>7. ASSUME Text!Valid(tBytes)
          PROVE  Text!OnBoundary(e)
      <4>0. Text!Continuation = "continuation"
        BY RoleLengths
      <4>1. Text!WholeAt(tBytes, a + 1) /\ tBytes[a + 1] # "continuation"
        <5>1. a + 1 \in 1..Len(tBytes) /\ tBytes[a + 1] # "continuation"
          BY <1>0, <2>1, <3>1 DEF Lacks
        <5> QED BY <3>7, <5>1, ValidStarts
      <4>2. a + n <= Len(tBytes)
        <5> HIDE DEF n
        <5> QED BY <1>0, <3>2, <4>1 DEF Text!WholeAt, n
      <4>3. more = a + n
        BY <1>0, <3>2, <4>2 DEF Text!Least
      <4>4. Text!Valid(Text!Part(a, a + n))
        <5>1. a \in 0 .. Len(tBytes) - 1
          BY <1>0, <2>1
        <5> QED BY <3>2, <4>1, <5>1, WholeIsValid
      <4>5. Text!Cut(a, a + n) > a
        BY <1>0, <2>1, <3>1, <3>2, <4>2, CutGetsOn
      <4>6. Text!CompletePrefix(Text!Part(a, a + n)) > 0
        <5>1. a + n \in Nat /\ a <= a + n
          BY <1>0, <3>2
        <5> HIDE DEF n
        <5>2. Text!Cut(a, a + n) \in a .. a + n /\ Text!CompletePrefix(Text!Part(a, a + n)) = Text!Cut(a, a + n) - a
          BY <1>0, <4>2, <5>1, CutIs
        <5> QED BY <1>0, <4>5, <5>1, <5>2
      <4>7. e = a + n
        BY <3>4, <4>3, <4>4, <4>6
      <4>8. CASE a + n = Len(tBytes)
        BY <4>7, <4>8, EndOfStream
      <4>9. CASE a + n < Len(tBytes)
        <5>1. (a + 1) + n = (a + n) + 1 /\ (a + 1) + n <= Len(tBytes) /\ a + 1 \in 1..Len(tBytes)
          BY <1>0, <3>2, <4>9
        <5>2. tBytes[(a + 1) + n] # "continuation"
          BY <3>7, <4>1, <5>1, ValidGoesOn
        <5> QED BY <4>0, <4>7, <5>1, <5>2 DEF Text!OnBoundary
      <4> QED BY <1>0, <3>2, <4>2, <4>8, <4>9
    <3> QED BY <3>6, <3>7 DEF PageEnds, e
  <2> QED BY <1>0, <2>2, <2>4, <2>5
<1> QED BY <1>3, <1>4
LEMMA TaskPageEnds ==
    ASSUME tBytes \in Seq(Text!Bytes), tTotal \in 0..Len(tBytes), tLimit \in Nat \ {0}, NEW a \in 0..tTotal,
           tTerminal => tTotal = Len(tBytes)
    PROVE  PageEnds(a, Text!TaskRead(a))
<1> DEFINE e == Text!TaskRead(a)
           to == Text!Read(a, tLimit)
           cut == Text!Cut(a, to)
           lacking == Text!Read(to, Text!Missing(Text!Part(a, to), 0))
           more == IF to > a /\ cut = a THEN lacking ELSE to
<1>0. /\ tTotal \in Nat /\ a \in Nat /\ Len(tBytes) \in Nat /\ a <= tTotal /\ tTotal <= Len(tBytes)
      /\ tLimit \in Nat /\ tLimit > 0
  OBVIOUS
<1>1. to \in a..tTotal /\ (a < tTotal => a < to)
  BY <1>0, ReadIs
<1>2. e = IF ~tTerminal \/ more < tTotal THEN Text!Cut(a, more) ELSE more
  BY DEF Text!TaskRead
<1> HIDE DEF e, to
<1>3. to \in Nat /\ a <= to /\ to <= Len(tBytes)
  BY <1>0, <1>1
<1>4. cut \in a..to /\ Text!CompletePrefix(Text!Part(a, to)) = cut - a /\ (cut = to \/ Lacks(cut, to))
  BY <1>0, <1>3, CutIs
<1> HIDE DEF cut
\* As far as it reads, and that its last sequence is not cut off if it has read on for it.
<1>5. more \in to..tTotal /\ (a < tTotal => more = tTotal \/ Text!Cut(a, more) > a)
  <2>1. CASE ~(to > a /\ cut = a)
    <3>1. more = to /\ (a < tTotal => cut > a)
      BY <1>0, <1>1, <1>4, <2>1
    <3> QED BY <1>0, <1>1, <3>1 DEF cut
  <2>2. CASE to > a /\ cut = a
    <3> DEFINE n == Text!Lengths[tBytes[a + 1]]
    <3>1. Lacks(a, to) /\ a \in a .. to - 1 /\ a - a = 0
      BY <1>0, <1>3, <1>4, <2>2
    <3>2. n \in 2..4 /\ lacking = Text!Least(a + n, tTotal)
      BY <1>0, <1>3, <3>1, MoreIs
    <3>3. a + n > to
      BY <1>0, <1>3, <3>1, <3>2 DEF Lacks
    <3> HIDE DEF lacking
    <3>4. more = lacking /\ more \in to..tTotal
      BY <1>0, <1>1, <1>3, <2>2, <3>2, <3>3 DEF Text!Least
    <3>5. ASSUME more # tTotal
          PROVE  Text!Cut(a, more) > a
      <4>1. more = a + n /\ a + n <= Len(tBytes)
        BY <1>0, <1>1, <3>2, <3>4, <3>5 DEF Text!Least
      <4>2. Text!Cut(a, a + n) > a
        BY <1>0, <1>3, <3>1, <3>2, <4>1, CutGetsOn
      <4> QED BY <4>1, <4>2
    <3> QED BY <3>4, <3>5
  <2> QED BY <2>1, <2>2
<1> HIDE DEF more
<1>6. more \in Nat /\ a <= more /\ more <= Len(tBytes) /\ more <= tTotal
  BY <1>0, <1>1, <1>5
<1>7. Text!Cut(a, more) \in a..more
  BY <1>0, <1>6, CutIs
<1>8. Text!Valid(tBytes) /\ Text!OnBoundary(a) => Text!OnBoundary(Text!Cut(a, more))
  BY <1>0, <1>6, CutIsBoundary
<1>9. CASE ~tTerminal \/ more < tTotal
  <2>1. e = Text!Cut(a, more)
    BY <1>2, <1>9
  <2>2. e \in a..tTotal
    BY <1>0, <1>6, <1>7, <2>1
  <2>3. tTerminal => e > a
    BY <1>0, <1>5, <1>6, <1>9, <2>1
  <2> QED BY <1>8, <2>1, <2>2, <2>3 DEF PageEnds, e
<1>10. CASE tTerminal /\ ~(more < tTotal)
  <2>1. e = tTotal /\ tTotal = Len(tBytes)
    BY <1>0, <1>2, <1>6, <1>10
  <2> QED BY <1>0, <2>1, EndOfStream DEF PageEnds, e
<1> QED BY <1>9, <1>10
----------------------------------------------------------------------------
(* The pages of one reader.                                                *)

TextTypes ==
    /\ tBytes \in Seq(Text!Bytes) /\ tReader \in {"cursor", "offset", "ui", "task"} /\ tLimit \in Nat \ {0}
    /\ tTotal \in 0..Len(tBytes) /\ tStartOffset \in 0..tTotal /\ tTerminal \in BOOLEAN /\ tAsked \in 0..tTotal
    /\ tPage.at \in Nat

\* Only a task is read while it writes, and a reader is through when the writer is.
TextPhases ==
    /\ tReader # "task" => tTotal = Len(tBytes) /\ tStartOffset = 0 /\ tTerminal
    /\ tTerminal => tTotal = Len(tBytes)
    /\ tPage.last => tTerminal

\* Where the next page is asked from: a cursor is in the middle of no valid sequence of any stream, and the
\* others begin with a character as long as nothing was dropped.
TextPlace ==
    /\ tReader = "cursor" => ~Inside(tAsked)
    /\ Text!Valid(tBytes) /\ tStartOffset = 0 /\ tReader \in {"ui", "task"} => Text!OnBoundary(tAsked)

TextInv == TextTypes /\ TextPhases /\ TextPlace /\ PagesAreTheText

LEMMA TextInit ==
    ASSUME Text!Init
    PROVE  TextInv
<1> USE DEF Text!Init
<1>1. tBytes \in Seq(Text!Bytes) /\ Len(tBytes) \in Nat
  <2>1. PICK n \in 0..TextBytes : tBytes \in [1..n -> Text!Bytes]
    BY DEF Text!Streams
  <2> QED BY <2>1, TransfersAssumption
<1>2. tLimit \in Nat \ {0} /\ tTotal \in 0..Len(tBytes) /\ tTotal \in Nat
  BY <1>1, TransfersAssumption
<1>3. TextTypes
  BY <1>1, <1>2 DEF TextTypes, Text!Readers, Text!NoPage
<1>4. TextPhases
  BY <1>1 DEF TextPhases, Text!NoPage
<1>5. ~Inside(0)
  BY DEF Inside
<1>6. ASSUME Text!Valid(tBytes)
      PROVE  Text!OnBoundary(0)
  <2>1. CASE Len(tBytes) = 0
    BY <2>1 DEF Text!OnBoundary
  <2>2. CASE Len(tBytes) # 0
    <3>1. 1 \in DOMAIN tBytes
      BY <1>1, <2>2
    <3>2. PICK first \in 1..1 : Text!WholeAt(tBytes, first)
      BY <1>6, <3>1 DEF Text!Valid
    <3> QED BY <3>2 DEF Text!WholeAt, Text!OnBoundary
  <2> QED BY <2>1, <2>2
<1>7. tReader \in {"cursor", "ui", "task"} => tAsked = 0
  OBVIOUS
<1>8. TextPlace
  BY <1>5, <1>6, <1>7 DEF TextPlace
<1>9. PagesAreTheText
  BY DEF PagesAreTheText, Text!PagesJoin, Text!CharactersWhole
<1> QED BY <1>3, <1>4, <1>8, <1>9 DEF TextInv

\* A page: where it begins and ends.
LEMMA PageIs ==
    ASSUME TextInv
    PROVE  /\ Text!At \in 0..tTotal /\ Text!To \in 0..tTotal /\ PageEnds(Text!At, Text!To)
           /\ Text!At # tAsked => \/ tReader = "task" /\ Text!At <= tStartOffset
                                  \/ tReader = "offset" /\ tBytes[tAsked + 1] = "continuation"
           /\ Text!Valid(tBytes) /\ tStartOffset = 0 => Text!OnBoundary(Text!At)
           /\ tReader = "cursor" => ~Inside(Text!To)
<1>0. TextTypes /\ TextPhases /\ TextPlace
  BY DEF TextInv
<1>1. CASE tReader \in {"cursor", "offset"}
  <2>1. Text!At = Text!AlignUtf8ReadOffset(tAsked) /\ Text!To = Text!ReadUtf8OutputPage(Text!At)
    BY <1>1 DEF Text!At, Text!To
  <2>2. /\ tBytes \in Seq(Text!Bytes) /\ tTotal = Len(tBytes) /\ tAsked \in 0..Len(tBytes) /\ tLimit \in Nat \ {0}
    BY <1>0, <1>1 DEF TextTypes, TextPhases
  <2>3. /\ Text!At \in 0..tTotal /\ ~Inside(Text!At) /\ (~Inside(tAsked) => Text!At = tAsked)
        /\ Text!At # tAsked => tBytes[tAsked + 1] = "continuation"
        /\ Text!Valid(tBytes) => Text!OnBoundary(Text!At)
    BY <2>1, <2>2, AlignIs
  <2>4. PageEnds(Text!At, Text!To) /\ ~Inside(Text!To)
    BY <2>1, <2>2, <2>3, OutputPageEnds
  <2>5. Text!To \in 0..tTotal
    BY <2>2, <2>3, <2>4 DEF PageEnds
  <2> QED BY <1>0, <1>1, <2>3, <2>4, <2>5 DEF TextPlace
<1>2. CASE tReader = "ui"
  <2>1. Text!At = tAsked /\ Text!To = Text!AlignUtf8TextChunk(Text!At)
    BY <1>2 DEF Text!At, Text!To
  <2>2. /\ tBytes \in Seq(Text!Bytes) /\ tTotal = Len(tBytes) /\ tAsked \in 0..tTotal /\ tLimit \in Nat \ {0}
    BY <1>0, <1>2 DEF TextTypes, TextPhases
  <2>3. PageEnds(Text!At, Text!To)
    BY <2>1, <2>2, TextChunkEnds
  <2>4. Text!To \in 0..tTotal
    BY <2>1, <2>2, <2>3 DEF PageEnds
  <2> QED BY <1>0, <1>2, <2>1, <2>2, <2>3, <2>4 DEF TextPlace
<1>3. CASE tReader = "task"
  <2>1. Text!At = Text!Greatest(tAsked, tStartOffset) /\ Text!To = Text!TaskRead(Text!At)
    BY <1>3 DEF Text!At, Text!To
  <2>2. /\ tBytes \in Seq(Text!Bytes) /\ tTotal \in 0..Len(tBytes) /\ tAsked \in 0..tTotal /\ tLimit \in Nat \ {0}
        /\ tStartOffset \in 0..tTotal /\ (tTerminal => tTotal = Len(tBytes))
    BY <1>0 DEF TextTypes, TextPhases
  <2>3. Text!At \in 0..tTotal /\ (Text!At # tAsked => Text!At <= tStartOffset) /\ (tStartOffset = 0 => Text!At = tAsked)
    BY <2>1, <2>2 DEF Text!Greatest
  <2>4. PageEnds(Text!At, Text!To)
    BY <2>1, <2>2, <2>3, TaskPageEnds
  <2>5. Text!To \in 0..tTotal
    BY <2>2, <2>3, <2>4 DEF PageEnds
  <2> QED BY <1>0, <1>3, <2>3, <2>4, <2>5 DEF TextPlace
<1> QED BY <1>0, <1>1, <1>2, <1>3 DEF TextTypes

LEMMA NextPageKeeps ==
    ASSUME TextInv, Text!NextPage
    PROVE  TextInv'
<1> DEFINE from == Text!At
           to == Text!To
<1>0. TextTypes /\ TextPhases /\ TextPlace
  BY DEF TextInv
<1>1. /\ tPage' = [asked |-> tAsked, at |-> from, to |-> to, ended |-> tTerminal, last |-> tTerminal /\ to >= tTotal]
      /\ tAsked' = to /\ UNCHANGED <<tBytes, tReader, tLimit, tTotal, tStartOffset, tTerminal>>
  BY DEF Text!NextPage
<1>2. /\ from \in 0..tTotal /\ to \in 0..tTotal /\ to >= from
      /\ tTerminal => to = tTotal \/ to > from
      /\ Text!Valid(tBytes) /\ Text!OnBoundary(from) => Text!OnBoundary(to)
      /\ from # tAsked => \/ tReader = "task" /\ from <= tStartOffset
                          \/ tReader = "offset" /\ tBytes[tAsked + 1] = "continuation"
      /\ Text!Valid(tBytes) /\ tStartOffset = 0 => Text!OnBoundary(from)
      /\ tReader = "cursor" => ~Inside(to)
  BY <1>0, PageIs DEF PageEnds, TextTypes
<1> HIDE DEF from, to
<1>3. tTotal \in Nat
  BY <1>0 DEF TextTypes
<1>4. TextTypes'
  BY <1>0, <1>1, <1>2, <1>3 DEF TextTypes
<1>5. TextPhases'
  BY <1>0, <1>1 DEF TextPhases
<1>6. Text!Valid(tBytes)' => Text!Valid(tBytes)
  BY <1>1 DEF Text!Valid, Text!WholeAt
<1>7. ASSUME Inside(tAsked)'
      PROVE  Inside(to)
  <2>1. PICK l \in 0 .. tAsked' - 1 : Around(l, tAsked)'
    BY <1>7 DEF Inside
  <2>2. l \in 0 .. to - 1 /\ Around(l, to)
    BY <1>1, <2>1 DEF Around, Text!Part
  <2> QED BY <2>2 DEF Inside
<1>8. Text!OnBoundary(to) => Text!OnBoundary(tAsked)'
  BY <1>1 DEF Text!OnBoundary
<1>9. TextPlace'
  BY <1>0, <1>1, <1>2, <1>6, <1>7, <1>8 DEF TextPlace
<1>10. /\ tPage'.asked = tAsked /\ tPage'.at = from /\ tPage'.to = to /\ tPage'.ended = tTerminal
      /\ tPage'.last = (tTerminal /\ to >= tTotal)
  BY <1>1
<1>11. Text!PagesJoin'
  <2>1. tPage'.at # tPage'.asked => \/ tReader' = "task" /\ tPage'.at <= tStartOffset'
                                    \/ tReader' = "offset" /\ tBytes'[tPage'.asked + 1] = "continuation"
    BY <1>1, <1>2, <1>10
  <2>2. to >= tTotal <=> to = tTotal
    BY <1>2, <1>3
  <2>3. (tPage'.ended <=> tTerminal) /\ (tPage'.last <=> tTerminal /\ to = tTotal)
    BY <1>10, <2>2, Zenon
  <2>4. tPage'.ended /\ ~tPage'.last => tPage'.to > tPage'.at
    BY <1>2, <1>10, <2>3
  <2>5. tPage'.last => tPage'.to = tTotal'
    BY <1>1, <1>10, <2>3
  <2> QED BY <2>1, <2>4, <2>5, RoleLengths DEF Text!PagesJoin
<1>12. Text!CharactersWhole'
  <2>1. (Text!OnBoundary(from) <=> Text!OnBoundary(tPage.at)') /\ (Text!OnBoundary(to) <=> Text!OnBoundary(tPage.to)')
    BY <1>1, <1>10 DEF Text!OnBoundary
  <2> QED BY <1>1, <1>2, <1>6, <2>1 DEF Text!CharactersWhole
<1> QED BY <1>4, <1>5, <1>9, <1>11, <1>12 DEF TextInv, PagesAreTheText

\* The writer only adds, and the log only drops from its beginning.
LEMMA WriterKeeps ==
    ASSUME TextInv, Text!Writes \/ Text!Ends
    PROVE  TextInv'
<1>0. TextTypes /\ TextPhases /\ TextPlace /\ Text!PagesJoin /\ Text!CharactersWhole
  BY DEF TextInv, PagesAreTheText
<1>1. /\ tReader = "task" /\ ~tTerminal /\ UNCHANGED <<tBytes, tReader, tLimit, tAsked, tPage>>
      /\ tTotal' \in tTotal..Len(tBytes) /\ tStartOffset' \in tStartOffset..tTotal' /\ tTerminal' \in BOOLEAN
      /\ tTerminal' => tTotal' = Len(tBytes)
  <2>1. tTotal \in Nat /\ tStartOffset \in 0..tTotal /\ tTotal <= Len(tBytes) /\ Len(tBytes) \in Nat
    BY <1>0 DEF TextTypes
  <2>2. CASE Text!Writes
    <3>1. PICK n \in tTotal + 1 .. Len(tBytes) : tTotal' = n
      BY <2>2 DEF Text!Writes
    <3>2. tTotal' - LogLimit \in Int /\ tTotal' - LogLimit <= tTotal'
      BY <2>1, <3>1, TransfersAssumption
    <3>3. tStartOffset' \in tStartOffset..tTotal'
      BY <2>1, <2>2, <3>1, <3>2 DEF Text!Writes, Text!Greatest
    <3>4. tTotal' \in tTotal..Len(tBytes)
      BY <2>1, <3>1
    <3>5. tReader = "task" /\ ~tTerminal /\ UNCHANGED <<tBytes, tReader, tLimit, tTerminal, tAsked, tPage>>
      BY <2>2 DEF Text!Writes
    <3>6. tTerminal' \in BOOLEAN /\ ~tTerminal'
      BY <1>0, <3>5 DEF TextTypes
    <3> QED BY <3>3, <3>4, <3>5, <3>6
  <2>3. CASE Text!Ends
    BY <2>1, <2>3 DEF Text!Ends
  <2> QED BY <2>2, <2>3
<1>2. tStartOffset' = 0 => tStartOffset = 0
  BY <1>0, <1>1 DEF TextTypes
<1>3. tStartOffset \in Nat /\ tTotal \in Nat /\ Len(tBytes) \in Nat
  BY <1>0 DEF TextTypes
<1>4. TextTypes'
  BY <1>0, <1>1, <1>3 DEF TextTypes
<1>5. ~tPage.last
  BY <1>0, <1>1 DEF TextPhases
<1>6. TextPhases'
  BY <1>0, <1>1, <1>5 DEF TextPhases
<1>7. Text!Valid(tBytes)' => Text!Valid(tBytes)
  BY <1>1 DEF Text!Valid, Text!WholeAt
<1>8. TextPlace'
  BY <1>0, <1>1, <1>2, <1>7 DEF TextPlace, Text!OnBoundary
<1>9. Text!PagesJoin'
  <2> SUFFICES ASSUME tPage # Text!NoPage
               PROVE  /\ tPage.at # tPage.asked => tReader = "task" /\ tPage.at <= tStartOffset'
                      /\ tPage.ended => tPage.last \/ tPage.to > tPage.at
    BY <1>1, <1>5 DEF Text!PagesJoin, Text!NoPage
  <2>1. tPage.at # tPage.asked => tPage.at <= tStartOffset
    BY <1>0, <1>1 DEF Text!PagesJoin
  <2>2. tPage.at # tPage.asked => tPage.at <= tStartOffset'
    <3>1. tPage.at \in Nat
      BY <1>0 DEF TextTypes
    <3> QED BY <1>1, <1>3, <2>1, <3>1
  <2>3. tPage.ended => tPage.last \/ tPage.to > tPage.at
    BY <1>0 DEF Text!PagesJoin
  <2> QED BY <1>1, <2>2, <2>3
<1>10. Text!CharactersWhole'
  BY <1>0, <1>1, <1>2, <1>7 DEF Text!CharactersWhole, Text!OnBoundary, Text!NoPage
<1> QED BY <1>4, <1>6, <1>8, <1>9, <1>10 DEF TextInv, PagesAreTheText

LEMMA TextStutters ==
    ASSUME TextInv, UNCHANGED textVars
    PROVE  TextInv'
<1> USE DEF textVars
<1>0. TextTypes /\ TextPhases /\ TextPlace /\ Text!PagesJoin /\ Text!CharactersWhole
  BY DEF TextInv, PagesAreTheText
<1>1. TextTypes' /\ TextPhases'
  BY <1>0 DEF TextTypes, TextPhases
<1>2. Text!Valid(tBytes)' => Text!Valid(tBytes)
  BY DEF Text!Valid, Text!WholeAt
<1>3. TextPlace'
  BY <1>0, <1>2 DEF TextPlace, Inside, Around, Text!Part, Text!OnBoundary
<1>4. Text!PagesJoin'
  BY <1>0 DEF Text!PagesJoin, Text!NoPage
<1>5. Text!CharactersWhole'
  BY <1>0, <1>2 DEF Text!CharactersWhole, Text!OnBoundary, Text!NoPage
<1> QED BY <1>1, <1>3, <1>4, <1>5 DEF TextInv, PagesAreTheText

\* Whatever the stream holds, however long it is, whatever page size is asked for and however the pages interleave
\* with a task that writes and a log that drops: the pages of a reader join, none stands still, the last reaches the
\* end, and no character of a valid text is taken apart (readUtf8OutputPage, alignUtf8TextChunk, RollingByteLog.read).
THEOREM TextIsPaged == AllSpec => []PagesAreTheText
<1>1. AllInit => TextInv
  BY TextInit DEF AllInit
<1>2. TextInv /\ [AllNext]_allVars => TextInv'
  BY StepOfParts, NextPageKeeps, WriterKeeps, TextStutters DEF Text!Next
<1>3. TextInv => PagesAreTheText
  BY DEF TextInv
<1> QED BY <1>1, <1>2, <1>3, PTL DEF AllSpec

----------------------------------------------------------------------------
(* The sync of a directory.                                                *)

\* Induction over the naturals, for a set.
LEMMA NatSteps ==
    ASSUME NEW S, 0 \in S, \A n \in Nat : n \in S => n + 1 \in S
    PROVE  Nat \subseteq S
<1> DEFINE T == Nat \ S
<1> SUFFICES ASSUME T # {}
             PROVE  FALSE
  OBVIOUS
<1> DEFINE R == {s \in Nat \X Nat : s[1] < s[2]}
<1>1. IsWellFoundedOn(R, Nat)
  BY NatLessThanWellFounded, Zenon DEF OpToRel
<1>2. PICK x \in T : \A y \in T : ~(<<y, x>> \in R)
  <2> HIDE DEF R
  <2> QED BY <1>1, WFMin
<1>3. \A y \in T : ~(y < x)
  BY <1>2
<1> QED BY <1>3

----------------------------------------------------------------------------
(* The two tables of the exclusion automaton.                              *)

NextTokens(pattern, n, tokens) ==
    IF pattern[n] = "*" /\ n > 1 /\ pattern[n - 1] = "*"
    THEN [tokens EXCEPT ![Len(tokens)] = "**"]
    ELSE Append(tokens, pattern[n])

TokenTable(pattern, last, t) ==
    t = [n \in 0..last |-> IF n = 0 THEN <<>> ELSE NextTokens(pattern, n, t[n - 1])]

\* A table of one more row is made of one of the rows before.
LEMMA TokenTableExists ==
    ASSUME NEW pattern, NEW last \in Nat
    PROVE  \E t : TokenTable(pattern, last, t)
<1> DEFINE S == {m \in Nat : \E t : TokenTable(pattern, m, t)}
<1>1. 0 \in S
  <2>1. TokenTable(pattern, 0, [n \in 0..0 |-> <<>>])
    BY DEF TokenTable
  <2> QED BY <2>1
<1>2. ASSUME NEW m \in Nat, m \in S
      PROVE  m + 1 \in S
  <2>1. PICK t : TokenTable(pattern, m, t)
    BY <1>2
  <2> DEFINE u == [n \in 0..m + 1 |-> IF n = m + 1 THEN NextTokens(pattern, n, t[m]) ELSE t[n]]
  <2>2. \A n \in 0..m + 1 : u[n] = IF n = 0 THEN <<>> ELSE NextTokens(pattern, n, u[n - 1])
    <3> SUFFICES ASSUME NEW n \in 0..m + 1
                 PROVE  u[n] = IF n = 0 THEN <<>> ELSE NextTokens(pattern, n, u[n - 1])
      OBVIOUS
    <3>1. CASE n = m + 1
      <4>1. u[n] = NextTokens(pattern, n, t[m]) /\ u[n - 1] = t[m] /\ n # 0
        BY <3>1
      <4> QED BY <4>1
    <3>2. CASE n # m + 1
      <4>1. n \in 0..m /\ u[n] = t[n] /\ (n # 0 => u[n - 1] = t[n - 1])
        BY <3>2
      <4>2. t[n] = IF n = 0 THEN <<>> ELSE NextTokens(pattern, n, t[n - 1])
        BY <2>1, <4>1, Zenon DEF TokenTable
      <4> QED BY <4>1, <4>2
    <3> QED BY <3>1, <3>2
  <2>3. u = [n \in 0..m + 1 |-> u[n]]
    OBVIOUS
  <2> HIDE DEF u
  <2>4. TokenTable(pattern, m + 1, u)
    BY <2>2, <2>3 DEF TokenTable
  <2> QED BY <2>4
<1>3. Nat \subseteq S
  <2> HIDE DEF S
  <2> QED BY <1>1, <1>2, NatSteps
<1> QED BY <1>3

LEMMA TokensAre ==
    ASSUME NEW pattern, Len(pattern) \in Nat
    PROVE  \E t : TokenTable(pattern, Len(pattern), t) /\ Sync!Tokens(pattern) = t[Len(pattern)]
<1> DEFINE t == CHOOSE t : TokenTable(pattern, Len(pattern), t)
<1>1. TokenTable(pattern, Len(pattern), t)
  BY TokenTableExists
<1>2. Sync!Tokens(pattern) = t[Len(pattern)]
  BY Zenon DEF Sync!Tokens, TokenTable, NextTokens
<1> QED BY <1>1, <1>2

StateTable(tokens, path, last, s) ==
    s = [n \in 0..last |-> IF n = 0 THEN Sync!ExpandGlobEpsilon({0}, tokens)
                           ELSE Sync!Step(s[n - 1], path[n], tokens)]

LEMMA StateTableExists ==
    ASSUME NEW tokens, NEW path, NEW last \in Nat
    PROVE  \E s : StateTable(tokens, path, last, s)
<1> DEFINE S == {m \in Nat : \E s : StateTable(tokens, path, m, s)}
<1>1. 0 \in S
  <2>1. StateTable(tokens, path, 0, [n \in 0..0 |-> Sync!ExpandGlobEpsilon({0}, tokens)])
    BY DEF StateTable
  <2> QED BY <2>1
<1>2. ASSUME NEW m \in Nat, m \in S
      PROVE  m + 1 \in S
  <2>1. PICK t : StateTable(tokens, path, m, t)
    BY <1>2
  <2> DEFINE first == Sync!ExpandGlobEpsilon({0}, tokens)
             next(n, states) == Sync!Step(states, path[n], tokens)
             u == [n \in 0..m + 1 |-> IF n = m + 1 THEN next(n, t[m]) ELSE t[n]]
  <2>0. \A n \in 0..m : t[n] = IF n = 0 THEN first ELSE next(n, t[n - 1])
    BY <2>1, Zenon DEF StateTable
  <2> HIDE DEF first, next
  <2>2. \A n \in 0..m + 1 : u[n] = IF n = 0 THEN first ELSE next(n, u[n - 1])
    <3> SUFFICES ASSUME NEW n \in 0..m + 1
                 PROVE  u[n] = IF n = 0 THEN first ELSE next(n, u[n - 1])
      OBVIOUS
    <3>1. CASE n = m + 1
      <4>1. u[n] = next(n, t[m]) /\ u[n - 1] = t[m] /\ n # 0
        BY <3>1
      <4> QED BY <4>1
    <3>2. CASE n # m + 1
      <4>1. n \in 0..m /\ u[n] = t[n] /\ (n # 0 => u[n - 1] = t[n - 1])
        BY <3>2
      <4> QED BY <2>0, <4>1
    <3> QED BY <3>1, <3>2
  <2>3. u = [n \in 0..m + 1 |-> u[n]]
    OBVIOUS
  <2> HIDE DEF u
  <2>4. StateTable(tokens, path, m + 1, u)
    BY <2>2, <2>3 DEF StateTable, first, next
  <2> QED BY <2>4
<1>3. Nat \subseteq S
  <2> HIDE DEF S
  <2> QED BY <1>1, <1>2, NatSteps
<1> QED BY <1>3

LEMMA MatchesIs ==
    ASSUME NEW tokens, NEW path, Len(path) \in Nat
    PROVE  \E s : /\ StateTable(tokens, path, Len(path), s)
                  /\ Sync!GlobMatches(tokens, path) <=>
                       \E n \in 0..Len(path) : Len(tokens) \in s[n] /\ (n < Len(path) => path[n + 1] = "/")
<1> DEFINE s == CHOOSE s : StateTable(tokens, path, Len(path), s)
<1>1. StateTable(tokens, path, Len(path), s)
  BY StateTableExists
<1>2. Sync!GlobMatches(tokens, path) <=>
        \E n \in 0..Len(path) : Len(tokens) \in s[n] /\ (n < Len(path) => path[n + 1] = "/")
  BY Zenon DEF Sync!GlobMatches, StateTable
<1> QED BY <1>1, <1>2
----------------------------------------------------------------------------
(* Ways to cut a path along a sequence of characters and wildcards.        *)

\* What one character or wildcard takes of the path: everything after m up to n.
Spans(c, path, m, n) ==
    /\ m <= n
    /\ \/ c = "**"
       \/ c = "*" /\ \A x \in m + 1 .. n : path[x] # "/"
       \/ c = "?" /\ n = m + 1 /\ path[n] # "/"
       \/ c \notin {"**", "*", "?"} /\ n = m + 1 /\ path[n] = c

\* The first j of w take the first n characters of the path.
Cuts(w, path, j, n) ==
    \E cut \in [0..j -> 0..Len(path)] :
       /\ cut[0] = 0 /\ cut[j] = n
       /\ \A k \in 1..j : Spans(w[k], path, cut[k - 1], cut[k])

LEMMA CutsNone ==
    ASSUME NEW w, NEW path, Len(path) \in Nat, NEW n \in 0..Len(path)
    PROVE  Cuts(w, path, 0, n) <=> n = 0
<1>1. ASSUME n = 0 PROVE Cuts(w, path, 0, n)
  <2> DEFINE cut == [k \in 0..0 |-> 0]
  <2>1. cut \in [0..0 -> 0..Len(path)] /\ cut[0] = 0
    OBVIOUS
  <2>2. \A k \in 1..0 : Spans(w[k], path, cut[k - 1], cut[k])
    OBVIOUS
  <2> HIDE DEF cut
  <2> QED BY <1>1, <2>1, <2>2 DEF Cuts
<1>2. ASSUME Cuts(w, path, 0, n) PROVE n = 0
  BY <1>2 DEF Cuts
<1> QED BY <1>1, <1>2

LEMMA CutsMore ==
    ASSUME NEW w, NEW path, Len(path) \in Nat, NEW j \in Nat, NEW n \in 0..Len(path)
    PROVE  Cuts(w, path, j + 1, n) <=> \E m \in 0..Len(path) : Cuts(w, path, j, m) /\ Spans(w[j + 1], path, m, n)
<1>1. ASSUME Cuts(w, path, j + 1, n)
      PROVE  \E m \in 0..Len(path) : Cuts(w, path, j, m) /\ Spans(w[j + 1], path, m, n)
  <2>1. PICK cut \in [0..j + 1 -> 0..Len(path)] :
           /\ cut[0] = 0 /\ cut[j + 1] = n
           /\ \A k \in 1..j + 1 : Spans(w[k], path, cut[k - 1], cut[k])
    BY <1>1, Zenon DEF Cuts
  <2> DEFINE less == [k \in 0..j |-> cut[k]]
  <2>2. less \in [0..j -> 0..Len(path)] /\ less[0] = 0 /\ less[j] = cut[j] /\ cut[j] \in 0..Len(path)
    BY <2>1
  <2>3. \A k \in 1..j : Spans(w[k], path, less[k - 1], less[k])
    <3> SUFFICES ASSUME NEW k \in 1..j
                 PROVE  Spans(w[k], path, less[k - 1], less[k])
      OBVIOUS
    <3>1. less[k - 1] = cut[k - 1] /\ less[k] = cut[k] /\ k \in 1..j + 1
      OBVIOUS
    <3> QED BY <2>1, <3>1
  <2> HIDE DEF less
  <2>4. Cuts(w, path, j, cut[j])
    BY <2>2, <2>3 DEF Cuts
  <2>5. j + 1 \in 1..j + 1 /\ (j + 1) - 1 = j
    OBVIOUS
  <2>6. Spans(w[j + 1], path, cut[j], n)
    BY <2>1, <2>5
  <2> QED BY <2>2, <2>4, <2>6
<1>2. ASSUME NEW m \in 0..Len(path), Cuts(w, path, j, m), Spans(w[j + 1], path, m, n)
      PROVE  Cuts(w, path, j + 1, n)
  <2>1. PICK cut \in [0..j -> 0..Len(path)] :
           /\ cut[0] = 0 /\ cut[j] = m
           /\ \A k \in 1..j : Spans(w[k], path, cut[k - 1], cut[k])
    BY <1>2, Zenon DEF Cuts
  <2> DEFINE more == [k \in 0..j + 1 |-> IF k = j + 1 THEN n ELSE cut[k]]
  <2>2. more \in [0..j + 1 -> 0..Len(path)] /\ more[0] = 0 /\ more[j + 1] = n /\ more[j] = m
    BY <2>1
  <2>3. \A k \in 1..j + 1 : Spans(w[k], path, more[k - 1], more[k])
    <3> SUFFICES ASSUME NEW k \in 1..j + 1
                 PROVE  Spans(w[k], path, more[k - 1], more[k])
      OBVIOUS
    <3>1. CASE k = j + 1
      BY <1>2, <2>2, <3>1
    <3>2. CASE k # j + 1
      <4>1. more[k - 1] = cut[k - 1] /\ more[k] = cut[k] /\ k \in 1..j
        BY <3>2
      <4> QED BY <2>1, <4>1
    <3> QED BY <3>1, <3>2
  <2> HIDE DEF more
  <2> QED BY <2>2, <2>3 DEF Cuts
<1> QED BY <1>1, <1>2

LEMMA CutsOfSame ==
    ASSUME NEW w, NEW v, NEW path, NEW j \in Nat, NEW n, \A k \in 1..j : w[k] = v[k]
    PROVE  Cuts(w, path, j, n) <=> Cuts(v, path, j, n)
BY Zenon DEF Cuts

Wilds == {"*", "**"}

\* A wildcard takes any number of characters, none included, up to where it may.
LEMMA WildcardTakes ==
    ASSUME NEW w, NEW path, Len(path) \in Nat, NEW j \in Nat, w[j + 1] \in Wilds, NEW n \in 0..Len(path)
    PROVE  (\E m \in 0..n : Cuts(w, path, j + 1, m)) <=> (\E m \in 0..n : Cuts(w, path, j, m))
<1>1. ASSUME NEW m \in 0..n, Cuts(w, path, j + 1, m)
      PROVE  \E l \in 0..n : Cuts(w, path, j, l)
  <2>1. PICK l \in 0..Len(path) : Cuts(w, path, j, l) /\ Spans(w[j + 1], path, l, m)
    BY <1>1, CutsMore
  <2>2. l \in 0..n
    BY <2>1 DEF Spans
  <2> QED BY <2>1, <2>2
<1>2. ASSUME NEW m \in 0..n, Cuts(w, path, j, m)
      PROVE  Cuts(w, path, j + 1, m)
  <2>1. Spans(w[j + 1], path, m, m)
    BY DEF Spans, Wilds
  <2> QED BY <1>2, <2>1, CutsMore
<1> QED BY <1>1, <1>2

\* Where anything may be taken.
LEMMA AnythingTakes ==
    ASSUME NEW w, NEW path, Len(path) \in Nat, NEW j \in Nat, w[j + 1] = "**", NEW n \in 0..Len(path)
    PROVE  Cuts(w, path, j + 1, n) <=> (\E m \in 0..n : Cuts(w, path, j, m))
<1>1. \A m \in 0..Len(path) : Spans(w[j + 1], path, m, n) <=> m <= n
  BY DEF Spans
<1> QED BY <1>1, CutsMore
----------------------------------------------------------------------------
(* The tokens of a pattern take what its characters take.                  *)

\* What each of the first i characters of a pattern means there: a star next to another takes anything.
Kinds(q, i) ==
    [k \in 1..i |-> IF q[k] = "*" /\ \E x \in {k - 1, k + 1} \cap (1..i) : q[x] = "*" THEN "**" ELSE q[k]]

TokensMean(C, q, path, i, t) ==
    /\ t \in Seq(C \cup {"**"})
    /\ i > 0 /\ q[i] = "*" => Len(t) > 0 /\ t[Len(t)] \in Wilds
    /\ \A n \in 0..Len(path) : Cuts(Kinds(q, i), path, i, n) <=> Cuts(t, path, Len(t), n)

\* One more character that is a token of its own.
LEMMA TokenAppended ==
    ASSUME NEW C, NEW q \in Seq(C), NEW path \in Seq(C), "**" \notin C,
           NEW i \in 0..Len(q) - 1, NEW t, TokensMean(C, q, path, i, t),
           ~(q[i + 1] = "*" /\ i + 1 > 1 /\ q[i] = "*")
    PROVE  TokensMean(C, q, path, i + 1, Append(t, q[i + 1]))
<1> DEFINE c == q[i + 1]
           u == Append(t, c)
           l == Len(t)
<1>1. c \in C /\ t \in Seq(C \cup {"**"}) /\ l \in Nat /\ Len(path) \in Nat /\ i \in Nat /\ i + 1 \in 1..Len(q)
  BY DEF TokensMean
<1>2. u \in Seq(C \cup {"**"}) /\ Len(u) = l + 1 /\ u[l + 1] = c /\ \A k \in 1..l : u[k] = t[k]
  BY <1>1
<1>3. Kinds(q, i + 1)[i + 1] = c
  <2>1. ~\E x \in {i + 1 - 1, i + 1 + 1} \cap (1..i + 1) : q[i + 1] = "*" /\ q[x] = "*"
    BY <1>1
  <2> QED BY <1>1, <2>1 DEF Kinds
<1>4. \A k \in 1..i : Kinds(q, i + 1)[k] = Kinds(q, i)[k]
  <2> SUFFICES ASSUME NEW k \in 1..i
               PROVE  Kinds(q, i + 1)[k] = Kinds(q, i)[k]
    OBVIOUS
  <2>1. q[k] = "*" =>
          ((\E x \in {k - 1, k + 1} \cap (1..i + 1) : q[x] = "*") <=> (\E x \in {k - 1, k + 1} \cap (1..i) : q[x] = "*"))
    <3>1. CASE k < i
      <4>1. {k - 1, k + 1} \cap (1..i + 1) = {k - 1, k + 1} \cap (1..i)
        BY <3>1
      <4> QED BY <4>1
    <3>2. CASE k = i
      BY <1>1, <3>2
    <3> QED BY <3>1, <3>2
  <2> QED BY <1>1, <2>1 DEF Kinds
<1> HIDE DEF c, u, l
<1>5. ASSUME NEW n \in 0..Len(path)
      PROVE  Cuts(Kinds(q, i + 1), path, i + 1, n) <=> Cuts(u, path, l + 1, n)
  <2>1. \A m \in 0..Len(path) : Cuts(Kinds(q, i + 1), path, i, m) <=> Cuts(u, path, l, m)
    <3> SUFFICES ASSUME NEW m \in 0..Len(path)
                 PROVE  Cuts(Kinds(q, i + 1), path, i, m) <=> Cuts(u, path, l, m)
      OBVIOUS
    <3>1. Cuts(Kinds(q, i + 1), path, i, m) <=> Cuts(Kinds(q, i), path, i, m)
      BY <1>1, <1>4, CutsOfSame
    <3>2. Cuts(u, path, l, m) <=> Cuts(t, path, l, m)
      BY <1>1, <1>2, CutsOfSame
    <3>3. Cuts(Kinds(q, i), path, i, m) <=> Cuts(t, path, l, m)
      BY DEF TokensMean, l
    <3> QED BY <3>1, <3>2, <3>3
  <2>2. Cuts(Kinds(q, i + 1), path, i + 1, n) <=>
          \E m \in 0..Len(path) : Cuts(Kinds(q, i + 1), path, i, m) /\ Spans(c, path, m, n)
    BY <1>1, <1>3, CutsMore
  <2>3. Cuts(u, path, l + 1, n) <=> \E m \in 0..Len(path) : Cuts(u, path, l, m) /\ Spans(c, path, m, n)
    BY <1>1, <1>2, CutsMore
  <2> QED BY <2>1, <2>2, <2>3
<1>6. i + 1 > 0 /\ q[i + 1] = "*" => Len(u) > 0 /\ u[Len(u)] \in Wilds
  BY <1>1, <1>2 DEF Wilds, c
<1>7. TokensMean(C, q, path, i + 1, u)
  BY <1>2, <1>5, <1>6 DEF TokensMean
<1> QED BY <1>7 DEF u, c

\* A second star in a row makes one token of the two.
LEMMA TokenMerged ==
    ASSUME NEW C, NEW q \in Seq(C), NEW path \in Seq(C), "**" \notin C,
           NEW i \in 0..Len(q) - 1, NEW t, TokensMean(C, q, path, i, t),
           q[i + 1] = "*", i + 1 > 1, q[i] = "*"
    PROVE  TokensMean(C, q, path, i + 1, [t EXCEPT ![Len(t)] = "**"])
<1> DEFINE u == [t EXCEPT ![Len(t)] = "**"]
           K == Kinds(q, i)
           L == Kinds(q, i + 1)
           h == i - 1
           l == Len(t) - 1
<1>1. t \in Seq(C \cup {"**"}) /\ l \in Nat /\ h \in Nat /\ Len(path) \in Nat /\ Len(t) = l + 1 /\ i = h + 1
      /\ t[l + 1] \in Wilds
  BY DEF TokensMean
<1>2. u \in Seq(C \cup {"**"}) /\ Len(u) = l + 1 /\ u[l + 1] = "**" /\ \A k \in 1..l : u[k] = t[k]
  <2>1. t \in [1..l + 1 -> C \cup {"**"}] /\ u = [t EXCEPT ![l + 1] = "**"]
    BY <1>1
  <2> HIDE DEF l, u
  <2>2. u \in [1..l + 1 -> C \cup {"**"}] /\ u[l + 1] = "**" /\ \A k \in 1..l : u[k] = t[k]
    BY <1>1, <2>1
  <2> QED BY <1>1, <2>2
<1>3. K[h + 1] \in Wilds /\ L[h + 1] = "**" /\ L[h + 2] = "**"
  <2>1. K[i] \in Wilds
    BY DEF Kinds, Wilds
  <2>2. L[i] = "**" /\ L[i + 1] = "**"
    BY DEF Kinds
  <2>3. h + 1 = i /\ h + 2 = i + 1
    OBVIOUS
  <2> HIDE DEF K, L, h
  <2> QED BY <2>1, <2>2, <2>3
<1>4. \A k \in 1..h : L[k] = K[k]
  <2> SUFFICES ASSUME NEW k \in 1..h
               PROVE  L[k] = K[k]
    OBVIOUS
  <2>1. {k - 1, k + 1} \cap (1..i + 1) = {k - 1, k + 1} \cap (1..i)
    OBVIOUS
  <2>2. k \in 1..i /\ k \in 1..i + 1
    OBVIOUS
  <2> HIDE DEF h
  <2> QED BY <2>1, <2>2, Zenon DEF Kinds
<1> HIDE DEF u, K, L, h, l
<1>5. ASSUME NEW n \in 0..Len(path)
      PROVE  Cuts(L, path, h + 2, n) <=> Cuts(u, path, l + 1, n)
  <2>1. (\E m \in 0..n : Cuts(K, path, h + 1, m)) <=> (\E m \in 0..n : Cuts(K, path, h, m))
    BY <1>1, <1>3, WildcardTakes
  <2>2. \A m \in 0..n : Cuts(K, path, h, m) <=> Cuts(L, path, h, m)
    BY <1>1, <1>4, CutsOfSame
  <2>3. (\E m \in 0..n : Cuts(L, path, h + 1, m)) <=> (\E m \in 0..n : Cuts(L, path, h, m))
    BY <1>1, <1>3, WildcardTakes DEF Wilds
  <2>4. Cuts(L, path, h + 2, n) <=> \E m \in 0..n : Cuts(L, path, h + 1, m)
    <3>1. h + 1 \in Nat /\ (h + 1) + 1 = h + 2
      BY <1>1
    <3> QED BY <1>1, <1>3, <3>1, AnythingTakes
  <2>5. (\E m \in 0..n : Cuts(t, path, l + 1, m)) <=> (\E m \in 0..n : Cuts(t, path, l, m))
    BY <1>1, WildcardTakes
  <2>6. \A m \in 0..n : Cuts(t, path, l, m) <=> Cuts(u, path, l, m)
    BY <1>1, <1>2, CutsOfSame
  <2>7. Cuts(u, path, l + 1, n) <=> \E m \in 0..n : Cuts(u, path, l, m)
    BY <1>1, <1>2, AnythingTakes
  <2>8. \A m \in 0..n : Cuts(K, path, h + 1, m) <=> Cuts(t, path, l + 1, m)
    BY <1>1 DEF TokensMean, K
  <2> QED BY <2>1, <2>2, <2>3, <2>4, <2>5, <2>6, <2>7, <2>8
<1>6. Len(u) > 0 /\ u[Len(u)] \in Wilds
  BY <1>1, <1>2 DEF Wilds
<1>7. i + 1 = h + 2 /\ Len(u) = l + 1
  BY <1>1, <1>2
<1>8. TokensMean(C, q, path, i + 1, u)
  BY <1>2, <1>5, <1>6, <1>7 DEF TokensMean, L
<1> QED BY <1>8 DEF u

LEMMA TokensMeanThePattern ==
    ASSUME NEW C, NEW q \in Seq(C), NEW path \in Seq(C), "**" \notin C
    PROVE  TokensMean(C, q, path, Len(q), Sync!Tokens(q))
<1>1. PICK t : TokenTable(q, Len(q), t) /\ Sync!Tokens(q) = t[Len(q)]
  BY TokensAre
<1>2. \A n \in 0..Len(q) : t[n] = IF n = 0 THEN <<>> ELSE NextTokens(q, n, t[n - 1])
  BY <1>1, Zenon DEF TokenTable
<1> DEFINE S == {i \in Nat : i <= Len(q) => TokensMean(C, q, path, i, t[i])}
<1>3. 0 \in S
  <2>1. t[0] = <<>>
    <3>1. 0 \in 0..Len(q)
      OBVIOUS
    <3> QED BY <1>2, <3>1, Zenon
  <2>2. Len(path) \in Nat /\ <<>> \in Seq(C \cup {"**"}) /\ Len(<<>>) = 0
    OBVIOUS
  <2>3. \A n \in 0..Len(path) : Cuts(Kinds(q, 0), path, 0, n) <=> Cuts(<<>>, path, 0, n)
    BY <2>2, CutsNone
  <2>4. TokensMean(C, q, path, 0, <<>>)
    BY <2>2, <2>3 DEF TokensMean
  <2> QED BY <2>1, <2>4
<1>4. ASSUME NEW i \in Nat, i \in S
      PROVE  i + 1 \in S
  <2> SUFFICES ASSUME i + 1 <= Len(q)
               PROVE  TokensMean(C, q, path, i + 1, t[i + 1])
    OBVIOUS
  <2>1. TokensMean(C, q, path, i, t[i]) /\ i \in 0..Len(q) - 1
    BY <1>4
  <2>2. t[i + 1] = NextTokens(q, i + 1, t[i])
    BY <1>2
  <2>3. CASE q[i + 1] = "*" /\ i + 1 > 1 /\ q[i] = "*"
    <3>1. t[i + 1] = [t[i] EXCEPT ![Len(t[i])] = "**"]
      BY <2>2, <2>3 DEF NextTokens
    <3>2. TokensMean(C, q, path, i + 1, [t[i] EXCEPT ![Len(t[i])] = "**"])
      BY <2>1, <2>3, TokenMerged
    <3> QED BY <3>1, <3>2
  <2>4. CASE ~(q[i + 1] = "*" /\ i + 1 > 1 /\ q[i] = "*")
    <3>1. t[i + 1] = Append(t[i], q[i + 1])
      BY <2>2, <2>4 DEF NextTokens
    <3> QED BY <2>1, <2>4, <3>1, TokenAppended
  <2> QED BY <2>3, <2>4
<1>5. Nat \subseteq S
  <2> HIDE DEF S
  <2> QED BY <1>3, <1>4, NatSteps
<1> QED BY <1>1, <1>5

LEMMA FitsSpans ==
    ASSUME NEW C, NEW q \in Seq(C), NEW path \in Seq(C), "**" \notin C,
           NEW k \in 1..Len(q), NEW m \in 0..Len(path), NEW n \in 0..Len(path)
    PROVE  m <= n /\ Sync!Fits(q, k, SubSeq(path, m + 1, n)) <=> Spans(Kinds(q, Len(q))[k], path, m, n)
<1> SUFFICES ASSUME m <= n
             PROVE  Sync!Fits(q, k, SubSeq(path, m + 1, n)) <=> Spans(Kinds(q, Len(q))[k], path, m, n)
  BY DEF Spans
<1> DEFINE piece == SubSeq(path, m + 1, n)
           K == Kinds(q, Len(q))[k]
           next == {k - 1, k + 1} \cap (1..Len(q))
<1>1. piece \in Seq(C) /\ Len(piece) = n - m /\ \A x \in 1..n - m : piece[x] = path[m + x]
  OBVIOUS
<1>2. (\A x \in DOMAIN piece : piece[x] # "/") <=> (\A x \in m + 1 .. n : path[x] # "/")
  <2>1. \A x \in m + 1 .. n : x - m \in 1..n - m /\ m + (x - m) = x
    OBVIOUS
  <2>2. \A x \in 1..n - m : m + x \in m + 1 .. n
    OBVIOUS
  <2>3. DOMAIN piece = 1..n - m
    BY <1>1
  <2> HIDE DEF piece
  <2> QED BY <1>1, <2>1, <2>2, <2>3
<1>3. \A c \in C : piece = <<c>> <=> n = m + 1 /\ path[n] = c
  <2> SUFFICES ASSUME NEW c \in C
               PROVE  piece = <<c>> <=> n = m + 1 /\ path[n] = c
    OBVIOUS
  <2>1. ASSUME piece = <<c>> PROVE n = m + 1 /\ path[n] = c
    <3>1. Len(<<c>>) = 1 /\ <<c>>[1] = c
      OBVIOUS
    <3> HIDE DEF piece
    <3>2. Len(piece) = 1 /\ piece[1] = c
      BY <2>1, <3>1, Zenon
    <3>3. n = m + 1
      <4>1. m \in Int /\ n \in Int /\ Len(piece) = n - m
        BY <1>1
      <4>2. n - m = 1
        BY <3>2, <4>1, Zenon
      <4>3. m \in Int /\ n \in Int
        BY <4>1
      <4> QED BY <4>2, <4>3
    <3>4. piece[1] = path[m + 1]
      BY <1>1, <3>3
    <3> QED BY <3>2, <3>3, <3>4
  <2>2. ASSUME n = m + 1, path[n] = c PROVE piece = <<c>>
    <3>1. Len(piece) = 1 /\ piece[1] = c
      BY <1>1, <2>2
    <3> HIDE DEF piece
    <3> QED BY <1>1, <3>1
  <2> QED BY <2>1, <2>2
<1>4. Len(piece) = 1 /\ piece # <<"/">> <=> n = m + 1 /\ path[n] # "/"
  <2>1. Len(piece) = 1 <=> n = m + 1
    BY <1>1
  <2>2. ASSUME n = m + 1 PROVE piece = <<"/">> <=> path[n] = "/"
    <3>1. Len(piece) = 1 /\ piece[1] = path[n]
      BY <1>1, <2>2
    <3> HIDE DEF piece
    <3> QED BY <1>1, <3>1
  <2> QED BY <2>1, <2>2
<1>5. (\E j \in {k - 1, k + 1} \cap DOMAIN q : q[j] = "*") <=> (\E x \in next : q[x] = "*")
  OBVIOUS
<1>6. K = IF q[k] = "*" /\ (\E x \in next : q[x] = "*") THEN "**" ELSE q[k]
  BY DEF Kinds
<1>7. q[k] \in C
  OBVIOUS
<1> HIDE DEF piece, K, next
<1>8. CASE q[k] = "*" /\ \E x \in next : q[x] = "*"
  <2>1. K = "**"
    BY <1>6, <1>8
  <2>2. Sync!Fits(q, k, piece)
    BY <1>5, <1>8 DEF Sync!Fits
  <2> QED BY <2>1, <2>2 DEF Spans, piece, K
<1>9. CASE q[k] = "*" /\ ~\E x \in next : q[x] = "*"
  <2>1. K = "*"
    BY <1>6, <1>9
  <2>2. Sync!Fits(q, k, piece) <=> \A x \in DOMAIN piece : piece[x] # "/"
    BY <1>5, <1>9 DEF Sync!Fits
  <2>3. Spans(K, path, m, n) <=> \A x \in m + 1 .. n : path[x] # "/"
    BY <2>1 DEF Spans
  <2> QED BY <1>2, <2>2, <2>3 DEF piece, K
<1>10. CASE q[k] = "?"
  <2>1. K = "?"
    BY <1>6, <1>10
  <2>2. Sync!Fits(q, k, piece) <=> Len(piece) = 1 /\ piece # <<"/">>
    BY <1>10 DEF Sync!Fits
  <2>3. Spans(K, path, m, n) <=> n = m + 1 /\ path[n] # "/"
    BY <2>1 DEF Spans
  <2> QED BY <1>4, <2>2, <2>3 DEF piece, K
<1>11. CASE q[k] \notin {"*", "?"}
  <2>1. K = q[k] /\ K # "**"
    BY <1>6, <1>7, <1>11
  <2>2. Sync!Fits(q, k, piece) <=> piece = <<q[k]>>
    BY <1>11 DEF Sync!Fits
  <2>3. Spans(K, path, m, n) <=> n = m + 1 /\ path[n] = q[k]
    BY <2>1, <1>11 DEF Spans
  <2> QED BY <1>3, <1>7, <2>2, <2>3 DEF piece, K
<1> QED BY <1>8, <1>9, <1>10, <1>11

\* What a pattern covers, said of its tokens.
LEMMA CoversIs ==
    ASSUME NEW C, NEW q \in Seq(C), NEW path \in Seq(C), "**" \notin C
    PROVE  Sync!Covers(q, path) <=>
             /\ q # <<>>
             /\ \E n \in 0..Len(path) : /\ Cuts(Sync!Tokens(q), path, Len(Sync!Tokens(q)), n)
                                        /\ n < Len(path) => path[n + 1] = "/"
<1> DEFINE K == Kinds(q, Len(q))
           Cut(cut) == /\ cut[0] = 0
                       /\ \A i \in DOMAIN q :
                            cut[i - 1] <= cut[i] /\ Sync!Fits(q, i, SubSeq(path, cut[i - 1] + 1, cut[i]))
<1>1. Len(q) \in Nat /\ DOMAIN q = 1..Len(q)
  OBVIOUS
<1>2. ASSUME NEW cut \in [0..Len(q) -> 0..Len(path)]
      PROVE  Cut(cut) <=> cut[0] = 0 /\ \A k \in 1..Len(q) : Spans(K[k], path, cut[k - 1], cut[k])
  <2>1. ASSUME NEW k \in 1..Len(q)
        PROVE  cut[k - 1] <= cut[k] /\ Sync!Fits(q, k, SubSeq(path, cut[k - 1] + 1, cut[k]))
                 <=> Spans(K[k], path, cut[k - 1], cut[k])
    <3>1. cut[k - 1] \in 0..Len(path) /\ cut[k] \in 0..Len(path)
      OBVIOUS
    <3> QED BY <3>1, FitsSpans
  <2> HIDE DEF K
  <2> QED BY <1>1, <2>1
<1>3. \A n \in 0..Len(path) : Cuts(K, path, Len(q), n) <=> Cuts(Sync!Tokens(q), path, Len(Sync!Tokens(q)), n)
  BY TokensMeanThePattern DEF TokensMean
<1>4. Sync!Covers(q, path) <=>
        /\ q # <<>>
        /\ \E cut \in [0..Len(q) -> 0..Len(path)] :
             Cut(cut) /\ (cut[Len(q)] < Len(path) => path[cut[Len(q)] + 1] = "/")
  BY DEF Sync!Covers
<1> HIDE DEF K, Cut
<1>5. (\E cut \in [0..Len(q) -> 0..Len(path)] :
             Cut(cut) /\ (cut[Len(q)] < Len(path) => path[cut[Len(q)] + 1] = "/"))
        <=> \E n \in 0..Len(path) : Cuts(K, path, Len(q), n) /\ (n < Len(path) => path[n + 1] = "/")
  <2>1. ASSUME NEW cut \in [0..Len(q) -> 0..Len(path)], Cut(cut),
               cut[Len(q)] < Len(path) => path[cut[Len(q)] + 1] = "/"
        PROVE  \E n \in 0..Len(path) : Cuts(K, path, Len(q), n) /\ (n < Len(path) => path[n + 1] = "/")
    <3>1. cut[Len(q)] \in 0..Len(path)
      OBVIOUS
    <3>2. Cuts(K, path, Len(q), cut[Len(q)])
      BY <1>2, <2>1 DEF Cuts
    <3> QED BY <2>1, <3>1, <3>2
  <2>2. ASSUME NEW n \in 0..Len(path), Cuts(K, path, Len(q), n), n < Len(path) => path[n + 1] = "/"
        PROVE  \E cut \in [0..Len(q) -> 0..Len(path)] :
                 Cut(cut) /\ (cut[Len(q)] < Len(path) => path[cut[Len(q)] + 1] = "/")
    <3>1. PICK cut \in [0..Len(q) -> 0..Len(path)] :
             /\ cut[0] = 0 /\ cut[Len(q)] = n
             /\ \A k \in 1..Len(q) : Spans(K[k], path, cut[k - 1], cut[k])
      BY <2>2, Zenon DEF Cuts
    <3>2. Cut(cut)
      BY <1>2, <3>1
    <3> QED BY <2>2, <3>1, <3>2
  <2> QED BY <2>1, <2>2
<1> QED BY <1>3, <1>4, <1>5

----------------------------------------------------------------------------
(* The automaton is in the states whose tokens take what was read.         *)

\* The first j tokens take n characters, the next one what is left of them if it is a wildcard.
Reaches(t, path, j, n) ==
    /\ j \in 0..Len(t)
    /\ \/ Cuts(t, path, j, n)
       \/ /\ j < Len(t) /\ t[j + 1] \in Wilds
          /\ \E m \in 0..n : Cuts(t, path, j, m) /\ Spans(t[j + 1], path, m, n)

LEMMA ReachesPast ==
    ASSUME NEW t, Len(t) \in Nat, NEW path, Len(path) \in Nat, NEW n \in 0..Len(path),
           NEW j \in Nat, j < Len(t), t[j + 1] \in Wilds, Reaches(t, path, j, n)
    PROVE  Cuts(t, path, j + 1, n) /\ Reaches(t, path, j + 1, n)
<1>1. PICK m \in 0..n : Cuts(t, path, j, m) /\ Spans(t[j + 1], path, m, n)
  <2>1. CASE Cuts(t, path, j, n)
    <3>1. Spans(t[j + 1], path, n, n)
      BY DEF Spans, Wilds
    <3> QED BY <2>1, <3>1
  <2>2. CASE ~Cuts(t, path, j, n)
    BY <2>2 DEF Reaches
  <2> QED BY <2>1, <2>2
<1>2. Cuts(t, path, j + 1, n)
  BY <1>1, CutsMore
<1> QED BY <1>2 DEF Reaches

LEMMA ReachesAlong ==
    ASSUME NEW t, Len(t) \in Nat, NEW path, Len(path) \in Nat, NEW n \in 0..Len(path),
           NEW i \in Nat, NEW j \in Nat, i <= j, j <= Len(t), \A k \in i + 1 .. j : t[k] \in Wilds,
           Reaches(t, path, i, n)
    PROVE  Reaches(t, path, j, n)
<1> DEFINE S == {d \in Nat : i + d <= j => Reaches(t, path, i + d, n)}
<1>1. 0 \in S
  <2>1. i + 0 = i
    OBVIOUS
  <2> QED BY <2>1
<1>2. ASSUME NEW d \in Nat, d \in S
      PROVE  d + 1 \in S
  <2> SUFFICES ASSUME i + (d + 1) <= j
               PROVE  Reaches(t, path, i + (d + 1), n)
    OBVIOUS
  <2>1. Reaches(t, path, i + d, n) /\ i + d \in Nat /\ i + d < Len(t) /\ (i + d) + 1 = i + (d + 1)
    BY <1>2
  <2>2. t[(i + d) + 1] \in Wilds
    OBVIOUS
  <2> HIDE DEF S
  <2>3. Reaches(t, path, (i + d) + 1, n)
    BY <2>1, <2>2, ReachesPast
  <2> QED BY <2>1, <2>3
<1>3. Nat \subseteq S
  <2> HIDE DEF S
  <2> QED BY <1>1, <1>2, NatSteps
<1>4. j - i \in Nat /\ i + (j - i) = j
  OBVIOUS
<1>5. j - i \in S
  <2> HIDE DEF S
  <2> QED BY <1>3, <1>4
<1>6. i + (j - i) <= j => Reaches(t, path, i + (j - i), n)
  BY <1>5
<1> QED BY <1>4, <1>6

LEMMA WildIs == Sync!Wild = Wilds
BY DEF Sync!Wild, Wilds

\* Nothing read: only wildcards are passed.
LEMMA NothingRead ==
    ASSUME NEW t, Len(t) \in Nat, NEW path, Len(path) \in Nat
    PROVE  Sync!ExpandGlobEpsilon({0}, t) = {j \in 0..Len(t) : Reaches(t, path, j, 0)}
<1>0. Cuts(t, path, 0, 0) /\ Reaches(t, path, 0, 0)
  BY CutsNone DEF Reaches
<1>1. ASSUME NEW j \in Sync!ExpandGlobEpsilon({0}, t)
      PROVE  j \in 0..Len(t) /\ Reaches(t, path, j, 0)
  <2>1. CASE j = 0
    BY <1>0, <2>1
  <2>2. CASE j # 0
    <3>1. j \in 1..Len(t) /\ \A k \in 0 + 1 .. j : t[k] \in Wilds
      BY <1>1, <2>2, WildIs DEF Sync!ExpandGlobEpsilon
    <3>2. Reaches(t, path, j, 0)
      BY <1>0, <3>1, ReachesAlong
    <3> QED BY <3>1, <3>2
  <2> QED BY <2>1, <2>2
<1> DEFINE S == {j \in Nat : j <= Len(t) /\ Cuts(t, path, j, 0) => \A k \in 1..j : t[k] \in Wilds}
<1>2. 0 \in S
  OBVIOUS
<1>3. ASSUME NEW j \in Nat, j \in S
      PROVE  j + 1 \in S
  <2> SUFFICES ASSUME j + 1 <= Len(t), Cuts(t, path, j + 1, 0), NEW k \in 1..j + 1
               PROVE  t[k] \in Wilds
    OBVIOUS
  <2>1. PICK m \in 0..Len(path) : Cuts(t, path, j, m) /\ Spans(t[j + 1], path, m, 0)
    BY CutsMore
  <2>2. m = 0 /\ t[j + 1] \in Wilds
    BY <2>1 DEF Spans, Wilds
  <2>3. \A i \in 1..j : t[i] \in Wilds
    BY <1>3, <2>1, <2>2
  <2> QED BY <2>2, <2>3
<1>4. Nat \subseteq S
  <2> HIDE DEF S
  <2> QED BY <1>2, <1>3, NatSteps
<1>5. ASSUME NEW j \in 0..Len(t), Reaches(t, path, j, 0)
      PROVE  j \in Sync!ExpandGlobEpsilon({0}, t)
  <2>1. Cuts(t, path, j, 0)
    BY <1>5 DEF Reaches
  <2>2. \A k \in 1..j : t[k] \in Wilds
    <3>1. j \in S
      BY <1>4
    <3> QED BY <2>1, <3>1
  <2>3. j = 0 \/ (j \in 1..Len(t) /\ 0 < j /\ \A k \in 0 + 1 .. j : t[k] \in Sync!Wild)
    BY <2>2, WildIs
  <2> QED BY <2>3 DEF Sync!ExpandGlobEpsilon
<1> QED BY <1>1, <1>5

\* The states a character leads to, before wildcards are passed.
After(states, c, t) ==
    {i + 1 : i \in {i \in states : i < Len(t) /\ (t[i + 1] = c \/ (t[i + 1] = "?" /\ c # "/"))}}
      \cup {i \in states : i < Len(t) /\ (t[i + 1] = "**" \/ (t[i + 1] = "*" /\ c # "/"))}

LEMMA StepIs ==
    ASSUME NEW states, NEW c, NEW t
    PROVE  Sync!Step(states, c, t) = Sync!ExpandGlobEpsilon(After(states, c, t), t)
<1>1. {i \in {i \in states : i < Len(t)} : t[i + 1] = c \/ (t[i + 1] = "?" /\ c # "/")}
        = {i \in states : i < Len(t) /\ (t[i + 1] = c \/ (t[i + 1] = "?" /\ c # "/"))}
  OBVIOUS
<1>2. {i \in {i \in states : i < Len(t)} : t[i + 1] = "**" \/ (t[i + 1] = "*" /\ c # "/")}
        = {i \in states : i < Len(t) /\ (t[i + 1] = "**" \/ (t[i + 1] = "*" /\ c # "/"))}
  OBVIOUS
<1> QED BY <1>1, <1>2, Zenon DEF Sync!Step, After

LEMMA SpansOn ==
    ASSUME NEW c, NEW path, Len(path) \in Nat, NEW n \in 0..Len(path) - 1, NEW m \in 0..n, c \in Wilds
    PROVE  Spans(c, path, m, n + 1) <=> Spans(c, path, m, n) /\ (c = "**" \/ path[n + 1] # "/")
<1>1. CASE c = "**"
  BY <1>1 DEF Spans
<1>2. CASE c = "*"
  <2>1. (\A x \in m + 1 .. n + 1 : path[x] # "/") <=> (\A x \in m + 1 .. n : path[x] # "/") /\ path[n + 1] # "/"
    <3>1. (m + 1 .. n + 1) = (m + 1 .. n) \cup {n + 1}
      OBVIOUS
    <3> QED BY <3>1
  <2>2. Spans(c, path, m, n + 1) <=> \A x \in m + 1 .. n + 1 : path[x] # "/"
    BY <1>2 DEF Spans
  <2>3. Spans(c, path, m, n) <=> \A x \in m + 1 .. n : path[x] # "/"
    BY <1>2 DEF Spans
  <2> QED BY <1>2, <2>1, <2>2, <2>3
<1> QED BY <1>1, <1>2 DEF Wilds

LEMMA AfterReaches ==
    ASSUME NEW C, NEW path \in Seq(C), "**" \notin C, NEW t, Len(t) \in Nat, NEW n \in 0..Len(path) - 1,
           NEW j \in After({i \in 0..Len(t) : Reaches(t, path, i, n)}, path[n + 1], t)
    PROVE  j \in 0..Len(t) /\ Reaches(t, path, j, n + 1)
<1>0. Len(path) \in Nat /\ n + 1 \in 1..Len(path) /\ path[n + 1] \in C
  OBVIOUS
<1> DEFINE c == path[n + 1]
<1>1. CASE \E i \in 0..Len(t) : /\ Reaches(t, path, i, n) /\ i < Len(t) /\ j = i + 1
                                /\ t[i + 1] = c \/ (t[i + 1] = "?" /\ c # "/")
  <2>1. PICK i \in 0..Len(t) : /\ Reaches(t, path, i, n) /\ i < Len(t) /\ j = i + 1
                               /\ t[i + 1] = c \/ (t[i + 1] = "?" /\ c # "/")
    BY <1>1
  <2>2. CASE t[i + 1] \in Wilds
    <3>1. t[i + 1] = "*" /\ c = "*"
      BY <1>0, <2>1, <2>2 DEF Wilds
    <3>2. PICK m \in 0..n : Cuts(t, path, i, m) /\ Spans(t[i + 1], path, m, n)
      <4>1. Spans(t[i + 1], path, n, n)
        BY <2>2 DEF Spans, Wilds
      <4> QED BY <2>1, <4>1 DEF Reaches
    <3>3. Spans(t[i + 1], path, m, n + 1)
      BY <1>0, <2>2, <3>1, <3>2, SpansOn
    <3>4. m \in 0..Len(path) /\ n + 1 \in 0..Len(path)
      OBVIOUS
    <3>5. Cuts(t, path, i + 1, n + 1)
      BY <1>0, <3>2, <3>3, <3>4, CutsMore
    <3> QED BY <2>1, <3>5 DEF Reaches
  <2>3. CASE t[i + 1] \notin Wilds
    <3>1. Cuts(t, path, i, n)
      BY <2>1, <2>3 DEF Reaches
    <3>2. Spans(t[i + 1], path, n, n + 1)
      BY <2>1, <2>3 DEF Spans, Wilds
    <3>3. n \in 0..Len(path) /\ n + 1 \in 0..Len(path)
      OBVIOUS
    <3>4. Cuts(t, path, i + 1, n + 1)
      BY <1>0, <3>1, <3>2, <3>3, CutsMore
    <3> QED BY <2>1, <3>4 DEF Reaches
  <2> QED BY <2>2, <2>3
<1>2. CASE j \in 0..Len(t) /\ Reaches(t, path, j, n) /\ j < Len(t) /\ (t[j + 1] = "**" \/ (t[j + 1] = "*" /\ c # "/"))
  <2>1. t[j + 1] \in Wilds
    BY <1>2 DEF Wilds
  <2>2. PICK m \in 0..n : Cuts(t, path, j, m) /\ Spans(t[j + 1], path, m, n)
    <3>1. Spans(t[j + 1], path, n, n)
      BY <2>1 DEF Spans, Wilds
    <3> QED BY <1>2, <3>1 DEF Reaches
  <2>3. Spans(t[j + 1], path, m, n + 1)
    BY <1>0, <1>2, <2>1, <2>2, SpansOn
  <2>4. m \in 0..n + 1
    OBVIOUS
  <2> QED BY <1>2, <2>1, <2>2, <2>3, <2>4 DEF Reaches
<1> QED BY <1>1, <1>2 DEF After

Reached(t, path, n) == {i \in 0..Len(t) : Reaches(t, path, i, n)}

\* One more character read.
LEMMA OneMoreRead ==
    ASSUME NEW C, NEW path \in Seq(C), "**" \notin C, NEW t, Len(t) \in Nat, NEW n \in 0..Len(path) - 1
    PROVE  Sync!Step(Reached(t, path, n), path[n + 1], t) = Reached(t, path, n + 1)
<1> DEFINE R == {i \in 0..Len(t) : Reaches(t, path, i, n)}
           B == After(R, path[n + 1], t)
           E == Sync!ExpandGlobEpsilon(B, t)
<1>0. Len(path) \in Nat /\ n + 1 \in 0..Len(path) /\ n \in 0..Len(path) /\ path[n + 1] \in C
  OBVIOUS
<1>1. \A j \in B : j \in 0..Len(t) /\ Reaches(t, path, j, n + 1)
  BY AfterReaches
<1>2. \A j : j \in E <=> \/ j \in B
                         \/ j \in 1..Len(t) /\ \E i \in B : i < j /\ \A k \in i + 1 .. j : t[k] \in Wilds
  BY WildIs DEF Sync!ExpandGlobEpsilon
<1>3. \A i : i \in B <=>
        \/ \E h \in R : h < Len(t) /\ (t[h + 1] = path[n + 1] \/ (t[h + 1] = "?" /\ path[n + 1] # "/")) /\ i = h + 1
        \/ i \in R /\ i < Len(t) /\ (t[i + 1] = "**" \/ (t[i + 1] = "*" /\ path[n + 1] # "/"))
  BY DEF After
<1> HIDE DEF B, E
<1>4. ASSUME NEW j \in E
      PROVE  j \in 0..Len(t) /\ Reaches(t, path, j, n + 1)
  <2>1. CASE j \in B
    BY <1>1, <2>1
  <2>2. CASE j \in 1..Len(t) /\ \E i \in B : i < j /\ \A k \in i + 1 .. j : t[k] \in Wilds
    <3>1. PICK i \in B : i < j /\ \A k \in i + 1 .. j : t[k] \in Wilds
      BY <2>2
    <3>2. i \in Nat /\ j \in Nat /\ i <= j /\ j <= Len(t) /\ Reaches(t, path, i, n + 1)
      BY <1>1, <2>2, <3>1
    <3>3. Reaches(t, path, j, n + 1)
      BY <1>0, <3>1, <3>2, ReachesAlong
    <3> QED BY <3>2, <3>3
  <2> QED BY <1>2, <2>1, <2>2
<1> DEFINE S == {j \in Nat : j <= Len(t) /\ Reaches(t, path, j, n + 1) => j \in E}
\* A wildcard that was waiting takes the character.
<1>5. ASSUME NEW j \in Nat, j < Len(t), t[j + 1] \in Wilds,
             \E m \in 0..n : Cuts(t, path, j, m) /\ Spans(t[j + 1], path, m, n + 1)
      PROVE  j \in E
  <2>1. PICK m \in 0..n : Cuts(t, path, j, m) /\ Spans(t[j + 1], path, m, n + 1)
    BY <1>5
  <2>2. Spans(t[j + 1], path, m, n) /\ (t[j + 1] = "**" \/ path[n + 1] # "/")
    BY <1>0, <1>5, <2>1, SpansOn
  <2>3. j \in R
    BY <1>5, <2>1, <2>2 DEF Reaches
  <2>4. j \in B
    BY <1>3, <1>5, <2>2, <2>3 DEF Wilds
  <2> QED BY <1>2, <2>4
<1>6. 0 \in S
  <2> SUFFICES ASSUME Reaches(t, path, 0, n + 1)
               PROVE  0 \in E
    OBVIOUS
  <2>1. ~Cuts(t, path, 0, n + 1)
    BY <1>0, CutsNone
  <2>2. /\ 0 < Len(t) /\ t[0 + 1] \in Wilds
        /\ \E m \in 0..n + 1 : Cuts(t, path, 0, m) /\ Spans(t[0 + 1], path, m, n + 1)
    BY <2>1 DEF Reaches
  <2>3. \E m \in 0..n : Cuts(t, path, 0, m) /\ Spans(t[0 + 1], path, m, n + 1)
    <3>1. PICK m \in 0..n + 1 : Cuts(t, path, 0, m) /\ Spans(t[0 + 1], path, m, n + 1)
      BY <2>2
    <3>2. m # n + 1
      BY <2>1, <3>1
    <3> QED BY <3>1, <3>2
  <2> HIDE DEF S
  <2> QED BY <1>5, <2>2, <2>3
<1>7. ASSUME NEW j \in Nat, j \in S
      PROVE  j + 1 \in S
  <2> SUFFICES ASSUME j + 1 <= Len(t), Reaches(t, path, j + 1, n + 1)
               PROVE  j + 1 \in E
    OBVIOUS
  <2>1. CASE ~Cuts(t, path, j + 1, n + 1)
    <3>1. /\ j + 1 < Len(t) /\ t[(j + 1) + 1] \in Wilds
          /\ \E m \in 0..n + 1 : Cuts(t, path, j + 1, m) /\ Spans(t[(j + 1) + 1], path, m, n + 1)
      BY <2>1 DEF Reaches
    <3>2. \E m \in 0..n : Cuts(t, path, j + 1, m) /\ Spans(t[(j + 1) + 1], path, m, n + 1)
      <4>1. PICK m \in 0..n + 1 : Cuts(t, path, j + 1, m) /\ Spans(t[(j + 1) + 1], path, m, n + 1)
        BY <3>1
      <4>2. m # n + 1
        BY <2>1, <4>1
      <4> QED BY <4>1, <4>2
    <3>3. j + 1 \in Nat
      OBVIOUS
    <3> HIDE DEF S
    <3> QED BY <1>5, <3>1, <3>2, <3>3
  <2>2. CASE Cuts(t, path, j + 1, n + 1)
    <3>1. PICK m \in 0..Len(path) : Cuts(t, path, j, m) /\ Spans(t[j + 1], path, m, n + 1)
      BY <1>0, <2>2, CutsMore
    <3>2. CASE t[j + 1] \in Wilds
      <4>1. m \in 0..n + 1
        BY <3>1 DEF Spans
      <4>2. Reaches(t, path, j, n + 1)
        BY <3>1, <3>2, <4>1 DEF Reaches
      <4>3. j \in E
        BY <1>7, <4>2
      <4>4. \/ j \in B
            \/ \E i \in B : i < j /\ \A k \in i + 1 .. j : t[k] \in Wilds
        BY <1>2, <4>3
      <4>5. \E i \in B : i < j + 1 /\ \A k \in i + 1 .. j + 1 : t[k] \in Wilds
        <5>1. CASE j \in B
          <6>1. \A k \in j + 1 .. j + 1 : t[k] \in Wilds
            BY <3>2
          <6> QED BY <5>1, <6>1
        <5>2. CASE \E i \in B : i < j /\ \A k \in i + 1 .. j : t[k] \in Wilds
          <6>1. PICK i \in B : i < j /\ \A k \in i + 1 .. j : t[k] \in Wilds
            BY <5>2
          <6>2. i \in Nat
            BY <1>1, <6>1
          <6>3. \A k \in i + 1 .. j + 1 : t[k] \in Wilds
            BY <3>2, <6>1, <6>2
          <6> QED BY <6>1, <6>2, <6>3
        <5> QED BY <4>4, <5>1, <5>2
      <4>6. j + 1 \in 1..Len(t)
        OBVIOUS
      <4> HIDE DEF S
      <4> QED BY <1>2, <4>5, <4>6
    <3>3. CASE t[j + 1] \notin Wilds
      <4>1. m = n /\ (t[j + 1] = path[n + 1] \/ (t[j + 1] = "?" /\ path[n + 1] # "/"))
        BY <3>1, <3>3 DEF Spans, Wilds
      <4>2. j \in R /\ j < Len(t)
        BY <3>1, <4>1 DEF Reaches
      <4>3. j + 1 \in B
        BY <1>3, <4>1, <4>2
      <4> QED BY <1>2, <4>3
    <3> QED BY <3>2, <3>3
  <2> QED BY <2>1, <2>2
<1>8. Nat \subseteq S
  <2> HIDE DEF S
  <2> QED BY <1>6, <1>7, NatSteps
<1>9. ASSUME NEW j \in 0..Len(t), Reaches(t, path, j, n + 1)
      PROVE  j \in E
  BY <1>8, <1>9
<1>10. Sync!Step(R, path[n + 1], t) = E
  BY StepIs DEF E, B
<1>11. Sync!Step(Reached(t, path, n), path[n + 1], t) = E
  BY <1>10 DEF Reached
<1> HIDE DEF S, R
<1>12. Reached(t, path, n + 1) = E
  BY <1>4, <1>9 DEF Reached
<1> QED BY <1>11, <1>12

\* Whatever the pattern and the path: the automaton excludes what the pattern covers.
LEMMA ExclusionIsExact ==
    ASSUME NEW C, NEW q \in Seq(C), NEW path \in Seq(C), "**" \notin C, q # <<>>
    PROVE  Sync!GlobMatches(Sync!Tokens(q), path) <=> Sync!Covers(q, path)
<1> DEFINE t == Sync!Tokens(q)
<1>1. Len(t) \in Nat /\ Len(path) \in Nat
  BY TokensMeanThePattern DEF TokensMean
<1>2. PICK s : /\ StateTable(t, path, Len(path), s)
               /\ Sync!GlobMatches(t, path) <=>
                    \E n \in 0..Len(path) : Len(t) \in s[n] /\ (n < Len(path) => path[n + 1] = "/")
  BY <1>1, MatchesIs
<1> HIDE DEF t
<1> DEFINE Right(n) == {j \in 0..Len(t) : Reaches(t, path, j, n)}
           S == {n \in Nat : n <= Len(path) => s[n] = Right(n)}
<1>3. 0 \in S
  <2>1. 0 \in 0..Len(path)
    BY <1>1
  <2>2. s[0] = Sync!ExpandGlobEpsilon({0}, t)
    BY <1>2, <2>1, Zenon DEF StateTable
  <2> QED BY <1>1, <2>2, NothingRead
<1>4. ASSUME NEW n \in Nat, n \in S
      PROVE  n + 1 \in S
  <2> SUFFICES ASSUME n + 1 <= Len(path)
               PROVE  s[n + 1] = Right(n + 1)
    OBVIOUS
  <2>1. n + 1 \in 0..Len(path) /\ n + 1 # 0 /\ (n + 1) - 1 = n /\ n \in 0..Len(path) - 1
    BY <1>1
  <2>2. s[n + 1] = Sync!Step(s[(n + 1) - 1], path[n + 1], t)
    BY <1>2, <2>1, Zenon DEF StateTable
  <2>3. s[n] = Right(n)
    <3>1. n <= Len(path)
      BY <1>1, <2>1
    <3>2. n <= Len(path) => s[n] = Right(n)
      <4> HIDE DEF Right
      <4> QED BY <1>4, Zenon
    <3> HIDE DEF Right
    <3> QED BY <3>1, <3>2
  <2>4. Sync!Step(Right(n), path[n + 1], t) = Right(n + 1)
    <3>1. n \in 0..Len(path) - 1 /\ Len(t) \in Nat
      BY <1>1, <2>1, Zenon
    <3>2. Sync!Step(Reached(t, path, n), path[n + 1], t) = Reached(t, path, n + 1)
      BY <3>1, OneMoreRead
    <3> QED BY <3>2 DEF Reached
  <2> HIDE DEF Right
  <2> QED BY <2>1, <2>2, <2>3, <2>4
<1>5. Nat \subseteq S
  <2> HIDE DEF S
  <2> QED BY <1>3, <1>4, NatSteps
<1>6. ASSUME NEW n \in 0..Len(path)
      PROVE  Len(t) \in s[n] <=> Cuts(t, path, Len(t), n)
  <2>1. s[n] = Right(n)
    <3>1. n \in Nat /\ n <= Len(path)
      BY <1>1
    <3>2. n \in S
      <4> HIDE DEF S
      <4> QED BY <1>5, <3>1
    <3> HIDE DEF Right
    <3> QED BY <3>1, <3>2
  <2>2. Len(t) \in 0..Len(t) /\ ~(Len(t) < Len(t))
    BY <1>1
  <2> QED BY <2>1, <2>2 DEF Reaches
<1>7. Sync!Covers(q, path) <=>
        \E n \in 0..Len(path) : Cuts(t, path, Len(t), n) /\ (n < Len(path) => path[n + 1] = "/")
  BY CoversIs DEF t
<1> HIDE DEF S, Right
<1>8. Sync!GlobMatches(t, path) <=> Sync!Covers(q, path)
  BY <1>2, <1>6, <1>7
<1> QED BY <1>8 DEF t

----------------------------------------------------------------------------
(* Paths.                                                                  *)

LEMMA PathPrefixIs ==
    ASSUME NEW C, NEW f \in Seq(C), NEW n \in 0..Len(f)
    PROVE  /\ Len(f) \in Nat
           /\ SubSeq(f, 1, n) \in Seq(C) /\ Len(SubSeq(f, 1, n)) = n
           /\ \A k \in 1..n : SubSeq(f, 1, n)[k] = f[k]
<1>1. Len(f) \in Nat /\ 1 \in 1..Len(f) + 1 /\ n \in 0..Len(f)
  OBVIOUS
<1> QED BY <1>1, SubSeqProperties

LEMMA PathPartIs ==
    ASSUME NEW C, NEW f \in Seq(C), NEW n \in 0..Len(f), NEW a \in 0..n, NEW b \in 0..n, a <= b
    PROVE  SubSeq(SubSeq(f, 1, n), a + 1, b) = SubSeq(f, a + 1, b)
<1> DEFINE p == SubSeq(f, 1, n)
<1>1. Len(f) \in Nat /\ p \in Seq(C) /\ Len(p) = n /\ \A k \in 1..n : p[k] = f[k]
  BY PathPrefixIs
<1> HIDE DEF p
<1>2. SubSeq(p, a + 1, b) = [i \in 1..b - (a + 1) + 1 |-> p[a + 1 + i - 1]]
  BY <1>1, Z3
<1>3. SubSeq(f, a + 1, b) = [i \in 1..b - (a + 1) + 1 |-> f[a + 1 + i - 1]]
  BY <1>1, Z3
<1>4. \A i \in 1..b - (a + 1) + 1 : p[a + 1 + i - 1] = f[a + 1 + i - 1]
  <2> TAKE i \in 1..b - (a + 1) + 1
  <2>1. a + 1 + i - 1 \in 1..n
    OBVIOUS
  <2> QED BY <1>1, <2>1
<1>5. SubSeq(p, a + 1, b) = SubSeq(f, a + 1, b)
  BY <1>2, <1>3, <1>4
<1> QED BY <1>5 DEF p

\* What is in a directory that a pattern covers, it covers too.
LEMMA CoversBelow ==
    ASSUME NEW C, NEW q \in Seq(C), NEW f \in Seq(C), NEW e \in Sync!Above(f), Sync!Covers(q, e)
    PROVE  Sync!Covers(q, f)
<1>1. PICK n \in 1..Len(f) : f[n] = "/" /\ e = SubSeq(f, 1, n - 1)
  BY DEF Sync!Above
<1>2. n - 1 \in 0..Len(f) /\ n \in Nat /\ Len(f) \in Nat /\ Len(q) \in Nat
  OBVIOUS
<1>3. e \in Seq(C) /\ Len(e) = n - 1 /\ \A k \in 1..n - 1 : e[k] = f[k]
  BY <1>1, <1>2, PathPrefixIs
<1>4. PICK cut \in [0..Len(q) -> 0..Len(e)] :
        /\ cut[0] = 0
        /\ \A i \in DOMAIN q :
             cut[i - 1] <= cut[i] /\ Sync!Fits(q, i, SubSeq(e, cut[i - 1] + 1, cut[i]))
        /\ cut[Len(q)] < Len(e) => e[cut[Len(q)] + 1] = "/"
  BY DEF Sync!Covers
<1>5. cut \in [0..Len(q) -> 0..Len(f)]
  BY <1>2, <1>3, <1>4
<1>6. ASSUME NEW i \in DOMAIN q
      PROVE  cut[i - 1] <= cut[i] /\ Sync!Fits(q, i, SubSeq(f, cut[i - 1] + 1, cut[i]))
  <2>1. i \in 0..Len(q) /\ i - 1 \in 0..Len(q)
    BY <1>2
  <2>2. cut[i - 1] \in 0..n - 1 /\ cut[i] \in 0..n - 1 /\ cut[i - 1] <= cut[i]
    BY <1>3, <1>4, <2>1
  <2>3. SubSeq(e, cut[i - 1] + 1, cut[i]) = SubSeq(f, cut[i - 1] + 1, cut[i])
    BY <1>1, <1>2, <2>2, PathPartIs
  <2> QED BY <1>4, <2>2, <2>3
<1>7. ASSUME cut[Len(q)] < Len(f)
      PROVE  f[cut[Len(q)] + 1] = "/"
  <2>1. cut[Len(q)] \in 0..n - 1
    <3>1. Len(q) \in 0..Len(q) /\ Len(e) = n - 1
      BY <1>2, <1>3
    <3> QED BY <1>4, <3>1
  <2>2. CASE cut[Len(q)] = n - 1
    BY <1>1, <1>2, <2>2
  <2>3. CASE cut[Len(q)] # n - 1
    BY <1>2, <1>3, <1>4, <2>1, <2>3
  <2> QED BY <2>2, <2>3
<1>8. q # <<>>
  BY DEF Sync!Covers
<1> QED BY <1>4, <1>5, <1>6, <1>7, <1>8 DEF Sync!Covers

LEMMA NextSlash ==
    ASSUME NEW C, NEW f \in Seq(C), NEW n \in 0..Len(f)
    PROVE  \E m \in n + 1 .. Len(f) + 1 : /\ m = Len(f) + 1 \/ f[m] = "/"
                                          /\ \A k \in n + 1 .. m - 1 : f[k] # "/"
<1> DEFINE T == {m \in n + 1 .. Len(f) + 1 : m = Len(f) + 1 \/ f[m] = "/"}
           R == {s \in Nat \X Nat : s[1] < s[2]}
<1>1. Len(f) \in Nat
  OBVIOUS
<1>2. IsWellFoundedOn(R, Nat)
  BY NatLessThanWellFounded, Zenon DEF OpToRel
<1>3. Len(f) + 1 \in T /\ T \subseteq Nat
  BY <1>1
<1>4. PICK m \in T : \A k \in T : ~(<<k, m>> \in R)
  <2> HIDE DEF R, T
  <2> QED BY <1>2, <1>3, WFMin
<1>5. \A k \in T : ~(k < m)
  BY <1>3, <1>4
<1>6. ASSUME NEW k \in n + 1 .. m - 1
      PROVE  f[k] # "/"
  <2>1. k < m /\ k \in n + 1 .. Len(f) + 1
    BY <1>1
  <2> QED BY <1>5, <2>1
<1> QED BY <1>6

\* Below every directory a path is in, and below the root, is the next one, or the path itself.
LEMMA NextBelow ==
    ASSUME NEW C, NEW f \in Seq(C), NEW n \in 0..Len(f), n = 0 \/ f[n] = "/",
           NEW d, d = IF n = 0 THEN <<>> ELSE SubSeq(f, 1, n - 1)
    PROVE  \E e \in Sync!Above(f) \cup {f} : Sync!Parent(e) = d
<1>1. PICK m \in n + 1 .. Len(f) + 1 : /\ m = Len(f) + 1 \/ f[m] = "/"
                                       /\ \A k \in n + 1 .. m - 1 : f[k] # "/"
  BY NextSlash
<1> DEFINE e == SubSeq(f, 1, m - 1)
<1>2. Len(f) \in Nat /\ m \in Nat /\ m - 1 \in 0..Len(f) /\ n <= m - 1
  OBVIOUS
<1>3. e \in Seq(C) /\ Len(e) = m - 1 /\ \A k \in 1..m - 1 : e[k] = f[k]
  BY <1>2, PathPrefixIs
<1>4. e \in Sync!Above(f) \cup {f}
  <2>1. CASE m = Len(f) + 1
    <3>1. e = f
      BY <1>2, <1>3, <2>1, SeqEqual
    <3> QED BY <3>1
  <2>2. CASE m # Len(f) + 1
    <3>1. m \in DOMAIN f /\ f[m] = "/"
      BY <1>1, <1>2, <2>2
    <3> QED BY <3>1 DEF Sync!Above
  <2> QED BY <2>1, <2>2
<1> HIDE DEF e
<1>5. ASSUME NEW a \in Sync!Above(e)
      PROVE  Len(a) <= Len(d) /\ (Len(a) = Len(d) => a = d) /\ n # 0
  <2>1. PICK k \in 1..Len(e) : e[k] = "/" /\ a = SubSeq(e, 1, k - 1)
    <3>1. DOMAIN e = 1..Len(e)
      BY <1>3
    <3> QED BY <3>1 DEF Sync!Above
  <2>2. k \in 1..m - 1 /\ f[k] = "/"
    BY <1>3, <2>1
  <2>3. k <= n /\ n # 0
    BY <1>1, <1>2, <2>2
  <2>4. Len(a) = k - 1
    BY <1>3, <2>1, <2>2, <1>2, PathPrefixIs
  <2>5. Len(d) = n - 1
    BY <1>2, <2>3, PathPrefixIs
  <2>6. ASSUME k = n
        PROVE  a = d
    <3>1. a = SubSeq(SubSeq(f, 1, m - 1), 0 + 1, k - 1)
      BY <2>1 DEF e
    <3>2. k - 1 \in 0..m - 1 /\ 0 \in 0..m - 1 /\ 0 <= k - 1
      BY <1>2, <2>2
    <3>3. a = SubSeq(f, 0 + 1, k - 1)
      BY <1>2, <3>1, <3>2, PathPartIs
    <3> QED BY <2>3, <2>6, <3>3
  <2> QED BY <1>2, <2>2, <2>3, <2>4, <2>5, <2>6
<1>6. n # 0 => d \in Sync!Above(e)
  <2> SUFFICES ASSUME n # 0
               PROVE  d \in Sync!Above(e)
    OBVIOUS
  <2>1. n \in DOMAIN e /\ e[n] = "/"
    BY <1>2, <1>3
  <2>2. d = SubSeq(e, 1, n - 1)
    <3>1. n - 1 \in 0..m - 1 /\ 0 \in 0..m - 1 /\ 0 <= n - 1
      BY <1>2
    <3>2. SubSeq(SubSeq(f, 1, m - 1), 0 + 1, n - 1) = SubSeq(f, 0 + 1, n - 1)
      BY <1>2, <3>1, PathPartIs
    <3> QED BY <3>2 DEF e
  <2> QED BY <2>1, <2>2 DEF Sync!Above
<1>7. Sync!Parent(e) = d
  <2>1. d \in Sync!Above(e) \cup {<<>>} /\ \A a \in Sync!Above(e) : Len(a) <= Len(d)
    BY <1>5, <1>6
  <2>2. ASSUME NEW b \in Sync!Above(e) \cup {<<>>}, \A a \in Sync!Above(e) : Len(a) <= Len(b)
        PROVE  b = d
    <3>1. CASE n = 0
      BY <1>5, <2>2, <3>1
    <3>2. CASE n # 0
      <4>1. Len(d) <= Len(b) /\ Len(d) = n - 1
        <5>1. n - 1 \in 0..Len(f) /\ d = SubSeq(f, 1, n - 1)
          BY <1>2, <3>2
        <5>2. Len(d) = n - 1
          BY <5>1, PathPrefixIs
        <5> QED BY <1>6, <2>2, <3>2, <5>2
      <4>2. CASE b \in Sync!Above(e)
        <5>1. Len(b) <= Len(d)
          BY <1>5, <4>2
        <5>2. Len(b) \in Int
          BY <4>2, <1>3, PathPrefixIs DEF Sync!Above
        <5>3. Len(b) = Len(d)
          BY <1>2, <4>1, <5>1, <5>2
        <5> QED BY <1>5, <4>2, <5>3
      <4>3. CASE b = <<>>
        <5>1. Len(b) = 0
          BY <4>3
        <5>2. n = 1
          BY <1>2, <3>2, <4>1, <5>1
        <5>3. d = SubSeq(f, 1, 0)
          BY <5>2
        <5> QED BY <4>3, <5>3
      <4> QED BY <2>2, <4>2, <4>3
    <3> QED BY <3>1, <3>2
  <2> QED BY <2>1, <2>2, Zenon DEF Sync!Parent
<1> QED BY <1>4, <1>7

----------------------------------------------------------------------------
(* The tree of a sync.                                                     *)

LEMMA FinitenessIs == \A S : Sync!IsFiniteSet(S) <=> IsFiniteSet(S)
BY Zenon DEF Sync!IsFiniteSet, IsFiniteSet

LEMMA CardinalityIs == \A S : Sync!Cardinality(S) = Cardinality(S)
BY Zenon DEF Sync!Cardinality, Cardinality

LEMMA TreeIs ==
    /\ SyncFiles \subseteq Seq(SyncChars) /\ SyncDirs \subseteq Seq(SyncChars) /\ SyncPatterns \subseteq Seq(SyncChars)
    /\ "**" \notin SyncChars
    /\ IsFiniteSet(SyncFiles) /\ SyncFiles \cap SyncDirs = {}
    /\ \A e \in SyncFiles \cup SyncDirs : e # <<>> /\ Sync!Above(e) \subseteq SyncDirs
    /\ \A c \in SyncContents : c.size \in Nat
    /\ SyncMaxFiles \in Nat /\ SyncMaxFileBytes \in Nat /\ SyncMaxTotalBytes \in Nat
BY SyncAssumption, FinitenessIs DEF Sync!TreeAssumption

\* An entry on the way to a file: the file or a directory it is in.
OnWay(e, f) == e = f \/ e \in Sync!Above(f)

LEMMA RootLists ==
    ASSUME NEW f \in SyncFiles
    PROVE  \E e \in Sync!Children(<<>>) : OnWay(e, f)
<1>1. f \in Seq(SyncChars) /\ Sync!Above(f) \subseteq SyncDirs
  BY TreeIs
<1>2. 0 \in 0..Len(f)
  BY <1>1
<1>3. PICK e \in Sync!Above(f) \cup {f} : Sync!Parent(e) = <<>>
  BY <1>1, <1>2, NextBelow
<1> QED BY <1>1, <1>3 DEF OnWay, Sync!Children

LEMMA DirectoryLists ==
    ASSUME NEW f \in SyncFiles, NEW d \in Sync!Above(f)
    PROVE  \E e \in Sync!Children(d) : OnWay(e, f)
<1>1. f \in Seq(SyncChars) /\ Sync!Above(f) \subseteq SyncDirs
  BY TreeIs
<1>2. PICK n \in 1..Len(f) : f[n] = "/" /\ d = SubSeq(f, 1, n - 1)
  BY <1>1 DEF Sync!Above
<1>3. n \in 0..Len(f) /\ n # 0
  BY <1>1
<1>4. PICK e \in Sync!Above(f) \cup {f} : Sync!Parent(e) = d
  BY <1>1, <1>2, <1>3, NextBelow
<1> QED BY <1>1, <1>4 DEF OnWay, Sync!Children

LEMMA ExcludedIs ==
    ASSUME sExclude \in SyncPatterns, NEW e \in SyncFiles \cup SyncDirs
    PROVE  Sync!Excluded(e) <=> Sync!Covers(sExclude, e)
<1>1. sExclude \in Seq(SyncChars) /\ e \in Seq(SyncChars) /\ "**" \notin SyncChars
  BY TreeIs
<1>2. CASE sExclude = <<>>
  BY <1>2 DEF Sync!Excluded, Sync!Covers
<1>3. CASE sExclude # <<>>
  <2>1. Sync!GlobMatches(Sync!Tokens(sExclude), e) <=> Sync!Covers(sExclude, e)
    BY <1>1, <1>3, ExclusionIsExact
  <2> QED BY <1>3, <2>1 DEF Sync!Excluded
<1> QED BY <1>2, <1>3

----------------------------------------------------------------------------
(* The invariant of a sync.                                                *)

SyncTypes ==
    /\ sParams \in Sync!Params /\ sExclude \in SyncPatterns
    /\ sLocal \in [SyncFiles -> SyncContents \cup {Sync!Gone, Sync!Link}]
    /\ sRemote \in [SyncFiles -> SyncContents \cup {Sync!Gone}]
    /\ sBefore \in [SyncFiles -> SyncContents \cup {Sync!Gone}]
    /\ sHad \in [SyncFiles -> SUBSET (SyncContents \cup {Sync!Gone, Sync!Link})]
    /\ \A f \in SyncFiles : sLocal[f] \in sHad[f]
    /\ sTodo \subseteq SyncFiles \cup SyncDirs /\ sFiles \subseteq SyncFiles
    /\ sUploaded \subseteq sFiles /\ sSkipped \subseteq sFiles
    /\ sStagedBytes \in Nat

\* What is listed is not covered, and what is neither is below something that the scan has yet to read.
SyncListed ==
    /\ sPhase = "new" => sFiles = {}
    /\ \A f \in sFiles : ~Sync!Covers(sExclude, f)
    /\ sPhase = "scan" =>
         \A f \in SyncFiles : Sync!Covers(sExclude, f) \/ f \in sFiles \/ \E e \in sTodo : OnWay(e, f)
    /\ sPhase \in {"files", "staged", "upload", "done"} =>
         \A f \in SyncFiles : Sync!Covers(sExclude, f) \/ f \in sFiles

\* What is staged is a listed file that is not yet dealt with, as it has been during the sync.
SyncStaged ==
    /\ sPhase \in {"files", "staged", "upload"} \/ sUploaded # {} => ~sParams.dryRun
    /\ sPhase \in {"staged", "upload"} =>
         /\ sStaged.file \in sFiles /\ sStaged.file \notin sUploaded /\ sStaged.file \notin sSkipped
         /\ sStaged.content \in SyncContents /\ sStaged.content \in sHad[sStaged.file]
    /\ sPhase = "upload" => sStaged.content.size <= SyncMaxFileBytes
    /\ sPhase = "done" /\ ~sParams.dryRun => sFiles \subseteq sUploaded \cup sSkipped

\* Only what was uploaded differs from before.
SyncRemote ==
    /\ \A f \in SyncFiles : f \in sUploaded \/ sRemote[f] = sBefore[f]
    /\ \A f \in sUploaded : /\ sRemote[f].size <= SyncMaxFileBytes
                            /\ Sync!Above(f) \subseteq sRemoteDirs
                            /\ sParams.overwrite \/ sBefore[f] = Sync!Gone
    /\ \A f \in sUploaded \cup sSkipped : sRemote[f] \in sHad[f]

\* The bytes staged so far are at least the ones uploaded and the ones about to be.
Uploading == IF sPhase = "upload" THEN sStaged.content.size ELSE 0
SyncQuota ==
    /\ Cardinality(sFiles) <= SyncMaxFiles
    /\ sStagedBytes <= SyncMaxTotalBytes
    /\ IsFiniteSet(Sync!UploadedBytes)
    /\ Cardinality(Sync!UploadedBytes) + Uploading <= sStagedBytes

SyncInv == SyncTypes /\ SyncListed /\ SyncStaged /\ SyncRemote /\ SyncQuota

LEMMA SyncStarts ==
    ASSUME Sync!Init
    PROVE  SyncInv
<1>1. /\ sParams \in Sync!Params /\ sExclude \in SyncPatterns
      /\ sLocal \in [SyncFiles -> SyncContents \cup {Sync!Link}]
      /\ sRemote \in [SyncFiles -> SyncContents \cup {Sync!Gone}]
      /\ sPhase = "new" /\ sTodo = {} /\ sFiles = {} /\ sStagedBytes = 0
      /\ sUploaded = {} /\ sSkipped = {}
      /\ sBefore = sRemote /\ sHad = [f \in SyncFiles |-> {sLocal[f]}]
  BY DEF Sync!Init
<1>2. SyncTypes
  BY <1>1 DEF SyncTypes
<1>3. SyncListed
  BY <1>1 DEF SyncListed
<1>4. SyncStaged
  BY <1>1 DEF SyncStaged
<1>5. SyncRemote
  BY <1>1 DEF SyncRemote
<1>6. SyncQuota
  <2>1. Sync!UploadedBytes = {}
    BY <1>1 DEF Sync!UploadedBytes
  <2>2. IsFiniteSet({}) /\ Cardinality({}) = 0
    BY FS_EmptySet
  <2>3. Uploading = 0
    BY <1>1 DEF Uploading
  <2> QED BY <1>1, <2>1, <2>2, <2>3, TreeIs DEF SyncQuota
<1> QED BY <1>2, <1>3, <1>4, <1>5, <1>6 DEF SyncInv

\* What no step of the caller, of the scan and of the staging disturbs.
LEMMA SyncRemoteKept ==
    ASSUME SyncRemote, SyncTypes,
           UNCHANGED <<sParams, sRemote, sRemoteDirs, sUploaded, sSkipped, sBefore>>,
           \A f \in SyncFiles : sHad[f] \subseteq sHad'[f]
    PROVE  SyncRemote'
<1>1. \A f \in sUploaded \cup sSkipped : f \in SyncFiles
  BY DEF SyncTypes
<1>2. \A f \in sUploaded \cup sSkipped : sRemote'[f] \in sHad'[f]
  BY <1>1 DEF SyncRemote
<1> QED BY <1>2 DEF SyncRemote

LEMMA SyncQuotaKept ==
    ASSUME SyncQuota, sStagedBytes \in Nat,
           UNCHANGED <<sRemote, sUploaded, sFiles, sStagedBytes>>, Uploading' <= Uploading, Uploading' \in Nat,
           Uploading \in Nat
    PROVE  SyncQuota'
<1>1. Sync!UploadedBytes' = Sync!UploadedBytes
  BY DEF Sync!UploadedBytes, Sync!BytesOf
<1>2. Cardinality(Sync!UploadedBytes) \in Nat
  BY FS_CardinalityType DEF SyncQuota
<1>3. PICK c \in Nat : c = Cardinality(Sync!UploadedBytes)
  BY <1>2
<1>4. c + Uploading <= sStagedBytes
  BY <1>3 DEF SyncQuota
<1>5. c + Uploading' <= sStagedBytes
  <2>1. PICK u \in Nat, v \in Nat, b \in Nat : u = Uploading /\ v = Uploading' /\ b = sStagedBytes
    OBVIOUS
  <2>2. c + u <= b /\ v <= u
    BY <1>4, <2>1
  <2>3. c + v <= b
    BY <2>2
  <2> QED BY <2>1, <2>3
<1> QED BY <1>1, <1>3, <1>5 DEF SyncQuota

LEMMA SyncBegins ==
    ASSUME SyncInv, Sync!Begin
    PROVE  SyncInv'
<1>1. /\ sPhase = "new"
      /\ \/ sPhase' = "scan" /\ sTodo' = Sync!Children(<<>>)
         \/ sPhase' = "failed" /\ sTodo' = sTodo
      /\ UNCHANGED <<sParams, sExclude, sLocal, sRemote, sRemoteDirs, sFiles, sStagedBytes, sStaged, sUploaded,
                     sSkipped, sBefore, sHad>>
  BY DEF Sync!Begin, Sync!Fail
<1>2. SyncTypes'
  BY <1>1 DEF SyncInv, SyncTypes, Sync!Children
<1>3. SyncListed'
  <2>1. sPhase' = "scan" => \A f \in SyncFiles : \E e \in sTodo' : OnWay(e, f)
    BY <1>1, RootLists
  <2> QED BY <1>1, <2>1 DEF SyncInv, SyncListed
<1>4. SyncStaged'
  BY <1>1 DEF SyncInv, SyncStaged
<1>5. SyncRemote'
  BY <1>1, SyncRemoteKept DEF SyncInv
<1>6. SyncQuota'
  <2>1. Uploading = 0 /\ Uploading' = 0
    BY <1>1 DEF Uploading
  <2> QED BY <1>1, <2>1, SyncQuotaKept DEF SyncInv, SyncTypes
<1> QED BY <1>2, <1>3, <1>4, <1>5, <1>6 DEF SyncInv

LEMMA SyncVisits ==
    ASSUME SyncInv, NEW e \in SyncFiles \cup SyncDirs, Sync!Visit(e)
    PROVE  SyncInv'
<1>1. /\ sPhase = "scan" /\ e \in sTodo
      /\ UNCHANGED <<sParams, sExclude, sLocal, sRemote, sRemoteDirs, sStagedBytes, sStaged, sUploaded, sSkipped,
                     sBefore, sHad>>
  BY DEF Sync!Visit
<1>2. \/ sPhase' = "failed" /\ UNCHANGED <<sTodo, sFiles>>
      \/ /\ Sync!Excluded(e) /\ sTodo' = sTodo \ {e}
         /\ UNCHANGED <<sPhase, sFiles>>
      \/ /\ ~Sync!Excluded(e) /\ e \in SyncDirs /\ sTodo' = (sTodo \ {e}) \cup Sync!Children(e)
         /\ UNCHANGED <<sPhase, sFiles>>
      \/ /\ ~Sync!Excluded(e) /\ e \in SyncFiles /\ ~Sync!OverScanQuota(sLocal[e].size)
         /\ sTodo' = sTodo \ {e} /\ sFiles' = sFiles \cup {e} /\ sPhase' = sPhase
  BY DEF Sync!Visit, Sync!Fail
<1>3. Sync!Excluded(e) <=> Sync!Covers(sExclude, e)
  BY ExcludedIs DEF SyncInv, SyncTypes
<1>4. SyncTypes'
  BY <1>1, <1>2 DEF SyncInv, SyncTypes, Sync!Children
<1>5. SyncListed'
  <2>1. CASE sPhase' = "failed" /\ UNCHANGED <<sTodo, sFiles>>
    BY <1>1, <2>1 DEF SyncInv, SyncListed
  <2>2. CASE sPhase' = "scan"
    <3>1. \A f \in sFiles' : ~Sync!Covers(sExclude, f)
      BY <1>1, <1>2, <1>3, <2>2 DEF SyncInv, SyncListed
    <3>2. ASSUME NEW f \in SyncFiles, ~Sync!Covers(sExclude, f), f \notin sFiles'
          PROVE  \E a \in sTodo' : OnWay(a, f)
      <4>1. f \notin sFiles
        BY <1>2, <3>2
      <4>2. PICK a \in sTodo : OnWay(a, f)
        BY <1>1, <3>2, <4>1 DEF SyncInv, SyncListed
      <4>3. CASE a # e
        BY <1>2, <2>2, <4>2, <4>3
      <4>4. CASE a = e /\ e = f
        <5>1. e \notin SyncDirs
          BY <4>4, TreeIs
        <5> QED BY <1>2, <1>3, <2>2, <3>2, <4>4, <5>1
      <4>5. CASE a = e /\ e \in Sync!Above(f)
        <5>1. f \in Seq(SyncChars) /\ sExclude \in Seq(SyncChars) /\ e \in SyncDirs /\ e \notin SyncFiles
          BY <4>5, TreeIs DEF SyncInv, SyncTypes
        <5>2. ~Sync!Covers(sExclude, e)
          BY <3>2, <4>5, <5>1, CoversBelow
        <5>3. Sync!Children(e) \subseteq sTodo'
          BY <1>2, <1>3, <2>2, <5>1, <5>2
        <5> QED BY <4>5, <5>3, DirectoryLists
      <4> QED BY <4>2, <4>3, <4>4, <4>5 DEF OnWay
    <3> QED BY <1>1, <2>2, <3>1, <3>2 DEF SyncListed
  <2> QED BY <1>1, <1>2, <2>1, <2>2
<1>6. SyncStaged'
  BY <1>1, <1>2 DEF SyncInv, SyncStaged
<1>7. SyncRemote'
  BY <1>1, SyncRemoteKept DEF SyncInv
<1>8. SyncQuota'
  <2>1. Uploading = 0 /\ Uploading' = 0
    BY <1>1, <1>2 DEF Uploading
  <2>2. CASE sFiles' = sFiles
    BY <1>1, <2>1, <2>2, SyncQuotaKept DEF SyncInv, SyncTypes
  <2>3. CASE sFiles' = sFiles \cup {e} /\ ~Sync!OverScanQuota(sLocal[e].size)
    <3>1. IsFiniteSet(sFiles)
      BY TreeIs, FS_Subset DEF SyncInv, SyncTypes
    <3>2. Cardinality(sFiles) \in Nat /\ Cardinality(sFiles') <= Cardinality(sFiles) + 1
      <4>1. Cardinality(sFiles) \in Nat
        BY <3>1, FS_CardinalityType
      <4>2. Cardinality(sFiles') = IF e \in sFiles THEN Cardinality(sFiles) ELSE Cardinality(sFiles) + 1
        BY <2>3, <3>1, FS_AddElement
      <4> QED BY <4>1, <4>2
    <3>3. ~(Cardinality(sFiles) >= SyncMaxFiles)
      BY <2>3, CardinalityIs DEF Sync!OverScanQuota
    <3>4. Cardinality(sFiles') \in Nat
      BY <2>3, <3>1, FS_CardinalityType, FS_AddElement
    <3>5. Cardinality(sFiles') <= SyncMaxFiles
      BY <3>2, <3>3, <3>4, TreeIs
    <3>6. Sync!UploadedBytes' = Sync!UploadedBytes
      BY <1>1 DEF Sync!UploadedBytes, Sync!BytesOf
    <3> QED BY <1>1, <2>1, <3>5, <3>6 DEF SyncInv, SyncQuota
  <2> QED BY <1>2, <2>2, <2>3
<1> QED BY <1>4, <1>5, <1>6, <1>7, <1>8 DEF SyncInv

LEMMA SyncScanned ==
    ASSUME SyncInv, Sync!Scanned
    PROVE  SyncInv'
<1>1. /\ sPhase = "scan" /\ sTodo = {}
      /\ \/ sPhase' = "failed"
         \/ sPhase' = "done" /\ sParams.dryRun
         \/ sPhase' = "files" /\ ~sParams.dryRun
      /\ UNCHANGED <<sParams, sExclude, sLocal, sRemote, sRemoteDirs, sTodo, sFiles, sStagedBytes, sStaged, sUploaded,
                     sSkipped, sBefore, sHad>>
  BY DEF Sync!Scanned
<1>2. SyncTypes'
  BY <1>1 DEF SyncInv, SyncTypes
<1>3. SyncListed'
  BY <1>1 DEF SyncInv, SyncListed
<1>4. SyncStaged'
  BY <1>1 DEF SyncInv, SyncStaged
<1>5. SyncRemote'
  BY <1>1, SyncRemoteKept DEF SyncInv
<1>6. SyncQuota'
  <2>1. Uploading = 0 /\ Uploading' = 0
    BY <1>1 DEF Uploading
  <2> QED BY <1>1, <2>1, SyncQuotaKept DEF SyncInv, SyncTypes
<1> QED BY <1>2, <1>3, <1>4, <1>5, <1>6 DEF SyncInv

LEMMA SyncStages ==
    ASSUME SyncInv, NEW f \in SyncFiles, Sync!Stage(f)
    PROVE  SyncInv'
<1>1. /\ sPhase = "files" /\ f \in sFiles /\ f \notin sUploaded /\ f \notin sSkipped
      /\ \/ sPhase' = "failed"
         \/ /\ sLocal[f] \notin {Sync!Gone, Sync!Link}
            /\ sStaged' = [file |-> f, content |-> sLocal[f]] /\ sPhase' = "staged"
      /\ UNCHANGED <<sParams, sExclude, sLocal, sRemote, sRemoteDirs, sTodo, sFiles, sStagedBytes, sUploaded,
                     sSkipped, sBefore, sHad>>
  BY DEF Sync!Stage, Sync!Fail
<1>2. SyncTypes'
  BY <1>1 DEF SyncInv, SyncTypes
<1>3. SyncListed'
  BY <1>1 DEF SyncInv, SyncListed
<1>4. SyncStaged'
  <2>1. sPhase' = "staged" => sStaged'.file = f /\ sStaged'.content \in SyncContents /\ sStaged'.content \in sHad[f]
    BY <1>1 DEF SyncInv, SyncTypes
  <2> QED BY <1>1, <2>1 DEF SyncInv, SyncStaged
<1>5. SyncRemote'
  BY <1>1, SyncRemoteKept DEF SyncInv
<1>6. SyncQuota'
  <2>1. Uploading = 0 /\ Uploading' = 0
    BY <1>1 DEF Uploading
  <2> QED BY <1>1, <2>1, SyncQuotaKept DEF SyncInv, SyncTypes
<1> QED BY <1>2, <1>3, <1>4, <1>5, <1>6 DEF SyncInv

LEMMA SyncChecks ==
    ASSUME SyncInv, Sync!Check
    PROVE  SyncInv'
<1> DEFINE f == sStaged.file
           size == sStaged.content.size
<1>1. /\ sPhase = "staged"
      /\ UNCHANGED <<sParams, sExclude, sLocal, sRemote, sRemoteDirs, sTodo, sFiles, sUploaded, sBefore, sHad>>
  BY DEF Sync!Check
<1>2. \/ sPhase' = "failed" /\ UNCHANGED <<sStagedBytes, sSkipped>>
      \/ /\ ~Sync!OverStagedQuota(size) /\ sStagedBytes' = sStagedBytes + size
         /\ \/ sPhase' = "files" /\ sSkipped' = sSkipped \cup {f} /\ sRemote[f] = sStaged.content
            \/ sPhase' = "upload" /\ UNCHANGED <<sSkipped, sStaged>>
  BY DEF Sync!Check, Sync!Fail
<1>3. f \in sFiles /\ f \in SyncFiles /\ sStaged.content \in SyncContents /\ sStaged.content \in sHad[f] /\ size \in Nat
  BY <1>1, TreeIs DEF SyncInv, SyncTypes, SyncStaged
<1>4. ~Sync!OverStagedQuota(size) => size <= SyncMaxFileBytes /\ sStagedBytes + size <= SyncMaxTotalBytes
  <2> HIDE DEF size
  <2> QED BY <1>3, TreeIs DEF Sync!OverStagedQuota, SyncInv, SyncTypes
<1>5. SyncTypes'
  <2>1. sStagedBytes' \in Nat
    <3> HIDE DEF size
    <3> QED BY <1>2, <1>3 DEF SyncInv, SyncTypes
  <2> QED BY <1>1, <1>2, <1>3, <2>1 DEF SyncInv, SyncTypes
<1>6. SyncListed'
  BY <1>1, <1>2 DEF SyncInv, SyncListed
<1>7. SyncStaged'
  BY <1>1, <1>2, <1>4 DEF SyncInv, SyncStaged
<1>8. SyncRemote'
  <2>1. \A g \in sSkipped' : sRemote[g] \in sHad[g]
    BY <1>2, <1>3 DEF SyncInv, SyncRemote
  <2> QED BY <1>1, <2>1 DEF SyncInv, SyncRemote
<1>9. SyncQuota'
  <2>1. Sync!UploadedBytes' = Sync!UploadedBytes
    BY <1>1 DEF Sync!UploadedBytes, Sync!BytesOf
  <2>2. PICK c \in Nat, b \in Nat, z \in Nat : c = Cardinality(Sync!UploadedBytes) /\ b = sStagedBytes /\ z = size
    BY <1>3, FS_CardinalityType DEF SyncInv, SyncTypes, SyncQuota
  <2>3. Uploading = 0 /\ (sPhase' = "upload" => Uploading' = z) /\ (sPhase' # "upload" => Uploading' = 0)
    BY <1>1, <1>2, <2>2 DEF Uploading
  <2>4. c + 0 <= b /\ b <= SyncMaxTotalBytes
    BY <2>2, <2>3 DEF SyncInv, SyncQuota
  <2>5. sStagedBytes' <= SyncMaxTotalBytes
    BY <1>2, <1>4, <2>2, <2>4
  <2>6. c + Uploading' <= sStagedBytes'
    <3>1. CASE sPhase' = "failed"
      BY <1>2, <2>2, <2>3, <2>4, <3>1
    <3>2. CASE sPhase' = "files"
      <4>1. sStagedBytes' = b + z /\ Uploading' = 0
        BY <1>2, <2>2, <2>3, <3>2
      <4> QED BY <2>4, <4>1
    <3>3. CASE sPhase' = "upload"
      <4>1. sStagedBytes' = b + z /\ Uploading' = z
        BY <1>2, <2>2, <2>3, <3>3
      <4> QED BY <2>4, <4>1
    <3> QED BY <1>2, <3>1, <3>2, <3>3
  <2> QED BY <1>1, <2>1, <2>2, <2>5, <2>6 DEF SyncInv, SyncQuota
<1> QED BY <1>5, <1>6, <1>7, <1>8, <1>9 DEF SyncInv

\* A file that was not among the uploaded ones adds its own bytes to theirs.
LEMMA BytesAdded ==
    ASSUME SyncTypes, IsFiniteSet(Sync!UploadedBytes), NEW f \in SyncFiles, NEW c \in SyncContents, f \notin sUploaded,
           sRemote' = [sRemote EXCEPT ![f] = c], sUploaded' = sUploaded \cup {f}
    PROVE  /\ IsFiniteSet(Sync!UploadedBytes')
           /\ Cardinality(Sync!UploadedBytes') <= Cardinality(Sync!UploadedBytes) + c.size
<1> DEFINE B == {f} \X (1..c.size)
<1>1. sRemote'[f] = c /\ \A g \in sUploaded : sRemote'[g] = sRemote[g]
  BY DEF SyncTypes
<1>2. Sync!UploadedBytes' = Sync!UploadedBytes \cup B
  <2>1. Sync!UploadedBytes' = UNION {{g} \X (1..sRemote'[g].size) : g \in sUploaded \cup {f}}
    BY DEF Sync!UploadedBytes, Sync!BytesOf
  <2>2. \A x : x \in Sync!UploadedBytes' <=> \E g \in sUploaded \cup {f} : x \in {g} \X (1..sRemote'[g].size)
    BY <2>1
  <2>3. \A x : x \in Sync!UploadedBytes <=> \E g \in sUploaded : x \in {g} \X (1..sRemote[g].size)
    BY DEF Sync!UploadedBytes, Sync!BytesOf
  <2> HIDE DEF B
  <2>4. \A x : x \in {f} \X (1..sRemote'[f].size) <=> x \in B
    BY <1>1 DEF B
  <2>5. \A g \in sUploaded : {g} \X (1..sRemote'[g].size) = {g} \X (1..sRemote[g].size)
    BY <1>1
  <2>6. \A x : x \in Sync!UploadedBytes' <=> x \in Sync!UploadedBytes \/ x \in B
    BY <2>2, <2>3, <2>4, <2>5
  <2> QED BY <2>6
<1>3. c.size \in Nat
  BY TreeIs
<1>4. IsFiniteSet(B) /\ Cardinality(B) = c.size
  <2>1. IsFiniteSet({f}) /\ Cardinality({f}) = 1
    BY FS_Singleton
  <2>2. IsFiniteSet(1..c.size) /\ Cardinality(1..c.size) = c.size
    <3>1. 1 \in Int /\ c.size \in Int
      BY <1>3
    <3>2. IsFiniteSet(1..c.size) /\ Cardinality(1..c.size) = IF 1 > c.size THEN 0 ELSE c.size - 1 + 1
      BY <3>1, FS_Interval
    <3> QED BY <1>3, <3>2
  <2>3. IsFiniteSet(B) /\ Cardinality(B) = Cardinality({f}) * Cardinality(1..c.size)
    BY <2>1, <2>2, FS_Product
  <2>4. Cardinality(B) = 1 * c.size
    BY <2>1, <2>2, <2>3
  <2> QED BY <1>3, <2>3, <2>4
<1> HIDE DEF B
<1>5. IsFiniteSet(Sync!UploadedBytes \cup B)
      /\ Cardinality(Sync!UploadedBytes \cup B)
           = Cardinality(Sync!UploadedBytes) + Cardinality(B) - Cardinality(Sync!UploadedBytes \cap B)
  BY <1>4, FS_Union
<1>6. Cardinality(Sync!UploadedBytes \cap B) \in Nat
  <2>1. Sync!UploadedBytes \cap B \in SUBSET B
    OBVIOUS
  <2>2. IsFiniteSet(Sync!UploadedBytes \cap B)
    BY <1>4, <2>1, FS_Subset
  <2> QED BY <2>2, FS_CardinalityType
<1>7. Cardinality(Sync!UploadedBytes) \in Nat
  BY FS_CardinalityType
<1>8. Cardinality(Sync!UploadedBytes \cup B) <= Cardinality(Sync!UploadedBytes) + c.size
  BY <1>3, <1>4, <1>5, <1>6, <1>7
<1> QED BY <1>2, <1>5, <1>8

LEMMA SyncUploads ==
    ASSUME SyncInv, Sync!Upload
    PROVE  SyncInv'
<1> DEFINE f == sStaged.file
           c == sStaged.content
<1>1. /\ sPhase = "upload"
      /\ UNCHANGED <<sParams, sExclude, sLocal, sTodo, sFiles, sStagedBytes, sSkipped, sBefore, sHad>>
      /\ sRemoteDirs \subseteq sRemoteDirs'
      /\ \/ sPhase' = "failed" /\ UNCHANGED <<sRemote, sUploaded>>
         \/ /\ sParams.overwrite \/ sRemote[f] = Sync!Gone
            /\ Sync!Above(f) \subseteq sRemoteDirs'
            /\ sRemote' = [sRemote EXCEPT ![f] = c] /\ sUploaded' = sUploaded \cup {f} /\ sPhase' = "files"
  BY DEF Sync!Upload, Sync!Fail
<1>2. /\ f \in sFiles /\ f \in SyncFiles /\ f \notin sUploaded
      /\ c \in SyncContents /\ c \in sHad[f] /\ c.size \in Nat /\ c.size <= SyncMaxFileBytes
  BY <1>1, TreeIs DEF SyncInv, SyncTypes, SyncStaged
<1> HIDE DEF f, c
<1>3. sRemote \in [SyncFiles -> SyncContents \cup {Sync!Gone}]
  BY DEF SyncInv, SyncTypes
<1>4. SyncTypes'
  BY <1>1, <1>2 DEF SyncInv, SyncTypes
<1>5. SyncListed'
  BY <1>1 DEF SyncInv, SyncListed
<1>6. SyncStaged'
  BY <1>1 DEF SyncInv, SyncStaged
<1>7. SyncRemote'
  <2>1. CASE UNCHANGED <<sRemote, sUploaded>>
    BY <1>1, <2>1 DEF SyncInv, SyncRemote
  <2>2. CASE /\ sParams.overwrite \/ sRemote[f] = Sync!Gone
             /\ Sync!Above(f) \subseteq sRemoteDirs'
             /\ sRemote' = [sRemote EXCEPT ![f] = c] /\ sUploaded' = sUploaded \cup {f}
    <3>1. sRemote'[f] = c /\ \A g \in SyncFiles : g # f => sRemote'[g] = sRemote[g]
      BY <1>2, <1>3, <2>2
    <3>2. sRemote[f] = sBefore[f]
      BY <1>2 DEF SyncInv, SyncRemote
    <3>3. \A g \in SyncFiles : g \in sUploaded' \/ sRemote'[g] = sBefore[g]
      BY <2>2, <3>1 DEF SyncInv, SyncRemote
    <3>4. sUploaded \subseteq SyncFiles /\ sSkipped \subseteq SyncFiles
      BY DEF SyncInv, SyncTypes
    <3>5. \A g \in sUploaded' : /\ sRemote'[g].size <= SyncMaxFileBytes
                                /\ Sync!Above(g) \subseteq sRemoteDirs'
                                /\ sParams.overwrite \/ sBefore[g] = Sync!Gone
      BY <1>1, <1>2, <2>2, <3>1, <3>2, <3>4 DEF SyncInv, SyncRemote
    <3>6. \A g \in sUploaded' \cup sSkipped : sRemote'[g] \in sHad[g]
      BY <1>2, <2>2, <3>1, <3>4 DEF SyncInv, SyncRemote
    <3> QED BY <1>1, <3>3, <3>5, <3>6 DEF SyncRemote
  <2> QED BY <1>1, <2>1, <2>2
<1>8. SyncQuota'
  <2>1. Uploading = c.size /\ Uploading' = 0
    BY <1>1 DEF Uploading, c
  <2>2. CASE UNCHANGED <<sRemote, sUploaded>>
    BY <1>1, <1>2, <2>1, <2>2, SyncQuotaKept DEF SyncInv, SyncTypes
  <2>3. CASE sRemote' = [sRemote EXCEPT ![f] = c] /\ sUploaded' = sUploaded \cup {f}
    <3>1. /\ IsFiniteSet(Sync!UploadedBytes')
          /\ Cardinality(Sync!UploadedBytes') <= Cardinality(Sync!UploadedBytes) + c.size
      BY <1>2, <2>3, BytesAdded DEF SyncInv, SyncQuota
    <3>2. PICK x \in Nat, y \in Nat, b \in Nat :
            x = Cardinality(Sync!UploadedBytes) /\ y = Cardinality(Sync!UploadedBytes') /\ b = sStagedBytes
      BY <3>1, FS_CardinalityType DEF SyncInv, SyncTypes, SyncQuota
    <3>3. y <= x + c.size /\ x + c.size <= b
      BY <2>1, <3>1, <3>2 DEF SyncInv, SyncQuota
    <3>4. y + 0 <= b
      BY <1>2, <3>3
    <3> QED BY <1>1, <2>1, <3>1, <3>2, <3>4 DEF SyncInv, SyncQuota
  <2> QED BY <1>1, <2>2, <2>3
<1> QED BY <1>4, <1>5, <1>6, <1>7, <1>8 DEF SyncInv

LEMMA SyncEnds ==
    ASSUME SyncInv, Sync!Synced
    PROVE  SyncInv'
<1>1. /\ sPhase = "files" /\ sFiles = sUploaded \cup sSkipped /\ sPhase' = "done"
      /\ UNCHANGED <<sParams, sExclude, sLocal, sRemote, sRemoteDirs, sTodo, sFiles, sStagedBytes, sStaged, sUploaded,
                     sSkipped, sBefore, sHad>>
  BY DEF Sync!Synced
<1>2. SyncTypes'
  BY <1>1 DEF SyncInv, SyncTypes
<1>3. SyncListed'
  BY <1>1 DEF SyncInv, SyncListed
<1>4. SyncStaged'
  BY <1>1 DEF SyncInv, SyncStaged
<1>5. SyncRemote'
  BY <1>1, SyncRemoteKept DEF SyncInv
<1>6. SyncQuota'
  <2>1. Uploading = 0 /\ Uploading' = 0
    BY <1>1 DEF Uploading
  <2> QED BY <1>1, <2>1, SyncQuotaKept DEF SyncInv, SyncTypes
<1> QED BY <1>2, <1>3, <1>4, <1>5, <1>6 DEF SyncInv

LEMMA UploadingType ==
    ASSUME SyncInv
    PROVE  Uploading \in Nat
BY TreeIs DEF SyncInv, SyncStaged, Uploading

\* A local file may change at any time: what the sync has seen stays.
LEMMA SyncSeesChange ==
    ASSUME SyncInv, NEW f \in SyncFiles, Sync!LocalChanges(f)
    PROVE  SyncInv'
<1>1. PICK c \in SyncContents \cup {Sync!Gone, Sync!Link} :
        sLocal' = [sLocal EXCEPT ![f] = c] /\ sHad' = [sHad EXCEPT ![f] = @ \cup {c}]
  BY DEF Sync!LocalChanges
<1>2. UNCHANGED <<sParams, sExclude, sRemote, sRemoteDirs, sPhase, sTodo, sFiles, sStagedBytes, sStaged, sUploaded,
                  sSkipped, sBefore>>
  BY DEF Sync!LocalChanges
<1>3. \A g \in SyncFiles : sHad[g] \subseteq sHad'[g]
  BY <1>1 DEF SyncInv, SyncTypes
<1>4. SyncTypes'
  <2>1. sLocal' \in [SyncFiles -> SyncContents \cup {Sync!Gone, Sync!Link}]
    BY <1>1 DEF SyncInv, SyncTypes
  <2>2. sHad' \in [SyncFiles -> SUBSET (SyncContents \cup {Sync!Gone, Sync!Link})]
    BY <1>1 DEF SyncInv, SyncTypes
  <2>3. \A g \in SyncFiles : sLocal'[g] \in sHad'[g]
    BY <1>1 DEF SyncInv, SyncTypes
  <2> QED BY <1>2, <2>1, <2>2, <2>3 DEF SyncInv, SyncTypes
<1>5. SyncListed'
  BY <1>2 DEF SyncInv, SyncListed
<1>6. SyncStaged'
  <2>1. sPhase \in {"staged", "upload"} => sStaged.file \in SyncFiles
    BY DEF SyncInv, SyncTypes, SyncStaged
  <2>2. sPhase \in {"staged", "upload"} => sStaged.content \in sHad'[sStaged.file]
    BY <1>3, <2>1 DEF SyncInv, SyncStaged
  <2> QED BY <1>2, <2>2 DEF SyncInv, SyncStaged
<1>7. SyncRemote'
  BY <1>2, <1>3, SyncRemoteKept DEF SyncInv
<1>8. SyncQuota'
  <2>1. Uploading' = Uploading /\ Uploading \in Nat
    BY <1>2, UploadingType DEF Uploading
  <2> QED BY <1>2, <2>1, SyncQuotaKept DEF SyncInv, SyncTypes
<1> QED BY <1>4, <1>5, <1>6, <1>7, <1>8 DEF SyncInv

\* An abort and a step of another part change nothing that the invariant speaks of.
LEMMA SyncUndisturbed ==
    ASSUME SyncInv,
           UNCHANGED <<sParams, sExclude, sLocal, sRemote, sRemoteDirs, sPhase, sTodo, sFiles, sStagedBytes, sStaged,
                       sUploaded, sSkipped, sBefore, sHad>>
    PROVE  SyncInv'
<1>1. SyncTypes' /\ SyncListed' /\ SyncStaged' /\ SyncRemote'
  BY DEF SyncInv, SyncTypes, SyncListed, SyncStaged, SyncRemote
<1>2. Uploading' = Uploading /\ Uploading \in Nat
  BY UploadingType DEF Uploading
<1>3. SyncQuota'
  BY <1>2, SyncQuotaKept DEF SyncInv, SyncTypes
<1> QED BY <1>1, <1>3 DEF SyncInv

LEMMA SyncSteps ==
    ASSUME SyncInv, [Sync!Next]_syncVars
    PROVE  SyncInv'
<1>1. CASE Sync!Begin
  BY <1>1, SyncBegins
<1>2. CASE Sync!Scanned
  BY <1>2, SyncScanned
<1>3. CASE Sync!Check
  BY <1>3, SyncChecks
<1>4. CASE Sync!Upload
  BY <1>4, SyncUploads
<1>5. CASE Sync!Synced
  BY <1>5, SyncEnds
<1>6. CASE Sync!Abort
  BY <1>6, SyncUndisturbed DEF Sync!Abort
<1>7. CASE \E e \in SyncFiles \cup SyncDirs : Sync!Visit(e)
  BY <1>7, SyncVisits
<1>8. CASE \E f \in SyncFiles : Sync!Stage(f)
  BY <1>8, SyncStages
<1>9. CASE \E f \in SyncFiles : Sync!LocalChanges(f)
  BY <1>9, SyncSeesChange
<1>10. CASE UNCHANGED syncVars
  BY <1>10, SyncUndisturbed DEF syncVars
<1> QED BY <1>1, <1>2, <1>3, <1>4, <1>5, <1>6, <1>7, <1>8, <1>9, <1>10 DEF Sync!Next

LEMMA SyncInvImplies ==
    ASSUME SyncInv
    PROVE  SyncAsAsked
<1>1. Sync!SyncComplete
  <2> SUFFICES ASSUME sPhase = "done"
               PROVE  /\ sFiles = {f \in SyncFiles : ~Sync!Covers(sExclude, f)}
                      /\ ~sParams.dryRun => \A f \in sFiles : sRemote[f] \in sHad[f]
    BY DEF Sync!SyncComplete
  <2>1. sFiles = {f \in SyncFiles : ~Sync!Covers(sExclude, f)}
    BY DEF SyncInv, SyncTypes, SyncListed
  <2>2. ~sParams.dryRun => \A f \in sFiles : sRemote[f] \in sHad[f]
    BY DEF SyncInv, SyncStaged, SyncRemote
  <2> QED BY <2>1, <2>2
<1>2. Sync!SyncBounded
  <2>1. Sync!Cardinality(sUploaded) <= SyncMaxFiles
    <3>1. IsFiniteSet(sFiles) /\ sUploaded \in SUBSET sFiles
      BY TreeIs, FS_Subset DEF SyncInv, SyncTypes
    <3>2. IsFiniteSet(sUploaded) /\ Cardinality(sUploaded) <= Cardinality(sFiles)
      BY <3>1, FS_Subset
    <3>3. Cardinality(sUploaded) \in Nat /\ Cardinality(sFiles) \in Nat /\ Cardinality(sFiles) <= SyncMaxFiles
      BY <3>1, <3>2, FS_CardinalityType DEF SyncInv, SyncQuota
    <3>4. Cardinality(sUploaded) <= SyncMaxFiles
      BY <3>2, <3>3, TreeIs
    <3> QED BY <3>4, CardinalityIs
  <2>2. Sync!Cardinality(Sync!UploadedBytes) <= SyncMaxTotalBytes
    <3>1. PICK x \in Nat, u \in Nat, b \in Nat :
            x = Cardinality(Sync!UploadedBytes) /\ u = Uploading /\ b = sStagedBytes
      BY UploadingType, FS_CardinalityType DEF SyncInv, SyncTypes, SyncQuota
    <3>2. x + u <= b /\ b <= SyncMaxTotalBytes
      BY <3>1 DEF SyncInv, SyncQuota
    <3>3. x <= SyncMaxTotalBytes
      BY <3>2, TreeIs
    <3> QED BY <3>1, <3>3, CardinalityIs
  <2>3. \A f \in SyncFiles : sRemote[f] # sBefore[f] =>
          f \in sFiles /\ ~sParams.dryRun /\ (sParams.overwrite \/ sBefore[f] = Sync!Gone)
    BY DEF SyncInv, SyncTypes, SyncStaged, SyncRemote
  <2>4. \A f \in sUploaded : sRemote[f].size <= SyncMaxFileBytes /\ Sync!Above(f) \subseteq sRemoteDirs
    BY DEF SyncInv, SyncRemote
  <2> QED BY <2>1, <2>2, <2>3, <2>4 DEF Sync!SyncBounded
<1> QED BY <1>1, <1>2 DEF SyncAsAsked

\* For every tree, every exclusion pattern and every set of quotas, whatever the local files become and whenever the
\* caller aborts: what TransferService.#sync lists is what no pattern covers, and what it uploads stays within the
\* quotas and is what the local file was at some time.
THEOREM AnySyncIsAsAsked == Sync!Spec => []SyncAsAsked
<1>1. SyncInv /\ [Sync!Next]_syncVars => SyncInv'
  BY SyncSteps
<1>2. Sync!Init => SyncInv
  BY SyncStarts
<1>3. SyncInv => SyncAsAsked
  BY SyncInvImplies
<1>4. SyncInv /\ [Sync!Next]_(Sync!vars) => SyncInv'
  BY <1>1 DEF Sync!vars, syncVars
<1> QED BY <1>2, <1>3, <1>4, PTL DEF Sync!Spec

\* The same of the sync that runs beside the other transfers, on the tree that is checked or any other.
THEOREM SyncIsAsAsked == AllSpec => []SyncAsAsked
<1>1. AllInit => SyncInv
  BY SyncStarts DEF AllInit, SyncInit
<1>2. SyncInv /\ [AllNext]_allVars => SyncInv'
  BY StepOfParts, SyncSteps
<1>3. SyncInv => SyncAsAsked
  BY SyncInvImplies
<1> QED BY <1>1, <1>2, <1>3, PTL DEF AllSpec
=============================================================================
