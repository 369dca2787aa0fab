------------------------- MODULE AccessClientSession -------------------------
(***************************************************************************)
(* Preparation of a shared PuTTY session:                                  *)
(* ManagedAccessClientSessionPreparer of src/test-ui/accessclient-         *)
(* session.ts.  One preparation at a time replaces PuTTY's LogHost         *)
(* setting by a temporary value, watches for a new PuTTY process, and puts *)
(* the setting back when the session was verified or rejected, on timeout, *)
(* on cancel and on close; a recovery marker written first lets the next   *)
(* start of the service put it back after a crash.                         *)
(*                                                                         *)
(* Every await of the code is a step boundary: the reg.exe and             *)
(* tasklist.exe calls of the monitor, of verify and of #finish interleave. *)
(* The process list is what it is when tasklist returns.                   *)
(***************************************************************************)
EXTENDS Naturals, FiniteSets

CONSTANTS MaxPreps,     \* bound: preparations armed
          MaxPutty,     \* bound: PuTTY processes started
          MaxFailures,  \* bound: helper commands that fail
          MaxCrashes    \* bound: losses of the service

ASSUME SessionAssumption == MaxPreps \in Nat

VARIABLES registry,   \* LogHost: "previous" or "user" (somebody's own value), or "temporary"
          marker,     \* the recovery marker: the value to put back, or NoMarker
          serviceUp,  \* "down", "recovering" or "up"
          closing,    \* #closed
          snapshot,   \* #snapshot.state
          active,     \* #active, as the number of the preparation
          arming,     \* #armPromise: "idle", "marker" or "registry"
          armValue,   \* the previous value #arm read
          preps,      \* candidate, stopped and monitor of each preparation
          armed,      \* preparations armed so far
          expired,    \* the deadline of the active preparation has passed
          restore,    \* #restoreMarker in progress: for whom, and its next call
          ending,     \* the state #finish reports
          verifying,  \* the preparation a verify call captured before its await
          running,    \* PuTTY processes running
          started,    \* PuTTY processes started so far
          unrestored, \* the last restoration failed (bookkeeping for the properties)
          failures, crashes

sessionVars == <<registry, marker, serviceUp, closing, snapshot, active, arming, armValue, preps, armed, expired,
                 restore, ending, verifying, running, started, unrestored, failures, crashes>>

Preps == 1 .. MaxPreps
NoMarker == "none"
NoPrep == 0
NoProcess == 0
FreshPrep == [candidate |-> NoProcess, seen |-> {}, stopped |-> FALSE, monitor |-> "off"]
NotRestoring == [for |-> "nobody", next |-> "none"]
HelperFails == failures < MaxFailures /\ failures' = failures + 1
PreparationIsActive == snapshot \in {"armed", "detected"}

InitSession ==
    /\ registry = "previous" /\ marker = NoMarker
    /\ serviceUp = "up" /\ closing = FALSE
    /\ snapshot = "idle" /\ active = NoPrep
    /\ arming = "idle" /\ armValue = NoMarker
    /\ preps = [p \in Preps |-> FreshPrep] /\ armed = 0 /\ expired = FALSE
    /\ restore = NotRestoring /\ ending = "idle"
    /\ verifying = NoPrep
    /\ running = {} /\ started = 0
    /\ unrestored = FALSE /\ failures = 0 /\ crashes = 0

-----------------------------------------------------------------------------
\* #finish: only the first caller's outcome counts.
FinishFields(p, state) ==
    IF preps[p].stopped THEN UNCHANGED <<preps, restore, ending>>
    ELSE /\ preps' = [preps EXCEPT ![p].stopped = TRUE]
         /\ restore' = [for |-> "finish", next |-> "read"]
         /\ ending' = state

\* prepare: baseline and previous value are read, then the marker is linked into place.
PrepareSession ==
    /\ serviceUp = "up" /\ ~closing
    /\ active = NoPrep /\ arming = "idle"
    /\ armed < MaxPreps
    /\ armed' = armed + 1
    /\ arming' = "marker"
    /\ armValue' = registry
    /\ preps' = [preps EXCEPT ![armed + 1].seen = running]
    /\ UNCHANGED <<registry, marker, serviceUp, closing, snapshot, active, expired, restore, ending, verifying,
                   running, started, failures, crashes, unrestored>>

\* Listing the processes or reading the setting failed.
PrepareFails ==
    /\ serviceUp = "up" /\ ~closing
    /\ active = NoPrep /\ arming = "idle"
    /\ armed < MaxPreps /\ armed' = armed + 1
    /\ HelperFails
    /\ UNCHANGED <<registry, marker, serviceUp, closing, snapshot, active, arming, armValue, preps, expired,
                   restore, ending, verifying, running, started, crashes, unrestored>>

\* The link refuses to replace a marker that is already there.
WriteMarker ==
    /\ arming = "marker" /\ serviceUp = "up"
    /\ IF marker = NoMarker THEN marker' = armValue /\ arming' = "registry"
                            ELSE arming' = "idle" /\ UNCHANGED marker
    /\ armValue' = NoMarker
    /\ UNCHANGED <<registry, serviceUp, closing, snapshot, active, preps, armed, expired, restore, ending,
                   verifying, running, started, failures, crashes, unrestored>>

\* Nothing was linked: the link is the last of the file operations.
MarkerFails ==
    /\ arming = "marker" /\ serviceUp = "up"
    /\ HelperFails
    /\ arming' = "idle" /\ armValue' = NoMarker
    /\ UNCHANGED <<registry, marker, serviceUp, closing, snapshot, active, preps, armed, expired, restore, ending,
                   verifying, running, started, crashes, unrestored>>

\* The setting is replaced and the preparation becomes the active one; the monitor starts unless the service closes.
Arm ==
    /\ arming = "registry" /\ serviceUp = "up" /\ restore = NotRestoring
    /\ registry' = "temporary"
    /\ arming' = "idle"
    /\ active' = armed
    /\ snapshot' = "armed"
    /\ expired' = FALSE
    /\ IF closing
       THEN /\ preps' = [preps EXCEPT ![armed].stopped = TRUE]
            /\ restore' = [for |-> "finish", next |-> "read"]
            /\ ending' = "cancelled"
       ELSE /\ preps' = [preps EXCEPT ![armed].monitor = "loop"]
            /\ UNCHANGED <<restore, ending>>
    /\ UNCHANGED <<marker, serviceUp, closing, armValue, armed, verifying, running, started, failures, crashes, unrestored>>

\* Replacing the setting failed, perhaps after it took effect: the marker is undone.
ArmFails ==
    /\ arming = "registry" /\ serviceUp = "up" /\ restore = NotRestoring
    /\ HelperFails
    /\ registry' \in {registry, "temporary"}
    /\ restore' = [for |-> "arm", next |-> "read"]
    /\ UNCHANGED <<marker, serviceUp, closing, snapshot, active, arming, armValue, preps, armed, expired, ending,
                   verifying, running, started, crashes, unrestored>>

-----------------------------------------------------------------------------
\* Mutant: the monitor does not look at the deadline.
MonitorLoopForever(p) ==
    /\ serviceUp = "up" /\ preps[p].monitor = "loop"
    /\ preps' = [preps EXCEPT ![p].monitor = IF preps[p].stopped THEN "off" ELSE "listing"]
    /\ UNCHANGED <<registry, marker, serviceUp, closing, snapshot, active, arming, armValue, armed, expired,
                   restore, ending, verifying, running, started, failures, crashes, unrestored>>

\* #monitor: the deadline is looked at first, then the processes are listed.
MonitorLoop(p) ==
    /\ serviceUp = "up" /\ preps[p].monitor = "loop"
    /\ IF preps[p].stopped
       THEN preps' = [preps EXCEPT ![p].monitor = "off"] /\ UNCHANGED <<restore, ending>>
       ELSE IF expired
       THEN /\ preps' = [preps EXCEPT ![p].monitor = "off", ![p].stopped = TRUE]
            /\ restore' = [for |-> "finish", next |-> "read"]
            /\ ending' = "timed-out"
       ELSE preps' = [preps EXCEPT ![p].monitor = "listing"] /\ UNCHANGED <<restore, ending>>
    /\ UNCHANGED <<registry, marker, serviceUp, closing, snapshot, active, arming, armValue, armed, expired,
                   verifying, running, started, failures, crashes, unrestored>>

\* #resetCandidate, also used by verify.
ResetFields(p, monitor) ==
    /\ preps' = [preps EXCEPT ![p].candidate = NoProcess, ![p].monitor = monitor]
    /\ snapshot' = "armed"

MonitorListed(p) ==
    /\ serviceUp = "up" /\ preps[p].monitor = "listing"
    /\ LET new == running \ preps[p].seen
           c == preps[p].candidate
       IN  \/ /\ preps[p].stopped \/ active # p
              /\ preps' = [preps EXCEPT ![p].monitor = "off"] /\ UNCHANGED snapshot
           \/ /\ ~preps[p].stopped /\ active = p
              /\ c # NoProcess /\ c \notin running
              /\ ResetFields(p, "loop")
           \/ /\ ~preps[p].stopped /\ active = p
              /\ (c # NoProcess /\ c \in running) \/ (c = NoProcess /\ new = {})
              /\ preps' = [preps EXCEPT ![p].monitor = "loop"] /\ UNCHANGED snapshot
           \/ /\ ~preps[p].stopped /\ active = p
              /\ c = NoProcess
              /\ \E q \in new :
                    preps' = [preps EXCEPT ![p].monitor = "loop", ![p].candidate = q, ![p].seen = @ \cup {q}]
              /\ snapshot' = "detected"
    /\ UNCHANGED <<registry, marker, serviceUp, closing, active, arming, armValue, armed, expired, restore, ending,
                   verifying, running, started, failures, crashes, unrestored>>

MonitorFails(p) ==
    /\ serviceUp = "up" /\ preps[p].monitor = "listing"
    /\ HelperFails
    /\ IF preps[p].stopped
       THEN preps' = [preps EXCEPT ![p].monitor = "off"] /\ UNCHANGED <<restore, ending>>
       ELSE /\ preps' = [preps EXCEPT ![p].monitor = "off", ![p].stopped = TRUE]
            /\ restore' = [for |-> "finish", next |-> "read"]
            /\ ending' = "error"
    /\ UNCHANGED <<registry, marker, serviceUp, closing, snapshot, active, arming, armValue, armed, expired,
                   verifying, running, started, crashes, unrestored>>

\* verify: the active preparation is captured, the processes are listed, then the outcome is applied to it.
VerifyBegin ==
    /\ serviceUp = "up" /\ verifying = NoPrep
    /\ active # NoPrep
    /\ preps[active].candidate # NoProcess /\ snapshot = "detected"
    /\ verifying' = active
    /\ UNCHANGED <<registry, marker, serviceUp, closing, snapshot, active, arming, armValue, preps, armed, expired,
                   restore, ending, running, started, failures, crashes, unrestored>>

VerifyEnd ==
    /\ serviceUp = "up" /\ verifying # NoPrep
    /\ verifying' = NoPrep
    /\ IF preps[verifying].candidate \in running
       THEN FinishFields(verifying, "ready") /\ UNCHANGED snapshot
       ELSE ResetFields(verifying, preps[verifying].monitor) /\ UNCHANGED <<restore, ending>>
    /\ UNCHANGED <<registry, marker, serviceUp, closing, active, arming, armValue, armed, expired, running, started,
                   failures, crashes, unrestored>>

VerifyFails ==
    /\ serviceUp = "up" /\ verifying # NoPrep
    /\ HelperFails
    /\ verifying' = NoPrep
    /\ UNCHANGED <<registry, marker, serviceUp, closing, snapshot, active, arming, armValue, preps, armed, expired,
                   restore, ending, running, started, crashes, unrestored>>

\* reject (the session reached another machine) and cancel; cancel waits for a preparation that is being armed.
RejectSession == /\ serviceUp = "up" /\ active # NoPrep
                 /\ FinishFields(active, "error")
                 /\ UNCHANGED <<registry, marker, serviceUp, closing, snapshot, active, arming, armValue, armed,
                                expired, verifying, running, started, failures, crashes, unrestored>>
CancelSession == /\ serviceUp = "up" /\ arming = "idle" /\ active # NoPrep
                 /\ ~preps[active].stopped
                 /\ FinishFields(active, "cancelled")
                 /\ UNCHANGED <<registry, marker, serviceUp, closing, snapshot, active, arming, armValue, armed,
                                expired, verifying, running, started, failures, crashes, unrestored>>

\* close: no more preparations; the active one is finished.
CloseSession == /\ serviceUp = "up"
                /\ closing' = TRUE
                /\ UNCHANGED <<registry, marker, serviceUp, snapshot, active, arming, armValue, preps, armed, expired,
                               restore, ending, verifying, running, started, failures, crashes, unrestored>>
CloseFinishes == /\ serviceUp = "up" /\ closing /\ arming = "idle" /\ active # NoPrep
                 /\ ~preps[active].stopped
                 /\ FinishFields(active, "cancelled")
                 /\ UNCHANGED <<registry, marker, serviceUp, closing, snapshot, active, arming, armValue, armed,
                                expired, verifying, running, started, failures, crashes, unrestored>>

-----------------------------------------------------------------------------
(***************************************************************************)
(* #restoreMarker: the setting is put back only if it was read back as the *)
(* temporary value, then the marker goes.                                  *)
(***************************************************************************)
RestoreRead ==
    /\ restore.next = "read"
    /\ restore' = [restore EXCEPT !.next = IF registry = "temporary" THEN "write" ELSE "marker"]
    /\ UNCHANGED <<registry, marker, serviceUp, closing, snapshot, active, arming, armValue, preps, armed, expired,
                   ending, verifying, running, started, failures, crashes, unrestored>>
RestoreWrite ==
    /\ restore.next = "write"
    /\ registry' = marker
    /\ restore' = [restore EXCEPT !.next = "marker"]
    /\ UNCHANGED <<marker, serviceUp, closing, snapshot, active, arming, armValue, preps, armed, expired, ending,
                   verifying, running, started, failures, crashes, unrestored>>

\* Whoever asked for the restoration goes on.
Restored(ok) ==
    CASE restore.for = "finish" ->
            /\ snapshot' = IF ok THEN ending ELSE "error"
            /\ active' = NoPrep
            /\ UNCHANGED <<arming, closing, serviceUp>>
      [] restore.for = "arm" ->
            /\ arming' = "idle"
            /\ closing' = (closing \/ ~ok)
            /\ snapshot' = IF ok THEN snapshot ELSE "error"
            /\ UNCHANGED <<active, serviceUp>>
      [] OTHER ->
            /\ serviceUp' = IF ok THEN "up" ELSE "down"
            /\ UNCHANGED <<snapshot, active, arming, closing>>

RestoreMarker ==
    /\ restore.next = "marker"
    /\ marker' = NoMarker
    /\ restore' = NotRestoring
    /\ unrestored' = FALSE
    /\ ending' = "idle" /\ expired' = FALSE
    /\ Restored(TRUE)
    /\ UNCHANGED <<registry, armValue, preps, armed, verifying, running, started, failures, crashes>>

\* A command that fails may have taken effect.
RestoreFails ==
    /\ restore.next # "none"
    /\ HelperFails
    /\ restore' = NotRestoring
    /\ unrestored' = TRUE
    /\ ending' = "idle" /\ expired' = FALSE
    /\ Restored(FALSE)
    /\ registry' \in {registry, IF restore.next = "write" THEN marker ELSE registry}
    /\ UNCHANGED <<marker, armValue, preps, armed, verifying, running, started, crashes>>

-----------------------------------------------------------------------------
\* The service is lost, or ends after close; what it held in memory is gone.
Forget == /\ closing' = FALSE /\ snapshot' = "idle" /\ active' = NoPrep /\ arming' = "idle"
          /\ armValue' = NoMarker /\ expired' = FALSE /\ restore' = NotRestoring /\ ending' = "idle"
          /\ verifying' = NoPrep
          /\ preps' = [p \in Preps |-> FreshPrep]

CrashSession == /\ serviceUp # "down" /\ crashes < MaxCrashes
                /\ crashes' = crashes + 1
                /\ serviceUp' = "down"
                /\ Forget
                /\ UNCHANGED <<registry, marker, armed, running, started, failures, unrestored>>
ClosedSession == /\ serviceUp = "up" /\ closing /\ active = NoPrep /\ arming = "idle"
                 /\ serviceUp' = "down"
                 /\ Forget
                 /\ UNCHANGED <<registry, marker, armed, running, started, failures, crashes, unrestored>>
\* initialize, before the server listens: an interrupted preparation is undone first.
StartSession == /\ serviceUp = "down"
                /\ IF marker = NoMarker
                   THEN serviceUp' = "up" /\ UNCHANGED restore
                   ELSE serviceUp' = "recovering" /\ restore' = [for |-> "initialize", next |-> "read"]
                /\ UNCHANGED <<registry, marker, closing, snapshot, active, arming, armValue, preps, armed, expired,
                               ending, verifying, running, started, failures, crashes, unrestored>>

\* Time and the user's desktop.
Expire == /\ active # NoPrep /\ ~expired
          /\ expired' = TRUE
          /\ UNCHANGED <<registry, marker, serviceUp, closing, snapshot, active, arming, armValue, preps, armed,
                         restore, ending, verifying, running, started, failures, crashes, unrestored>>
PuttyStarts == /\ started < MaxPutty
               /\ started' = started + 1
               /\ running' = running \cup {started + 1}
               /\ UNCHANGED <<registry, marker, serviceUp, closing, snapshot, active, arming, armValue, preps, armed,
                              expired, restore, ending, verifying, failures, crashes, unrestored>>
PuttyExits(q) == /\ q \in running
                 /\ running' = running \ {q}
                 /\ UNCHANGED <<registry, marker, serviceUp, closing, snapshot, active, arming, armValue, preps,
                                armed, expired, restore, ending, verifying, started, failures, crashes, unrestored>>
UserEdits == /\ registry = "temporary"
             /\ registry' = "user"
             /\ UNCHANGED <<marker, serviceUp, closing, snapshot, active, arming, armValue, preps, armed, expired,
                            restore, ending, verifying, running, started, failures, crashes, unrestored>>

-----------------------------------------------------------------------------
\* While PuTTY's setting holds the temporary value, the value to put back is recorded where a restart finds it.
TemporaryIsMarked == registry = "temporary" => marker \in {"previous", "user"}

\* The state a page is shown stands for a preparation: "armed" and "detected" are reported only while one is active.
ArmedMeansActive == PreparationIsActive => active # NoPrep
=============================================================================
