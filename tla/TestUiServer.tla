---------------------------- MODULE TestUiServer ----------------------------
(***************************************************************************)
(* The management server of src/test-ui/server.ts together with the        *)
(* session preparer it drives.  Handlers run concurrently: each looks at   *)
(* the flags of the server once its body is in, sets its own, and clears   *)
(* them in a finally after the awaits in between.                          *)
(*                                                                         *)
(* A request is one of                                                     *)
(*   "run"      /api/run, /api/inspect, /api/docker/preflight              *)
(*   "check"    /api/admin/target/check, which may learn a hostname        *)
(*   "task"     /api/task/start and the transfers: started, not awaited    *)
(*   "save"     every route that changes keys, groups or targets           *)
(*   "prepare", "status", "cancel"   the AccessClient session routes       *)
(* What the gateway and the configuration service answer is left open.     *)
(***************************************************************************)
EXTENDS AccessClientSession

CONSTANTS Slots,  \* requests handled at the same time
          Kinds   \* the kinds of request that arrive

VARIABLES req,           \* what each handler does: its kind and the await it is in
          activeRun,     \* the handler whose controller is activeRun, or NoRequest
          mutating,      \* configurationMutationActive
          prepRequest,   \* accessClientPreparationRequestActive
          verification,  \* accessClientVerificationActive
          stage          \* close(): "open", "preparer" or "configuration"

serverVars == <<req, activeRun, mutating, prepRequest, verification, stage>>
vars == <<sessionVars, serverVars>>

NoRequest == "none"
ASSUME ServerAssumption == NoRequest \notin Slots

Free == [kind |-> "none", phase |-> "free"]
Foreground == {"run", "check"}

Init == /\ InitSession
        /\ req = [s \in Slots |-> Free]
        /\ activeRun = NoRequest
        /\ mutating = FALSE /\ prepRequest = FALSE /\ verification = FALSE
        /\ stage = "open"

TypeOK == /\ req \in [Slots -> [kind : Kinds \cup {"none"},
                                phase : {"free", "gateway", "read", "apply", "resolve", "arming", "verify",
                                         "finishing"}]]
          /\ activeRun \in Slots \cup {NoRequest}
          /\ {mutating, prepRequest, verification} \subseteq BOOLEAN
          /\ stage \in {"open", "preparer", "configuration"}

Goto(s, phase) == req' = [req EXCEPT ![s].phase = phase]

-----------------------------------------------------------------------------
\* Mutant: a save looks at the preparer only, not at a preparation request under way.
AdmissibleUnprepared(kind) ==
    CASE kind \in Foreground -> ~mutating /\ activeRun = NoRequest
      [] kind = "task" -> ~mutating
      [] kind = "save" -> activeRun = NoRequest /\ ~mutating /\ ~PreparationIsActive
      [] kind = "prepare" -> ~mutating /\ activeRun = NoRequest /\ ~prepRequest
      [] kind = "status" -> snapshot = "detected" /\ ~verification /\ activeRun = NoRequest /\ ~mutating
      [] OTHER -> TRUE

\* The asserts of each route, made when its body has been read.
Admissible(kind) ==
    CASE kind \in Foreground -> ~mutating /\ activeRun = NoRequest
      [] kind = "task" -> ~mutating
      [] kind = "save" -> activeRun = NoRequest /\ ~mutating /\ ~prepRequest /\ ~PreparationIsActive
      [] kind = "prepare" -> ~mutating /\ activeRun = NoRequest /\ ~prepRequest
      [] kind = "status" -> snapshot = "detected" /\ ~verification /\ activeRun = NoRequest /\ ~mutating
      [] OTHER -> TRUE

\* The first await of an admitted handler.
FirstPhase(kind) == CASE kind = "save" -> "read" [] kind = "prepare" -> "resolve" [] kind = "cancel" -> "arming"
                      [] OTHER -> "gateway"

\* The flags are looked at and set in one go once the body is in; a refused request is answered 409, a status poll
\* that verifies nothing with the snapshot, and neither changes anything.
Admit(s, kind) ==
    /\ serviceUp = "up" /\ stage # "configuration"
    /\ req[s] = Free
    /\ Admissible(kind)
    /\ req' = [req EXCEPT ![s] = [kind |-> kind, phase |-> FirstPhase(kind)]]
    /\ activeRun' = IF kind \in Foreground \cup {"status"} THEN s ELSE activeRun
    /\ mutating' = (mutating \/ kind = "save")
    /\ prepRequest' = (prepRequest \/ kind = "prepare")
    /\ verification' = (verification \/ kind = "status")
    /\ UNCHANGED <<stage, sessionVars>>

\* Mutant: a check that ends leaves its controller behind.
AnsweredRunning(s) == LET kind == req[s].kind IN
    /\ req' = [req EXCEPT ![s] = Free]
    /\ mutating' = (mutating /\ kind # "save")
    /\ prepRequest' = (prepRequest /\ kind # "prepare")
    /\ verification' = (verification /\ kind # "status")
    /\ UNCHANGED <<stage, activeRun>>

\* The finally of each handler.
Answered(s) == LET kind == req[s].kind IN
    /\ req' = [req EXCEPT ![s] = Free]
    /\ activeRun' = IF activeRun = s THEN NoRequest ELSE activeRun
    /\ mutating' = (mutating /\ kind # "save")
    /\ prepRequest' = (prepRequest /\ kind # "prepare")
    /\ verification' = (verification /\ kind # "status")
    /\ UNCHANGED stage

\* The gateway answered and there is nothing more to do, or it failed or was aborted.
GatewayEnds(s) == /\ req[s].phase = "gateway"
                  /\ Answered(s)
                  /\ UNCHANGED sessionVars
\* A check that connected looks up whether the hostname is still to be learned.
GatewayConnected(s) == /\ req[s].phase = "gateway" /\ req[s].kind \in {"check", "status"}
                       /\ Goto(s, "read")
                       /\ UNCHANGED <<activeRun, mutating, prepRequest, verification, stage, sessionVars>>
\* The session reached another machine: the preparation is rejected.
GatewayMismatch(s) == /\ req[s].phase = "gateway" /\ req[s].kind = "status"
                      /\ IF active # NoPrep THEN RejectSession /\ Goto(s, "finishing")
                                                /\ UNCHANGED <<activeRun, mutating, prepRequest, verification, stage>>
                                           ELSE Answered(s) /\ UNCHANGED sessionVars

\* fleetStatus: the request is out of date or names nothing, and ends;
ReadRefused(s) == /\ req[s].phase = "read"
                  /\ Answered(s)
                  /\ UNCHANGED sessionVars
\* or the configuration is changed: by a save, or by learnAccessClientHostname.
ReadAccepted(s) == /\ req[s].phase = "read" /\ stage # "configuration"
                   /\ Goto(s, "apply")
                   /\ UNCHANGED <<activeRun, mutating, prepRequest, verification, stage, sessionVars>>
\* A status poll verifies the session after the hostname was learned, or had been before.
LearnedAlready(s) == /\ req[s] = [kind |-> "status", phase |-> "read"]
                     /\ Goto(s, "verify")
                     /\ UNCHANGED <<activeRun, mutating, prepRequest, verification, stage, sessionVars>>
Learned(s) == /\ req[s] = [kind |-> "status", phase |-> "apply"]
              /\ Goto(s, "verify")
              /\ UNCHANGED <<activeRun, mutating, prepRequest, verification, stage, sessionVars>>
ApplyEnds(s) == /\ req[s].phase = "apply"
                /\ Answered(s)
                /\ UNCHANGED sessionVars

-----------------------------------------------------------------------------
\* resolveSavedAccessClientTarget, then preparer.prepare.
Resolved(s) == /\ req[s].phase = "resolve"
               /\ PrepareSession
               /\ Goto(s, "arming")
               /\ UNCHANGED <<activeRun, mutating, prepRequest, verification, stage>>
\* The target is not prepared: gone, or the preparer is busy or closed.
NotResolved(s) == /\ req[s].phase = "resolve"
                  /\ Answered(s)
                  /\ UNCHANGED sessionVars
NotPrepared(s) == /\ req[s].phase = "resolve"
                  /\ PrepareFails
                  /\ Answered(s)
\* The preparation is armed, or was given up.
Prepared(s) == /\ req[s] = [kind |-> "prepare", phase |-> "arming"]
               /\ arming = "idle"
               /\ Answered(s)
               /\ UNCHANGED sessionVars

\* preparer.verify after the hostname was learned; it fails when nothing is being prepared any more.
Verify(s) == /\ req[s].phase = "verify" /\ verifying = NoPrep
             /\ IF active # NoPrep /\ preps[active].candidate # NoProcess /\ snapshot = "detected"
                THEN VerifyBegin /\ UNCHANGED serverVars
                ELSE Answered(s) /\ UNCHANGED sessionVars
Verified(s) == /\ req[s].phase = "verify"
               /\ VerifyEnd
               /\ Goto(s, "finishing")
               /\ UNCHANGED <<activeRun, mutating, prepRequest, verification, stage>>
NotVerified(s) == /\ req[s].phase = "verify"
                  /\ VerifyFails
                  /\ Answered(s)

\* preparer.cancel: waits for a preparation being armed, then finishes the active one.
Cancel(s) == /\ req[s] = [kind |-> "cancel", phase |-> "arming"]
             /\ arming = "idle"
             /\ IF active # NoPrep /\ ~preps[active].stopped THEN CancelSession ELSE UNCHANGED sessionVars
             /\ Goto(s, "finishing")
             /\ UNCHANGED <<activeRun, mutating, prepRequest, verification, stage>>
\* The promise of #finish has settled; a verify that only reset the candidate waits for none.
FinishAwaited(s) == /\ req[s].phase = "finishing"
                    /\ active # NoPrep => ~preps[active].stopped
                    /\ Answered(s)
                    /\ UNCHANGED sessionVars

-----------------------------------------------------------------------------
\* close(): the preparer first, then the connections, then the configuration service.
CloseServer == /\ serviceUp = "up" /\ stage = "open"
               /\ stage' = "preparer"
               /\ CloseSession
               /\ UNCHANGED <<req, activeRun, mutating, prepRequest, verification>>
\* Mutant: close() waits for the active preparation, not for one that is being armed.
CloseConnectionsAtOnce == /\ stage = "preparer"
                          /\ active = NoPrep
                          /\ stage' = "configuration"
                          /\ UNCHANGED <<req, activeRun, mutating, prepRequest, verification, sessionVars>>

CloseConnections == /\ stage = "preparer"
                    /\ arming = "idle" /\ active = NoPrep
                    /\ stage' = "configuration"
                    /\ UNCHANGED <<req, activeRun, mutating, prepRequest, verification, sessionVars>>
ServerGone == /\ req' = [s \in Slots |-> Free]
              /\ activeRun' = NoRequest
              /\ mutating' = FALSE /\ prepRequest' = FALSE /\ verification' = FALSE
              /\ stage' = "open"
\* configurationService.close waits for the change in progress; then the process ends.
ServerClosed == /\ stage = "configuration"
                /\ \A s \in Slots : req[s].phase # "apply"
                /\ ClosedSession
                /\ ServerGone
Crash == CrashSession /\ ServerGone

Handler(s) == \/ GatewayEnds(s) \/ GatewayConnected(s) \/ GatewayMismatch(s)
              \/ ReadRefused(s) \/ ReadAccepted(s) \/ LearnedAlready(s) \/ Learned(s) \/ ApplyEnds(s)
              \/ Resolved(s) \/ NotResolved(s) \/ NotPrepared(s) \/ Prepared(s)
              \/ Verify(s) \/ Verified(s) \/ NotVerified(s) \/ Cancel(s) \/ FinishAwaited(s)

\* The preparer's own steps, and the desktop's.
Preparer == /\ \/ WriteMarker \/ MarkerFails \/ Arm \/ ArmFails
               \/ \E p \in Preps : MonitorLoop(p) \/ MonitorListed(p) \/ MonitorFails(p)
               \/ CloseFinishes
               \/ RestoreRead \/ RestoreWrite \/ RestoreMarker \/ RestoreFails
               \/ StartSession
            /\ UNCHANGED serverVars
Desktop == /\ \/ Expire \/ PuttyStarts \/ UserEdits
              \/ \E q \in running : PuttyExits(q)
           /\ UNCHANGED serverVars

Next == \/ \E s \in Slots : Handler(s) \/ \E kind \in Kinds : Admit(s, kind)
        \/ CloseServer \/ CloseConnections \/ ServerClosed \/ Crash
        \/ Preparer \/ Desktop

Spec == Init /\ [][Next]_vars

(***************************************************************************)
(* Fairness: the helper commands are run with a timeout of five seconds,   *)
(* the gateway's answers have one too, and the monitor's timer fires, so   *)
(* every await ends; the deadline passes.  Nothing is assumed of requests, *)
(* of PuTTY, of the user or of a restart.                                  *)
(***************************************************************************)
Working == \/ WriteMarker \/ MarkerFails \/ Arm \/ ArmFails \/ CloseFinishes
           \/ RestoreRead \/ RestoreWrite \/ RestoreMarker \/ RestoreFails
Monitoring == \E p \in Preps : MonitorLoop(p) \/ MonitorListed(p) \/ MonitorFails(p)
Fairness == /\ \A s \in Slots : WF_vars(Handler(s))
            /\ WF_vars(Monitoring /\ UNCHANGED serverVars)
            /\ WF_vars(Working /\ UNCHANGED serverVars)
            /\ WF_vars(Expire /\ UNCHANGED serverVars)

FairSpec == Spec /\ Fairness

-----------------------------------------------------------------------------
Changing(s) == req[s].phase = "apply" \/ (req[s].kind = "save" /\ req[s].phase = "read")
Operating(s) == req[s].kind \in Foreground \cup {"status"} /\ req[s].phase \in {"gateway", "read", "apply"}

(***************************************************************************)
(* Key generation, configuration changes, connection checks and commands   *)
(* exclude one another (SECURITY.md): while a handler changes the          *)
(* configuration no other handler changes it or waits for the gateway.     *)
(* Each handler looked at the flags before several awaits.                 *)
(***************************************************************************)
ExclusiveOperations == \A s, t \in Slots : s # t /\ Changing(s) => ~Changing(t) /\ ~Operating(t)

(***************************************************************************)
(* No save is under way while a session is being prepared: neither starts  *)
(* in the middle of the other, whichever of them awaited first.            *)
(***************************************************************************)
PreparationUndisturbed ==
    \A s \in Slots : req[s].kind = "save" /\ Changing(s) => arming = "idle" /\ active = NoPrep

(***************************************************************************)
(* Handlers that must not overlap do not, although each looked at the      *)
(* flags before several awaits.                                            *)
(***************************************************************************)
OperationsExclude == TypeOK /\ ExclusiveOperations /\ PreparationUndisturbed

(***************************************************************************)
(* When close() is past the preparer, PuTTY's setting has been put back    *)
(* unless the failure was reported, even if the preparation was only just  *)
(* being armed.                                                            *)
(***************************************************************************)
CloseRestores == stage = "configuration" => (registry = "temporary" => unrestored)

(***************************************************************************)
(* PuTTY's setting is put back in the end: by verification, rejection,     *)
(* cancel, the deadline or close, unless putting it back failed and that   *)
(* was reported, or the service is not running.                            *)
(***************************************************************************)
SettingPutBack == []<>(registry # "temporary" \/ unrestored \/ serviceUp = "down")

(***************************************************************************)
(* No handler keeps the server busy for ever: every flag is cleared again, *)
(* after whatever the handler met.                                         *)
(***************************************************************************)
FlagsReleased == \A flag \in {"run", "change", "prepare", "verify"} :
    []<>(CASE flag = "run" -> activeRun = NoRequest [] flag = "change" -> ~mutating
           [] flag = "prepare" -> ~prepRequest [] OTHER -> ~verification)
=============================================================================
