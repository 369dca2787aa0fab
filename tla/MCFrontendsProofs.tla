------------------------- MODULE MCFrontendsProofs -------------------------
(***************************************************************************)
(* Proofs about the two ways into the gateway, as MCFrontends composes     *)
(* them: what the handlers of the page do to one another, what becomes of  *)
(* PuTTY's setting, and whom a stop over the pipe may reach.  They hold    *)
(* for any number of requests, preparations, connections, failures and     *)
(* crashes, and for every limit of the pipe.                               *)
(***************************************************************************)
EXTENDS MCFrontends, Integers, TLAPS

(***************************************************************************)
(* The session.                                                            *)
(***************************************************************************)
Preparations == [candidate : Nat, seen : SUBSET Nat, stopped : BOOLEAN, monitor : {"off", "loop", "listing"}]

SessionTypes ==
    /\ registry \in {"previous", "user", "temporary"} /\ marker \in {NoMarker, "previous", "user"}
    /\ serviceUp \in {"down", "recovering", "up"} /\ closing \in BOOLEAN
    /\ arming \in {"idle", "marker", "registry"} /\ armed \in 0..MaxPreps
    /\ armValue \in {NoMarker, "previous", "user", "temporary"}
    /\ active \in 0..MaxPreps /\ verifying \in 0..MaxPreps
    /\ preps \in [Preps -> Preparations]
    /\ restore \in [for : {"nobody", "finish", "arm", "initialize"}, next : {"none", "read", "write", "marker"}]
    /\ restore.for = "nobody" <=> restore.next = "none"
    /\ started \in Nat /\ running \subseteq Nat

\* Where the temporary value may be, and who still owes its removal.
MarkInv ==
    /\ registry = "temporary" => marker # NoMarker
    /\ registry = "temporary" => unrestored \/ active # NoPrep \/ arming = "registry" \/ serviceUp # "up"
    /\ arming = "registry" => marker # NoMarker
    /\ arming = "marker" => armValue # NoMarker /\ (armValue = "temporary" => marker # NoMarker)
    /\ restore.next = "marker" => registry # "temporary"
    /\ restore.next = "write" => marker # NoMarker

\* Whom a restoration is for, and that nothing else can be in its way.
RestoreInv ==
    /\ restore.for = "finish" => active # NoPrep /\ preps[active].stopped
    /\ restore.for = "arm" => arming = "registry"
    /\ restore.for = "initialize" => serviceUp = "recovering"
    /\ serviceUp # "up" => active = NoPrep /\ arming = "idle"
    /\ arming # "idle" => active = NoPrep /\ armed # 0

\* A preparation that was not finished is the active one.
PrepInv ==
    /\ active # NoPrep => PreparationIsActive
    /\ \A p \in Preps : preps[p].monitor # "off" => preps[p].stopped \/ p = active
    /\ verifying # NoPrep => preps[verifying].stopped \/ verifying = active

SessionInv == SessionTypes /\ MarkInv /\ RestoreInv /\ PrepInv

(***************************************************************************)
(* The handlers.                                                           *)
(***************************************************************************)
PhaseInv ==
    \A s \in Slots :
        /\ req[s].kind = "save" => req[s].phase \in {"read", "apply"}
        /\ req[s].kind = "prepare" => req[s].phase \in {"resolve", "arming"}
        /\ req[s].phase \in {"read", "apply"} => req[s].kind \in {"save", "check", "status"}
        /\ req[s].phase = "resolve" => req[s].kind = "prepare"

\* Each flag is up for one handler at most, and for the one that set it.
FlagInv ==
    /\ \A s \in Slots : req[s].kind \in Foreground \cup {"status"} => activeRun = s
    /\ \A s \in Slots : req[s].kind = "save" => mutating
    /\ \A s \in Slots : req[s].kind = "prepare" => prepRequest
    /\ \A s, t \in Slots : req[s].kind = "save" /\ req[t].kind = "save" => s = t
    /\ \A s, t \in Slots : req[s].kind = "prepare" /\ req[t].kind = "prepare" => s = t

\* What the flags and the session mean to each other.
ServerInv ==
    /\ mutating => activeRun = NoRequest /\ ~prepRequest /\ arming = "idle" /\ active = NoPrep
    /\ arming # "idle" => prepRequest /\ \E s \in Slots : req[s] = [kind |-> "prepare", phase |-> "arming"]
    /\ stage # "open" => closing /\ serviceUp = "up"
    /\ stage = "configuration" => arming = "idle" /\ active = NoPrep

PageInv == TypeOK /\ SessionInv /\ PhaseInv /\ FlagInv /\ ServerInv

(***************************************************************************)
(* The pipe.                                                               *)
(***************************************************************************)
Runs == {Rpc!Run(r) : r \in Requests}
Cancels == {Rpc!CancelOf(r) : r \in Requests}
Frames == {Rpc!Open} \cup Runs \cup Cancels

\* The request is written and not read yet.
OnItsWay(r) == \E c \in Conns : \E i \in 1..Len(up[c]) : up[c][i] = Rpc!Run(r)
\* The daemon is done with r for good, or refused it while the gate was closed.
Over(r) == exec[r] = "ended" \/ (exec[r] = "none" /\ ~OnItsWay(r))
GivenUp == {"aborted", "rejected", "answered"}

PipeTypes ==
    /\ client \in [Conns -> {"new", "opening", "open", "closed"}]
    /\ link \in [Conns -> {"none", "up", "ended", "down"}]
    /\ up \in [Conns -> Seq(Frames)] /\ down \in [Conns -> Seq(Frames)]
    /\ conn \in [Requests -> Conns \cup {Rpc!NoConn}]
    /\ promise \in [Requests -> {"none", "pending", "aborted", "answered", "rejected"}]
    /\ exec \in [Requests -> {"none", "running", "stopping", "ended"}]

\* A request is known to nobody before it was sent, and then made on one connection.
RequestInv ==
    \A r \in Requests :
        /\ promise[r] = "none" => exec[r] = "none"
        /\ promise[r] # "none" => conn[r] \in Conns /\ client[conn[r]] # "new"
        /\ promise[r] = "answered" => Over(r)

\* The frames to the server: a request once, a cancel after its caller gave up.
UpInv ==
    \A c \in Conns, r \in Requests : \A i \in 1..Len(up[c]) :
        /\ up[c][i] = Rpc!Run(r) => /\ conn[r] = c /\ promise[r] # "none" /\ exec[r] = "none"
                                    /\ \A j \in 1..Len(up[c]) : up[c][j] = Rpc!Run(r) => j = i
        /\ up[c][i] = Rpc!CancelOf(r) => promise[r] \in GivenUp

\* The answers are about requests that are over.
DownInv ==
    \A c \in Conns, r \in Requests : \A i \in 1..Len(down[c]) :
        down[c][i] = Rpc!Run(r) => promise[r] # "none" /\ Over(r)

PipeInv == PipeTypes /\ RequestInv /\ UpInv /\ DownInv /\ StopsOnlyItsOwn

IInv == PageInv /\ PipeInv

\* Marker first, then the setting: a preparation until it is armed or given up.
LEMMA ArmingKeepsSession ==
    ASSUME SessionInv,
           PrepareSession \/ PrepareFails \/ WriteMarker \/ MarkerFails \/ Arm \/ ArmFails
    PROVE  SessionInv'
<1> USE SessionAssumption DEF SessionInv, PreparationIsActive, Preps, NoMarker, NoPrep, NotRestoring, NoProcess
<1>1. CASE PrepareSession
  <2>1. preps' \in [Preps -> Preparations]
    BY <1>1 DEF PrepareSession, SessionTypes, PrepInv, Preparations
  <2>2. SessionTypes'
    BY <1>1, <2>1 DEF PrepareSession, SessionTypes, MarkInv
  <2>3. MarkInv'
    BY <1>1 DEF PrepareSession, SessionTypes, MarkInv, RestoreInv
  <2>4. RestoreInv'
    BY <1>1 DEF PrepareSession, SessionTypes, MarkInv, RestoreInv, Preparations
  <2>5. PrepInv'
    BY <1>1 DEF PrepareSession, SessionTypes, PrepInv, RestoreInv, Preparations
  <2>6. QED BY <2>2, <2>3, <2>4, <2>5
<1>2. CASE PrepareFails
  <2>2. SessionTypes'
    BY <1>2 DEF PrepareFails, HelperFails, SessionTypes, MarkInv
  <2>3. MarkInv'
    BY <1>2 DEF PrepareFails, HelperFails, SessionTypes, MarkInv, RestoreInv
  <2>4. RestoreInv'
    BY <1>2 DEF PrepareFails, HelperFails, SessionTypes, MarkInv, RestoreInv, Preparations
  <2>5. PrepInv'
    BY <1>2 DEF PrepareFails, HelperFails, SessionTypes, PrepInv, RestoreInv, Preparations
  <2>6. QED BY <2>2, <2>3, <2>4, <2>5
<1>3. CASE WriteMarker
  <2>2. SessionTypes'
    BY <1>3 DEF WriteMarker, SessionTypes, MarkInv
  <2>3. MarkInv'
    BY <1>3 DEF WriteMarker, SessionTypes, MarkInv, RestoreInv
  <2>4. RestoreInv'
    BY <1>3 DEF WriteMarker, SessionTypes, MarkInv, RestoreInv, Preparations
  <2>5. PrepInv'
    BY <1>3 DEF WriteMarker, SessionTypes, PrepInv, RestoreInv, Preparations
  <2>6. QED BY <2>2, <2>3, <2>4, <2>5
<1>4. CASE MarkerFails
  <2>2. SessionTypes'
    BY <1>4 DEF MarkerFails, HelperFails, SessionTypes, MarkInv
  <2>3. MarkInv'
    BY <1>4 DEF MarkerFails, HelperFails, SessionTypes, MarkInv, RestoreInv
  <2>4. RestoreInv'
    BY <1>4 DEF MarkerFails, HelperFails, SessionTypes, MarkInv, RestoreInv, Preparations
  <2>5. PrepInv'
    BY <1>4 DEF MarkerFails, HelperFails, SessionTypes, PrepInv, RestoreInv, Preparations
  <2>6. QED BY <2>2, <2>3, <2>4, <2>5
<1>5. CASE Arm
  <2>1. preps' \in [Preps -> Preparations]
    <3>1. preps \in [Preps -> Preparations] /\ armed \in Preps
      BY <1>5 DEF Arm, SessionTypes, RestoreInv
    <3>2. preps' = [preps EXCEPT ![armed].stopped = TRUE] \/ preps' = [preps EXCEPT ![armed].monitor = "loop"]
      BY <1>5 DEF Arm
    <3>3. CASE preps' = [preps EXCEPT ![armed].stopped = TRUE]
      BY <3>1, <3>3 DEF Preparations
    <3>4. CASE preps' = [preps EXCEPT ![armed].monitor = "loop"]
      BY <3>1, <3>4 DEF Preparations
    <3>5. QED BY <3>2, <3>3, <3>4
  <2>2. SessionTypes'
    BY <1>5, <2>1 DEF Arm, SessionTypes, MarkInv
  <2>3. MarkInv'
    BY <1>5 DEF Arm, SessionTypes, MarkInv, RestoreInv
  <2>4. RestoreInv'
    BY <1>5 DEF Arm, SessionTypes, MarkInv, RestoreInv, Preparations
  <2>5. PrepInv'
    BY <1>5 DEF Arm, SessionTypes, PrepInv, RestoreInv, Preparations
  <2>6. QED BY <2>2, <2>3, <2>4, <2>5
<1>6. CASE ArmFails
  <2>2. SessionTypes'
    BY <1>6 DEF ArmFails, HelperFails, SessionTypes, MarkInv
  <2>3. MarkInv'
    BY <1>6 DEF ArmFails, HelperFails, SessionTypes, MarkInv, RestoreInv
  <2>4. RestoreInv'
    BY <1>6 DEF ArmFails, HelperFails, SessionTypes, MarkInv, RestoreInv, Preparations
  <2>5. PrepInv'
    BY <1>6 DEF ArmFails, HelperFails, SessionTypes, PrepInv, RestoreInv, Preparations
  <2>6. QED BY <2>2, <2>3, <2>4, <2>5
<1>7. QED BY <1>1, <1>2, <1>3, <1>4, <1>5, <1>6


(***************************************************************************)
(* What the monitor, verify, reject, cancel and close do to a preparation  *)
(* they hold on to, although it may have been stopped in the meantime: it  *)
(* is watched on, or it is stopped and its restoration starts.             *)
(***************************************************************************)
Touched(p) ==
    /\ preps' \in [Preps -> Preparations]
    /\ \A q \in Preps : preps[q].stopped => preps'[q].stopped
    /\ \A q \in Preps : q # p => preps'[q].monitor = preps[q].monitor
    /\ restore' = restore \/ (restore' = [for |-> "finish", next |-> "read"] /\ ~preps[p].stopped /\ preps'[p].stopped)
    /\ snapshot' \in {snapshot, "armed", "detected"} /\ verifying' \in {verifying, NoPrep}
    /\ UNCHANGED <<registry, marker, serviceUp, closing, active, arming, armValue, armed, running, started, unrestored>>

LEMMA TouchingKeepsSession ==
    ASSUME SessionInv, NEW p \in Preps, preps[p].stopped \/ p = active, Touched(p)
    PROVE  SessionInv'
<1> USE SessionAssumption DEF SessionInv, Touched, NoPrep, Preps
<1>1. SessionTypes'
  BY DEF SessionTypes
<1>2. MarkInv'
  BY DEF SessionTypes, MarkInv
<1>3. RestoreInv'
  BY DEF SessionTypes, RestoreInv
<1>4. PrepInv'
  BY DEF SessionTypes, PrepInv, PreparationIsActive
<1>5. QED BY <1>1, <1>2, <1>3, <1>4

\* The ways a preparation is written.
LEMMA Updates ==
    ASSUME preps \in [Preps -> Preparations], NEW p \in Preps, NEW m \in {"off", "loop", "listing"}, NEW c \in Nat,
           \/ preps' = preps
           \/ preps' = [preps EXCEPT ![p].stopped = TRUE]
           \/ preps' = [preps EXCEPT ![p].monitor = m]
           \/ preps' = [preps EXCEPT ![p].monitor = "off", ![p].stopped = TRUE]
           \/ preps' = [preps EXCEPT ![p].candidate = NoProcess, ![p].monitor = m]
           \/ preps' = [preps EXCEPT ![p].monitor = "loop", ![p].candidate = c, ![p].seen = @ \cup {c}]
    PROVE  /\ preps' \in [Preps -> Preparations]
           /\ \A q \in Preps : preps[q].stopped => preps'[q].stopped
           /\ \A q \in Preps : q # p => preps'[q].monitor = preps[q].monitor
<1>1. preps \in [Preps -> Preparations] /\ p \in Preps /\ m \in {"off", "loop", "listing"} /\ c \in Nat
  OBVIOUS
<1>2. CASE preps' = preps
  BY ONLY <1>1, <1>2 DEF Preparations, NoProcess
<1>3. CASE preps' = [preps EXCEPT ![p].stopped = TRUE]
  BY ONLY <1>1, <1>3 DEF Preparations, NoProcess
<1>4. CASE preps' = [preps EXCEPT ![p].monitor = m]
  BY ONLY <1>1, <1>4 DEF Preparations, NoProcess
<1>5. CASE preps' = [preps EXCEPT ![p].monitor = "off", ![p].stopped = TRUE]
  <2>1. preps' \in [Preps -> Preparations]
    BY ONLY <1>1, <1>5 DEF Preparations, NoProcess
  <2>2. preps'[p].stopped \in {preps[p].stopped, TRUE}
    BY ONLY <1>1, <1>5 DEF Preparations, NoProcess
  <2>3. \A q \in Preps : q # p => preps'[q] = preps[q]
    BY ONLY <1>1, <1>5 DEF Preparations, NoProcess
  <2>4. QED BY <2>1, <2>2, <2>3
<1>6. CASE preps' = [preps EXCEPT ![p].candidate = NoProcess, ![p].monitor = m]
  <2>1. preps' \in [Preps -> Preparations]
    BY ONLY <1>1, <1>6 DEF Preparations, NoProcess
  <2>2. preps'[p].stopped \in {preps[p].stopped, TRUE}
    BY ONLY <1>1, <1>6 DEF Preparations, NoProcess
  <2>3. \A q \in Preps : q # p => preps'[q] = preps[q]
    BY ONLY <1>1, <1>6 DEF Preparations, NoProcess
  <2>4. QED BY <2>1, <2>2, <2>3
<1>7. CASE preps' = [preps EXCEPT ![p].monitor = "loop", ![p].candidate = c, ![p].seen = @ \cup {c}]
  <2>1. preps' \in [Preps -> Preparations]
    BY ONLY <1>1, <1>7 DEF Preparations, NoProcess
  <2>2. preps'[p].stopped \in {preps[p].stopped, TRUE}
    BY ONLY <1>1, <1>7 DEF Preparations, NoProcess
  <2>3. \A q \in Preps : q # p => preps'[q] = preps[q]
    BY ONLY <1>1, <1>7 DEF Preparations, NoProcess
  <2>4. QED BY <2>1, <2>2, <2>3
<1>8. QED BY <1>2, <1>3, <1>4, <1>5, <1>6, <1>7

\* The monitor of a preparation.
LEMMA MonitoringKeepsSession ==
    ASSUME SessionInv, NEW p \in Preps, MonitorLoop(p) \/ MonitorListed(p) \/ MonitorFails(p)
    PROVE  SessionInv'
<1>1. preps \in [Preps -> Preparations] /\ running \subseteq Nat /\ NoPrep \notin Preps /\ NoProcess \in Nat
  BY DEF SessionInv, SessionTypes, Preps, NoPrep, NoProcess
<1>2. preps[p].stopped \/ p = active
  BY DEF SessionInv, PrepInv, MonitorLoop, MonitorListed, MonitorFails
<1>3. CASE MonitorLoop(p)
  <2>1. \/ \E m \in {"off", "listing"} : preps' = [preps EXCEPT ![p].monitor = m]
        \/ preps' = [preps EXCEPT ![p].monitor = "off", ![p].stopped = TRUE]
    BY <1>3 DEF MonitorLoop
  <2>2. restore' = restore \/ (restore' = [for |-> "finish", next |-> "read"] /\ ~preps[p].stopped /\ preps'[p].stopped)
    BY <1>1, <1>3 DEF MonitorLoop, Preparations
  <2>3. Touched(p)
    BY <1>1, <1>3, <2>1, <2>2, Updates DEF MonitorLoop, Touched
  <2>4. QED BY <1>2, <2>3, TouchingKeepsSession
<1>4. CASE MonitorListed(p)
  <2>1. \/ \E m \in {"off", "loop"} : preps' = [preps EXCEPT ![p].monitor = m]
        \/ preps' = [preps EXCEPT ![p].candidate = NoProcess, ![p].monitor = "loop"]
        \/ \E c \in Nat : preps' = [preps EXCEPT ![p].monitor = "loop", ![p].candidate = c, ![p].seen = @ \cup {c}]
    BY <1>1, <1>4 DEF MonitorListed, ResetFields
  <2>2. snapshot' \in {snapshot, "armed", "detected"}
    BY <1>4 DEF MonitorListed, ResetFields
  <2>3. Touched(p)
    BY <1>1, <1>4, <2>1, <2>2, Updates DEF MonitorListed, Touched
  <2>4. QED BY <1>2, <2>3, TouchingKeepsSession
<1>5. CASE MonitorFails(p)
  <2>1. \/ preps' = [preps EXCEPT ![p].monitor = "off"]
        \/ preps' = [preps EXCEPT ![p].monitor = "off", ![p].stopped = TRUE]
    BY <1>5 DEF MonitorFails
  <2>2. restore' = restore \/ (restore' = [for |-> "finish", next |-> "read"] /\ ~preps[p].stopped /\ preps'[p].stopped)
    BY <1>1, <1>5 DEF MonitorFails, Preparations
  <2>3. Touched(p)
    BY <1>1, <1>5, <2>1, <2>2, Updates DEF MonitorFails, Touched
  <2>4. QED BY <1>2, <2>3, TouchingKeepsSession
<1>6. QED BY <1>3, <1>4, <1>5

\* #finish on behalf of verify, reject, cancel and close: only the first caller's outcome counts.
LEMMA FinishTouches ==
    ASSUME preps \in [Preps -> Preparations], NEW p \in Preps, NEW outcome, FinishFields(p, outcome)
    PROVE  /\ preps' \in {preps, [preps EXCEPT ![p].stopped = TRUE]}
           /\ restore' = restore \/ (restore' = [for |-> "finish", next |-> "read"] /\ ~preps[p].stopped /\ preps'[p].stopped)
  BY DEF FinishFields, Preparations

LEMMA FinishingKeepsSession ==
    ASSUME SessionInv, VerifyEnd \/ RejectSession \/ CancelSession \/ CloseFinishes
    PROVE  SessionInv'
<1>1. preps \in [Preps -> Preparations] /\ active \in Preps \cup {NoPrep} /\ verifying \in Preps \cup {NoPrep}
  BY SessionAssumption DEF SessionInv, SessionTypes, Preps, NoPrep
<1>2. CASE VerifyEnd
  <2>1. verifying \in Preps /\ (preps[verifying].stopped \/ verifying = active)
    BY <1>1, <1>2 DEF SessionInv, PrepInv, VerifyEnd
  <2>2. CASE preps[verifying].candidate \in running
    <3>1. FinishFields(verifying, "ready")
      BY <1>2, <2>2 DEF VerifyEnd
    <3>2. Touched(verifying)
      BY <1>1, <1>2, <2>1, <2>2, <3>1, FinishTouches, Updates DEF VerifyEnd, Touched
    <3>3. QED BY <2>1, <3>2, TouchingKeepsSession
  <2>3. CASE preps[verifying].candidate \notin running
    <3>1. \E m \in {"off", "loop", "listing"} :
             preps' = [preps EXCEPT ![verifying].candidate = NoProcess, ![verifying].monitor = m]
      BY <1>1, <1>2, <2>1, <2>3 DEF VerifyEnd, ResetFields, Preparations
    <3>2. Touched(verifying)
      BY <1>1, <1>2, <2>1, <2>3, <3>1, Updates DEF VerifyEnd, ResetFields, Touched
    <3>3. QED BY <2>1, <3>2, TouchingKeepsSession
  <2>4. QED BY <2>2, <2>3
<1>3. CASE RejectSession \/ CancelSession \/ CloseFinishes
  <2>1. active \in Preps
    BY <1>1, <1>3 DEF RejectSession, CancelSession, CloseFinishes
  <2>2. \E outcome \in {"error", "cancelled"} : FinishFields(active, outcome)
    BY <1>3 DEF RejectSession, CancelSession, CloseFinishes
  <2>3. UNCHANGED <<registry, marker, serviceUp, closing, snapshot, active, arming, armValue, armed, verifying, running,
                    started, unrestored>>
    BY <1>3 DEF RejectSession, CancelSession, CloseFinishes
  <2>4. Touched(active)
    BY <1>1, <2>1, <2>2, <2>3, FinishTouches, Updates DEF Touched
  <2>5. QED BY <2>1, <2>4, TouchingKeepsSession
<1>4. QED BY <1>2, <1>3

\* #restoreMarker, whoever asked for it.
LEMMA RestoringKeepsSession ==
    ASSUME SessionInv,
           RestoreRead \/ RestoreWrite \/ RestoreMarker \/ RestoreFails
    PROVE  SessionInv'
<1> USE SessionAssumption DEF SessionInv, PreparationIsActive, Preps, NoMarker, NoPrep, NotRestoring, NoProcess
<1>1. CASE RestoreRead
  <2>2. SessionTypes'
    BY <1>1 DEF RestoreRead, SessionTypes, MarkInv
  <2>3. MarkInv'
    BY <1>1 DEF RestoreRead, SessionTypes, MarkInv, RestoreInv
  <2>4. RestoreInv'
    BY <1>1 DEF RestoreRead, SessionTypes, MarkInv, RestoreInv, Preparations
  <2>5. PrepInv'
    BY <1>1 DEF RestoreRead, SessionTypes, PrepInv, RestoreInv, Preparations
  <2>6. QED BY <2>2, <2>3, <2>4, <2>5
<1>2. CASE RestoreWrite
  <2>2. SessionTypes'
    BY <1>2 DEF RestoreWrite, SessionTypes, MarkInv
  <2>3. MarkInv'
    BY <1>2 DEF RestoreWrite, SessionTypes, MarkInv, RestoreInv
  <2>4. RestoreInv'
    BY <1>2 DEF RestoreWrite, SessionTypes, MarkInv, RestoreInv, Preparations
  <2>5. PrepInv'
    BY <1>2 DEF RestoreWrite, SessionTypes, PrepInv, RestoreInv, Preparations
  <2>6. QED BY <2>2, <2>3, <2>4, <2>5
<1>3. CASE RestoreMarker
  <2>2. SessionTypes'
    BY <1>3 DEF RestoreMarker, Restored, SessionTypes, MarkInv
  <2>3. MarkInv'
    BY <1>3 DEF RestoreMarker, Restored, SessionTypes, MarkInv, RestoreInv
  <2>4. RestoreInv'
    BY <1>3 DEF RestoreMarker, Restored, SessionTypes, MarkInv, RestoreInv, Preparations
  <2>5. PrepInv'
    BY <1>3 DEF RestoreMarker, Restored, SessionTypes, PrepInv, RestoreInv, Preparations
  <2>6. QED BY <2>2, <2>3, <2>4, <2>5
<1>4. CASE RestoreFails
  <2>2. SessionTypes'
    <3>1. registry' \in {"previous", "user", "temporary"} /\ restore' = NotRestoring /\ serviceUp' \in {"down", "up"}
          /\ UNCHANGED <<marker, armed, running, started>>
      BY <1>4 DEF RestoreFails, Restored, HelperFails, SessionTypes, MarkInv, RestoreInv
    <3>2. active' \in {active, NoPrep} /\ verifying' \in {verifying, NoPrep} /\ arming' \in {"idle", arming}
          /\ armValue' \in {armValue, NoMarker} /\ closing' \in BOOLEAN
      BY <1>4 DEF RestoreFails, Restored, HelperFails, SessionTypes
    <3>3. preps' \in [Preps -> Preparations]
      BY <1>4 DEF RestoreFails, Restored, HelperFails, SessionTypes
    <3>4. QED BY <3>1, <3>2, <3>3 DEF SessionTypes
  <2>3. MarkInv'
    BY <1>4 DEF RestoreFails, Restored, HelperFails, SessionTypes, MarkInv, RestoreInv
  <2>4. RestoreInv'
    BY <1>4 DEF RestoreFails, Restored, HelperFails, SessionTypes, MarkInv, RestoreInv, Preparations
  <2>5. PrepInv'
    BY <1>4 DEF RestoreFails, Restored, HelperFails, SessionTypes, PrepInv, RestoreInv, Preparations
  <2>6. QED BY <2>2, <2>3, <2>4, <2>5
<1>5. QED BY <1>1, <1>2, <1>3, <1>4

\* The loss of the service, its end and its next start.
LEMMA RestartKeepsSession ==
    ASSUME SessionInv,
           CrashSession \/ ClosedSession \/ StartSession
    PROVE  SessionInv'
<1> USE SessionAssumption DEF SessionInv, PreparationIsActive, Preps, NoMarker, NoPrep, NotRestoring, NoProcess
<1>1. CASE CrashSession
  <2>1. preps' \in [Preps -> Preparations]
    BY <1>1 DEF CrashSession, Forget, FreshPrep, SessionTypes, PrepInv, Preparations
  <2>2. SessionTypes'
    <3>1. registry' \in {"previous", "user", "temporary"} /\ restore' = NotRestoring /\ serviceUp' \in {"down", "up"}
          /\ UNCHANGED <<marker, armed, running, started>>
      BY <1>1 DEF CrashSession, Forget, FreshPrep, SessionTypes, MarkInv, RestoreInv
    <3>2. active' \in {active, NoPrep} /\ verifying' \in {verifying, NoPrep} /\ arming' \in {"idle", arming}
          /\ armValue' \in {armValue, NoMarker} /\ closing' \in BOOLEAN
      BY <1>1 DEF CrashSession, Forget, FreshPrep, SessionTypes
    <3>3. preps' \in [Preps -> Preparations]
      BY <1>1, <2>1 DEF CrashSession, Forget, FreshPrep, SessionTypes
    <3>4. QED BY <3>1, <3>2, <3>3 DEF SessionTypes
  <2>3. MarkInv'
    BY <1>1 DEF CrashSession, Forget, FreshPrep, SessionTypes, MarkInv, RestoreInv
  <2>4. RestoreInv'
    BY <1>1 DEF CrashSession, Forget, FreshPrep, SessionTypes, MarkInv, RestoreInv, Preparations
  <2>5. PrepInv'
    BY <1>1 DEF CrashSession, Forget, FreshPrep, SessionTypes, PrepInv, RestoreInv, Preparations
  <2>6. QED BY <2>2, <2>3, <2>4, <2>5
<1>2. CASE ClosedSession
  <2>1. preps' \in [Preps -> Preparations]
    BY <1>2 DEF ClosedSession, Forget, FreshPrep, SessionTypes, PrepInv, Preparations
  <2>2. SessionTypes'
    BY <1>2, <2>1 DEF ClosedSession, Forget, FreshPrep, SessionTypes, MarkInv
  <2>3. MarkInv'
    BY <1>2 DEF ClosedSession, Forget, FreshPrep, SessionTypes, MarkInv, RestoreInv
  <2>4. RestoreInv'
    BY <1>2 DEF ClosedSession, Forget, FreshPrep, SessionTypes, MarkInv, RestoreInv, Preparations
  <2>5. PrepInv'
    BY <1>2 DEF ClosedSession, Forget, FreshPrep, SessionTypes, PrepInv, RestoreInv, Preparations
  <2>6. QED BY <2>2, <2>3, <2>4, <2>5
<1>3. CASE StartSession
  <2>2. SessionTypes'
    BY <1>3 DEF StartSession, SessionTypes, MarkInv
  <2>3. MarkInv'
    BY <1>3 DEF StartSession, SessionTypes, MarkInv, RestoreInv
  <2>4. RestoreInv'
    BY <1>3 DEF StartSession, SessionTypes, MarkInv, RestoreInv, Preparations
  <2>5. PrepInv'
    BY <1>3 DEF StartSession, SessionTypes, PrepInv, RestoreInv, Preparations
  <2>6. QED BY <2>2, <2>3, <2>4, <2>5
<1>4. QED BY <1>1, <1>2, <1>3


\* What touches neither the preparation nor the marker: a session is looked at, close() begins, time, the desktop.
LEMMA LookingKeepsSession ==
    ASSUME SessionInv,
           \/ VerifyBegin \/ VerifyFails \/ CloseSession \/ Expire \/ PuttyStarts \/ UserEdits
           \/ \E q \in running : PuttyExits(q)
    PROVE  SessionInv'
<1> USE SessionAssumption DEF SessionInv, PreparationIsActive, Preps, NoMarker, NoPrep, NotRestoring
<1>1. UNCHANGED <<marker, serviceUp, active, arming, armValue, preps, armed, restore, snapshot, unrestored>>
  BY DEF VerifyBegin, VerifyFails, CloseSession, Expire, PuttyStarts, UserEdits, PuttyExits
<1>2. registry' = registry \/ registry' = "user"
  BY DEF VerifyBegin, VerifyFails, CloseSession, Expire, PuttyStarts, UserEdits, PuttyExits
<1>3. verifying' \in {verifying, active, NoPrep} /\ (closing' = closing \/ closing' = TRUE)
  BY DEF VerifyBegin, VerifyFails, CloseSession, Expire, PuttyStarts, UserEdits, PuttyExits
<1>4. started' \in Nat /\ running' \subseteq Nat
  <2>1. CASE PuttyStarts
    BY <2>1 DEF SessionTypes, PuttyStarts
  <2>2. CASE ~PuttyStarts
    BY <2>2 DEF SessionTypes, VerifyBegin, VerifyFails, CloseSession, Expire, UserEdits, PuttyExits
  <2>3. QED BY <2>1, <2>2
<1>5. SessionTypes'
  <2>1. closing' \in BOOLEAN
    BY <1>3 DEF SessionTypes
  <2>2. verifying' \in 0..MaxPreps
    BY <1>3 DEF SessionTypes
  <2>3. registry' \in {"previous", "user", "temporary"}
    BY <1>2 DEF SessionTypes
  <2>4. QED BY <1>1, <1>4, <2>1, <2>2, <2>3 DEF SessionTypes
<1>6. MarkInv'
  BY <1>1, <1>2 DEF MarkInv
<1>7. RestoreInv'
  BY <1>1 DEF RestoreInv
<1>8. PrepInv'
  BY <1>1, <1>3 DEF PrepInv
<1>9. QED BY <1>5, <1>6, <1>7, <1>8
\* What the preparer and the desktop do by themselves: nothing that was not being prepared is, and close() is not taken back.
Settles ==
    /\ arming' # "idle" => arming # "idle"
    /\ active' # NoPrep => active # NoPrep \/ arming # "idle"
    /\ closing => closing'
    /\ serviceUp = "up" => serviceUp' = "up"

LEMMA PreparerSettles ==
    ASSUME SessionInv, Preparer
    PROVE  Settles
<1>1. CASE WriteMarker \/ MarkerFails \/ Arm \/ ArmFails
  BY <1>1 DEF Settles, WriteMarker, MarkerFails, Arm, ArmFails
<1>2. CASE CloseFinishes \/ \E p \in Preps : MonitorLoop(p) \/ MonitorListed(p) \/ MonitorFails(p)
  <2>1. UNCHANGED <<arming, active, closing, serviceUp>>
    BY <1>2 DEF CloseFinishes, MonitorLoop, MonitorListed, MonitorFails
  <2>2. QED BY <2>1 DEF Settles
<1>3. CASE RestoreRead \/ RestoreWrite \/ StartSession
  BY <1>3 DEF Settles, RestoreRead, RestoreWrite, StartSession
<1>4. CASE RestoreMarker \/ RestoreFails
  <2>1. restore.for # "nobody" /\ (restore.for = "initialize" => serviceUp = "recovering")
    BY <1>4 DEF SessionInv, SessionTypes, RestoreInv, RestoreMarker, RestoreFails
  <2>2. restore.for \in {"nobody", "finish", "arm", "initialize"}
    BY DEF SessionInv, SessionTypes
  <2>3. Restored(TRUE) \/ Restored(FALSE)
    BY <1>4 DEF RestoreMarker, RestoreFails
  <2>4. CASE restore.for = "finish"
    BY <2>3, <2>4 DEF Settles, Restored
  <2>5. CASE restore.for = "arm"
    BY <2>3, <2>5 DEF Settles, Restored
  <2>6. CASE restore.for = "initialize"
    BY <2>1, <2>3, <2>6 DEF Settles, Restored
  <2>7. QED BY <2>1, <2>2, <2>4, <2>5, <2>6
<1>5. QED BY <1>1, <1>2, <1>3, <1>4 DEF Preparer

(***************************************************************************)
(* The handlers.                                                           *)
(***************************************************************************)
HandlerInv == TypeOK /\ PhaseInv /\ FlagInv /\ ServerInv

\* The server's own state is left alone.
LEMMA QuietKeepsHandlers ==
    ASSUME HandlerInv, Settles, UNCHANGED serverVars
    PROVE  HandlerInv'
<1> USE DEF HandlerInv, serverVars
<1>1. TypeOK' /\ PhaseInv' /\ FlagInv'
  BY DEF TypeOK, PhaseInv, FlagInv
<1>2. ServerInv'
  BY DEF ServerInv, Settles
<1>3. QED BY <1>1, <1>2

\* A handler ends; the one that prepares a session only when that was armed or given up.
LEMMA AnsweredKeepsHandlers ==
    ASSUME HandlerInv, Settles, NEW s \in Slots, Answered(s),
           req[s] = [kind |-> "prepare", phase |-> "arming"] => arming' = "idle"
    PROVE  HandlerInv'
<1> USE DEF HandlerInv, Answered
<1>1. TypeOK'
  BY DEF TypeOK, Free
<1>2. /\ req'[s] = Free
      /\ \A t \in Slots : t # s => req'[t] = req[t]
  BY DEF TypeOK
<1>3. /\ activeRun' = IF activeRun = s THEN NoRequest ELSE activeRun
      /\ mutating' <=> mutating /\ req[s].kind # "save"
      /\ prepRequest' <=> prepRequest /\ req[s].kind # "prepare"
      /\ stage' = stage
  OBVIOUS
<1>4. PhaseInv'
  BY <1>2 DEF PhaseInv, Free
<1>5. FlagInv'
  <2>1. \A t \in Slots : req'[t].kind # "none" => t # s /\ req'[t] = req[t]
    BY <1>2 DEF Free
  <2>2. \A t \in Slots : req'[t].kind = "save" => req[s].kind # "save" /\ mutating
    BY <2>1 DEF FlagInv
  <2>3. \A t \in Slots : req'[t].kind = "prepare" => req[s].kind # "prepare" /\ prepRequest
    BY <2>1 DEF FlagInv
  <2>4. \A t \in Slots : req'[t].kind \in Foreground \cup {"status"} => activeRun' = t
    BY <1>3, <2>1 DEF FlagInv, Foreground
  <2>5. QED BY <1>3, <2>1, <2>2, <2>3, <2>4 DEF FlagInv
<1>6. ServerInv'
  <2>1. mutating' => activeRun' = NoRequest /\ ~prepRequest' /\ arming' = "idle" /\ active' = NoPrep
    BY <1>3 DEF ServerInv, Settles
  <2>2. arming' # "idle" => prepRequest' /\ \E t \in Slots : req'[t] = [kind |-> "prepare", phase |-> "arming"]
    <3>1. SUFFICES ASSUME arming' # "idle"
                   PROVE  prepRequest' /\ \E t \in Slots : req'[t] = [kind |-> "prepare", phase |-> "arming"]
      OBVIOUS
    <3>2. PICK t \in Slots : req[t] = [kind |-> "prepare", phase |-> "arming"]
      BY <3>1 DEF ServerInv, Settles
    <3>3. t # s
      BY <3>1, <3>2
    <3>4. req[s].kind # "prepare"
      BY <3>2, <3>3 DEF FlagInv
    <3>5. QED BY <1>2, <1>3, <3>1, <3>2, <3>3, <3>4 DEF ServerInv, Settles
  <2>3. /\ stage' # "open" => closing' /\ serviceUp' = "up"
        /\ stage' = "configuration" => arming' = "idle" /\ active' = NoPrep
    BY <1>3 DEF ServerInv, Settles
  <2>4. QED BY <2>1, <2>2, <2>3 DEF ServerInv
<1>7. QED BY <1>1, <1>4, <1>5, <1>6

\* A handler goes on to its next await.
LEMMA GotoKeepsHandlers ==
    ASSUME HandlerInv, Settles, NEW s \in Slots,
           NEW phase \in {"read", "apply", "verify", "finishing"}, Goto(s, phase),
           phase \in {"read", "apply"} => req[s].kind \in {"save", "check", "status"},
           req[s].kind = "save" => phase \in {"read", "apply"},
           req[s].kind # "prepare",
           UNCHANGED <<activeRun, mutating, prepRequest, verification, stage>>
    PROVE  HandlerInv'
<1> USE DEF HandlerInv, Goto
<1>1. TypeOK'
  BY DEF TypeOK
<1>2. /\ req'[s] = [kind |-> req[s].kind, phase |-> phase]
      /\ \A t \in Slots : t # s => req'[t] = req[t]
  BY DEF TypeOK
<1>3. PhaseInv'
  BY <1>2 DEF PhaseInv
<1>4. FlagInv'
  BY <1>2 DEF FlagInv, Foreground
<1>5. ServerInv'
  BY <1>2 DEF ServerInv, Settles
<1>6. QED BY <1>1, <1>3, <1>4, <1>5

\* A request is admitted: what it may not meet is looked at, and its flag set, in one go.
LEMMA AdmitKeepsHandlers ==
    ASSUME HandlerInv, SessionInv, NEW s \in Slots, NEW kind \in Kinds, Admit(s, kind)
    PROVE  HandlerInv'
<1> USE DEF HandlerInv
<1>1. req[s] = Free /\ UNCHANGED <<stage, sessionVars>> /\ Admissible(kind)
  BY DEF Admit
<1>2. /\ FirstPhase(kind) \in {"read", "resolve", "arming", "gateway"}
      /\ kind = "save" <=> FirstPhase(kind) = "read"
      /\ kind = "prepare" <=> FirstPhase(kind) = "resolve"
  BY DEF FirstPhase
<1>3. /\ req'[s] = [kind |-> kind, phase |-> FirstPhase(kind)]
      /\ \A t \in Slots : t # s => req'[t] = req[t]
  BY DEF TypeOK, Admit
<1>4. /\ activeRun' = IF kind \in Foreground \cup {"status"} THEN s ELSE activeRun
      /\ mutating' <=> mutating \/ kind = "save"
      /\ prepRequest' <=> prepRequest \/ kind = "prepare"
  BY DEF Admit
<1>5. TypeOK'
  <2>1. req' \in [Slots -> [kind : Kinds \cup {"none"}, phase : {"free", "gateway", "read", "apply", "resolve", "arming",
                                                                  "verify", "finishing"}]]
    BY <1>2 DEF TypeOK, Admit
  <2>2. {mutating', prepRequest', verification'} \subseteq BOOLEAN /\ activeRun' \in Slots \cup {NoRequest}
    BY DEF TypeOK, Admit
  <2>3. QED BY <1>1, <2>1, <2>2 DEF TypeOK
<1>6. PhaseInv'
  BY <1>2, <1>3 DEF PhaseInv
<1>7. FlagInv'
  <2>1. kind \in Foreground \cup {"status"} => activeRun = NoRequest
    BY <1>1 DEF Admissible, Foreground
  <2>2. kind \in Foreground \cup {"status"} => \A t \in Slots : req[t].kind \notin Foreground \cup {"status"}
    BY <2>1, ServerAssumption DEF FlagInv
  <2>3. kind = "save" => \A t \in Slots : req[t].kind # "save"
    BY <1>1 DEF Admissible, Foreground, FlagInv
  <2>4. kind = "prepare" => \A t \in Slots : req[t].kind # "prepare"
    BY <1>1 DEF Admissible, Foreground, FlagInv
  <2>5. QED BY <1>3, <1>4, <2>2, <2>3, <2>4 DEF FlagInv
<1>8. ServerInv'
  <2>1. kind \in Foreground \cup {"status"} => ~mutating
    BY <1>1 DEF Admissible, Foreground
  <2>2. kind = "prepare" => ~mutating
    BY <1>1 DEF Admissible, Foreground
  <2>3. kind = "save" => activeRun = NoRequest /\ ~prepRequest /\ ~PreparationIsActive
    BY <1>1 DEF Admissible, Foreground
  <2>4. kind = "save" => arming = "idle" /\ active = NoPrep
    BY <2>3 DEF ServerInv, SessionInv, PrepInv
  <2>5. mutating' => activeRun' = NoRequest /\ ~prepRequest' /\ arming' = "idle" /\ active' = NoPrep
    BY <1>1, <1>4, <2>1, <2>2, <2>3, <2>4 DEF ServerInv, Foreground, sessionVars
  <2>6. arming' # "idle" => prepRequest' /\ \E t \in Slots : req'[t] = [kind |-> "prepare", phase |-> "arming"]
    BY <1>1, <1>3, <1>4 DEF ServerInv, Free, sessionVars
  <2>7. QED BY <1>1, <2>5, <2>6 DEF ServerInv, sessionVars
<1>9. QED BY <1>5, <1>6, <1>7, <1>8

\* A preparation begins: its handler resolved the target first, and the flag it set kept every save away.
LEMMA ResolvedKeepsHandlers ==
    ASSUME HandlerInv, NEW s \in Slots, Resolved(s)
    PROVE  HandlerInv'
<1> USE DEF HandlerInv
<1>1. /\ req[s].phase = "resolve" /\ ~closing /\ arming' = "marker"
      /\ UNCHANGED <<active, closing, serviceUp, activeRun, mutating, prepRequest, verification, stage>>
  BY DEF Resolved, PrepareSession
<1>2. req[s].kind = "prepare"
  BY <1>1 DEF PhaseInv
<1>3. prepRequest /\ ~mutating /\ stage = "open"
  BY <1>1, <1>2, Zenon DEF FlagInv, ServerInv
<1>4. req'[s] = [kind |-> "prepare", phase |-> "arming"] /\ \A t \in Slots : t # s => req'[t] = req[t]
  BY <1>2 DEF Resolved, Goto, TypeOK
<1>5. TypeOK'
  BY <1>1 DEF TypeOK, Resolved, Goto
<1>6. PhaseInv'
  BY <1>4 DEF PhaseInv
<1>7. FlagInv'
  BY <1>1, <1>2, <1>4 DEF FlagInv, Foreground
<1>8. ServerInv'
  BY <1>1, <1>3, <1>4 DEF ServerInv
<1>9. QED BY <1>5, <1>6, <1>7, <1>8
\* close() begins and passes the preparer; the server is gone, after close() or without it.
LEMMA ClosingKeepsHandlers ==
    ASSUME HandlerInv, CloseServer \/ CloseConnections \/ ServerClosed \/ Crash
    PROVE  HandlerInv'
<1> USE DEF HandlerInv
<1>1. CASE CloseServer
  <2>1. UNCHANGED <<req, activeRun, mutating, prepRequest, verification, arming, active, serviceUp>>
        /\ closing' = TRUE /\ stage' = "preparer" /\ serviceUp = "up"
    BY <1>1 DEF CloseServer, CloseSession
  <2>2. TypeOK' /\ PhaseInv' /\ FlagInv'
    BY <2>1 DEF TypeOK, PhaseInv, FlagInv
  <2>3. ServerInv'
    BY <2>1 DEF ServerInv
  <2>4. QED BY <2>2, <2>3
<1>2. CASE CloseConnections
  <2>1. TypeOK' /\ PhaseInv' /\ FlagInv'
    BY <1>2 DEF CloseConnections, TypeOK, PhaseInv, FlagInv
  <2>2. ServerInv'
    BY <1>2 DEF CloseConnections, ServerInv, sessionVars
  <2>3. QED BY <2>1, <2>2
<1>3. CASE ServerClosed \/ Crash
  <2>1. ServerGone /\ Forget
    BY <1>3 DEF ServerClosed, Crash, ClosedSession, CrashSession
  <2>2. TypeOK'
    BY <2>1 DEF ServerGone, Free, TypeOK
  <2>3. PhaseInv' /\ FlagInv'
    BY <2>1 DEF ServerGone, Free, PhaseInv, FlagInv, Foreground
  <2>4. ServerInv'
    BY <2>1 DEF ServerGone, Forget, ServerInv
  <2>5. QED BY <2>2, <2>3, <2>4
<1>4. QED BY <1>1, <1>2, <1>3

\* A handler's step that leaves the session alone.
LEMMA HandlerAlone ==
    ASSUME PageInv, UNCHANGED sessionVars
    PROVE  SessionInv' /\ Settles /\ arming' = arming
<1>1. SessionInv'
  BY DEF PageInv, sessionVars, SessionInv, SessionTypes, MarkInv, RestoreInv, PrepInv, PreparationIsActive
<1>2. QED BY <1>1 DEF Settles, sessionVars

(***************************************************************************)
(* The steps of a handler.                                                 *)
(***************************************************************************)
LEMMA HandlerKeepsPage ==
    ASSUME PageInv, NEW s \in Slots, Handler(s)
    PROVE  PageInv'
<1> SUFFICES SessionInv' /\ HandlerInv'
  BY DEF PageInv, HandlerInv
<1> USE DEF PageInv
<1>1. HandlerInv /\ SessionInv
  BY DEF HandlerInv
<1>2. CASE GatewayEnds(s) \/ ReadRefused(s) \/ ApplyEnds(s) \/ NotResolved(s) \/ Prepared(s) \/ FinishAwaited(s)
  <2>1. UNCHANGED sessionVars /\ Answered(s)
    BY <1>2 DEF GatewayEnds, ReadRefused, ApplyEnds, NotResolved, Prepared, FinishAwaited
  <2>2. req[s] = [kind |-> "prepare", phase |-> "arming"] => arming = "idle"
    BY <1>2 DEF GatewayEnds, ReadRefused, ApplyEnds, NotResolved, Prepared, FinishAwaited
  <2>3. QED BY <1>1, <2>1, <2>2, HandlerAlone, AnsweredKeepsHandlers
<1>3. CASE GatewayConnected(s) \/ ReadAccepted(s) \/ LearnedAlready(s) \/ Learned(s)
  <2>1. UNCHANGED sessionVars /\ UNCHANGED <<activeRun, mutating, prepRequest, verification, stage>>
    BY <1>3 DEF GatewayConnected, ReadAccepted, LearnedAlready, Learned
  <2>2. \E phase \in {"read", "apply", "verify"} :
           /\ Goto(s, phase)
           /\ phase \in {"read", "apply"} => req[s].kind \in {"save", "check", "status"}
           /\ req[s].kind = "save" => phase \in {"read", "apply"}
    BY <1>3 DEF GatewayConnected, ReadAccepted, LearnedAlready, Learned, PhaseInv
  <2>3. req[s].kind # "prepare"
    BY <1>3 DEF GatewayConnected, ReadAccepted, LearnedAlready, Learned, PhaseInv
  <2>4. QED BY <1>1, <2>1, <2>2, <2>3, HandlerAlone, GotoKeepsHandlers
<1>4. CASE GatewayMismatch(s)
  <2>1. CASE active # NoPrep
    <3>1. /\ RejectSession /\ Goto(s, "finishing") /\ req[s].kind = "status"
          /\ UNCHANGED <<activeRun, mutating, prepRequest, verification, stage>>
      BY <1>4, <2>1 DEF GatewayMismatch
    <3>2. SessionInv'
      BY <1>1, <3>1, FinishingKeepsSession
    <3>3. Settles
      BY <3>1 DEF RejectSession, Settles
    <3>4. HandlerInv'
      BY <1>1, <3>1, <3>3, GotoKeepsHandlers
    <3>5. QED BY <3>2, <3>4
  <2>2. CASE active = NoPrep
    <3>1. UNCHANGED sessionVars /\ Answered(s) /\ req[s].kind = "status"
      BY <1>4, <2>2 DEF GatewayMismatch
    <3>2. QED BY <1>1, <3>1, HandlerAlone, AnsweredKeepsHandlers
  <2>3. QED BY <2>1, <2>2
<1>5. CASE Resolved(s)
  <2>1. SessionInv'
    BY <1>1, <1>5, ArmingKeepsSession DEF Resolved
  <2>2. QED BY <1>1, <1>5, <2>1, ResolvedKeepsHandlers
<1>6. CASE NotPrepared(s)
  <2>1. PrepareFails /\ Answered(s) /\ req[s].phase = "resolve"
    BY <1>6 DEF NotPrepared
  <2>2. SessionInv'
    BY <1>1, <2>1, ArmingKeepsSession
  <2>3. Settles
    BY <2>1 DEF PrepareFails, Settles
  <2>4. HandlerInv'
    BY <1>1, <2>1, <2>3, AnsweredKeepsHandlers
  <2>5. QED BY <2>2, <2>4
<1>7. CASE Verify(s)
  <2>1. CASE VerifyBegin /\ UNCHANGED serverVars
    <3>1. SessionInv'
      BY <1>1, <2>1, LookingKeepsSession
    <3>2. Settles
      BY <2>1 DEF VerifyBegin, Settles
    <3>3. HandlerInv'
      BY <1>1, <2>1, <3>2, QuietKeepsHandlers
    <3>4. QED BY <3>1, <3>3
  <2>2. CASE Answered(s) /\ UNCHANGED sessionVars
    <3>1. req[s].phase = "verify"
      BY <1>7 DEF Verify
    <3>2. QED BY <1>1, <2>2, <3>1, HandlerAlone, AnsweredKeepsHandlers
  <2>3. QED BY <1>7, <2>1, <2>2 DEF Verify
<1>8. CASE Verified(s)
  <2>1. /\ VerifyEnd /\ Goto(s, "finishing") /\ req[s].phase = "verify"
        /\ UNCHANGED <<activeRun, mutating, prepRequest, verification, stage>>
    BY <1>8 DEF Verified
  <2>2. SessionInv'
    BY <1>1, <2>1, FinishingKeepsSession
  <2>3. Settles
    BY <2>1 DEF VerifyEnd, Settles
  <2>4. req[s].kind # "save" /\ req[s].kind # "prepare"
    BY <2>1 DEF PhaseInv
  <2>5. HandlerInv'
    BY <1>1, <2>1, <2>3, <2>4, GotoKeepsHandlers
  <2>6. QED BY <2>2, <2>5
<1>9. CASE NotVerified(s)
  <2>1. VerifyFails /\ Answered(s) /\ req[s].phase = "verify"
    BY <1>9 DEF NotVerified
  <2>2. SessionInv'
    BY <1>1, <2>1, LookingKeepsSession
  <2>3. Settles
    BY <2>1 DEF VerifyFails, Settles
  <2>4. HandlerInv'
    BY <1>1, <2>1, <2>3, AnsweredKeepsHandlers
  <2>5. QED BY <2>2, <2>4
<1>10. CASE Cancel(s)
  <2>1. /\ CancelSession \/ UNCHANGED sessionVars
        /\ Goto(s, "finishing") /\ req[s].kind = "cancel"
        /\ UNCHANGED <<activeRun, mutating, prepRequest, verification, stage>>
    BY <1>10 DEF Cancel
  <2>2. SessionInv'
    BY <1>1, <2>1, FinishingKeepsSession, HandlerAlone
  <2>3. Settles
    BY <2>1 DEF CancelSession, Settles, sessionVars
  <2>4. HandlerInv'
    BY <1>1, <2>1, <2>3, GotoKeepsHandlers
  <2>5. QED BY <2>2, <2>4
<1>11. QED BY <1>2, <1>3, <1>4, <1>5, <1>6, <1>7, <1>8, <1>9, <1>10 DEF Handler

LEMMA PageInit ==
    ASSUME Init
    PROVE  PageInv
<1> USE SessionAssumption DEF Init, InitSession
<1>1. SessionTypes
  <2>1. preps \in [Preps -> Preparations]
    BY DEF FreshPrep, Preparations, NoProcess
  <2>2. restore \in [for : {"nobody", "finish", "arm", "initialize"}, next : {"none", "read", "write", "marker"}]
        /\ restore.for = "nobody" /\ restore.next = "none"
    BY DEF NotRestoring
  <2>3. armed \in 0..MaxPreps /\ active \in 0..MaxPreps /\ verifying \in 0..MaxPreps
    BY DEF NoPrep
  <2>4. started \in Nat /\ running \subseteq Nat /\ closing \in BOOLEAN
    OBVIOUS
  <2>5. /\ registry = "previous" /\ marker = NoMarker /\ serviceUp = "up"
        /\ arming = "idle" /\ armValue = NoMarker
    OBVIOUS
  <2>6. QED BY ONLY <2>1, <2>2, <2>3, <2>4, <2>5 DEF SessionTypes
<1>2. MarkInv /\ RestoreInv /\ PrepInv
  BY DEF MarkInv, RestoreInv, PrepInv, NotRestoring, NoPrep, FreshPrep
<1>3. TypeOK
  BY DEF TypeOK, Free
<1>4. PhaseInv /\ FlagInv /\ ServerInv
  BY DEF PhaseInv, FlagInv, ServerInv, Free, Foreground
<1>5. QED BY <1>1, <1>2, <1>3, <1>4 DEF PageInv, SessionInv

LEMMA PageStep ==
    ASSUME PageInv, [Next]_vars
    PROVE  PageInv'
<1> SUFFICES SessionInv' /\ HandlerInv'
  BY DEF PageInv, HandlerInv
<1>1. HandlerInv /\ SessionInv
  BY DEF PageInv, HandlerInv
<1>2. CASE \E s \in Slots : Handler(s)
  BY <1>2, HandlerKeepsPage DEF PageInv, HandlerInv
<1>3. CASE \E s \in Slots, kind \in Kinds : Admit(s, kind)
  <2>1. UNCHANGED sessionVars
    BY <1>3 DEF Admit
  <2>2. QED BY <1>1, <1>3, <2>1, AdmitKeepsHandlers, HandlerAlone
<1>4. CASE CloseServer \/ CloseConnections \/ ServerClosed \/ Crash
  <2>1. CloseSession \/ UNCHANGED sessionVars \/ ClosedSession \/ CrashSession
    BY <1>4 DEF CloseServer, CloseConnections, ServerClosed, Crash
  <2>2. SessionInv'
    BY <1>1, <2>1, LookingKeepsSession, HandlerAlone, RestartKeepsSession
  <2>3. QED BY <1>1, <1>4, <2>2, ClosingKeepsHandlers
<1>5. CASE Preparer
  <2>1. SessionInv'
    BY <1>1, <1>5, ArmingKeepsSession, MonitoringKeepsSession, FinishingKeepsSession, RestoringKeepsSession,
       RestartKeepsSession DEF Preparer
  <2>2. HandlerInv'
    BY <1>1, <1>5, PreparerSettles, QuietKeepsHandlers DEF Preparer
  <2>3. QED BY <2>1, <2>2
<1>6. CASE Desktop
  <2>1. SessionInv'
    BY <1>1, <1>6, LookingKeepsSession DEF Desktop
  <2>2. Settles
    BY <1>6 DEF Desktop, Settles, Expire, PuttyStarts, UserEdits, PuttyExits
  <2>3. HandlerInv'
    BY <1>1, <1>6, <2>2, QuietKeepsHandlers DEF Desktop
  <2>4. QED BY <2>1, <2>3
<1>7. CASE UNCHANGED vars
  <2>1. UNCHANGED sessionVars /\ UNCHANGED serverVars
    BY <1>7 DEF vars
  <2>2. QED BY <1>1, <2>1, HandlerAlone, QuietKeepsHandlers
<1>8. QED BY <1>2, <1>3, <1>4, <1>5, <1>6, <1>7 DEF Next

\* What the invariant says of the page: the handlers that must not overlap do not, and the setting is not lost.
LEMMA PageMeans ==
    ASSUME PageInv
    PROVE  OperationsExclude /\ SettingNotLost
<1> USE DEF PageInv
<1>1. ExclusiveOperations
  <2>1. SUFFICES ASSUME NEW s \in Slots, NEW t \in Slots, s # t, Changing(s)
                 PROVE  ~Changing(t) /\ ~Operating(t)
    BY DEF ExclusiveOperations
  <2>2. CASE req[s].kind = "save"
    <3>1. mutating /\ activeRun = NoRequest /\ req[t].kind # "save"
      BY <2>1, <2>2 DEF FlagInv, ServerInv
    <3>2. req[t].kind \notin Foreground \cup {"status"}
      BY <3>1, ServerAssumption DEF FlagInv
    <3>3. QED BY <3>1, <3>2 DEF Changing, Operating, PhaseInv, Foreground
  <2>3. CASE req[s].kind \in Foreground \cup {"status"}
    <3>1. activeRun = s
      BY <2>3 DEF FlagInv
    <3>2. req[t].kind \notin Foreground \cup {"status"}
      BY <2>1, <3>1 DEF FlagInv
    <3>3. req[t].kind # "save"
      BY <3>1, ServerAssumption DEF FlagInv, ServerInv
    <3>4. QED BY <3>2, <3>3 DEF Changing, Operating, PhaseInv, Foreground
  <2>4. req[s].kind \in {"save", "check", "status"}
    BY <2>1 DEF Changing, PhaseInv
  <2>5. QED BY <2>2, <2>3, <2>4 DEF Foreground
<1>2. PreparationUndisturbed
  BY DEF PreparationUndisturbed, FlagInv, ServerInv
<1>3. SettingNotLost
  <2>1. marker \in {NoMarker, "previous", "user"}
    BY DEF SessionInv, SessionTypes
  <2>2. TemporaryIsMarked
    BY <2>1 DEF TemporaryIsMarked, SessionInv, MarkInv
  <2>3. CloseRestores
    BY DEF CloseRestores, SessionInv, MarkInv, ServerInv
  <2>4. QED BY <2>2, <2>3 DEF SettingNotLost
<1>4. QED BY <1>1, <1>2, <1>3 DEF OperationsExclude
(***************************************************************************)
(* The pipe, with room for one connection or for several: the limits say   *)
(* when a connection or a frame is refused, and nothing below depends on   *)
(* when that is, only on what it does.                                     *)
(***************************************************************************)
Connects(c) ==
    /\ client[c] = "new"
    /\ client' = [client EXCEPT ![c] = "opening"]
    /\ link' = [link EXCEPT ![c] = "up"] \/ link' = [link EXCEPT ![c] = "down"]
    /\ up' = up \/ up' = [up EXCEPT ![c] = <<Rpc!Open>>]
    /\ UNCHANGED <<down, conn, promise, exec>>

TakesRun(c) ==
    /\ Rpc!Alive(c) /\ up[c] # <<>> /\ Head(up[c]).what = "run"
    /\ \/ Rpc!Destroyed(c) /\ UNCHANGED <<down, exec>>
       \/ /\ up' = [up EXCEPT ![c] = Tail(@)] /\ UNCHANGED link
          /\ \/ exec' = [exec EXCEPT ![Head(up[c]).of] = "running"] /\ UNCHANGED down
             \/ down' = [down EXCEPT ![c] = IF client[c] = "open" THEN Append(@, Rpc!Run(Head(up[c]).of)) ELSE @]
                /\ UNCHANGED exec
    /\ UNCHANGED <<client, conn, promise>>

TakesCancel(c) ==
    /\ Rpc!Alive(c) /\ up[c] # <<>> /\ Head(up[c]).what = "cancel"
    /\ \/ Rpc!Destroyed(c) /\ UNCHANGED exec
       \/ /\ up' = [up EXCEPT ![c] = Tail(@)] /\ UNCHANGED link
          /\ Rpc!Stopped({Head(up[c]).of}) \/ UNCHANGED exec
    /\ UNCHANGED <<client, down, conn, promise>>

PipeStep(c) == \/ Rpc!ClientReceives(c) \/ Rpc!ClientCloses(c) \/ Rpc!ClientSeesDown(c) \/ Rpc!ClientDies(c)
               \/ Rpc!AcceptOpen(c) \/ Rpc!RejectOpen(c) \/ Rpc!HandshakeTimeout(c) \/ Rpc!PeerEnded(c)
               \/ Rpc!DispatchSettles(c) \/ Rpc!CloseConnection(c)
               \/ Connects(c) \/ TakesRun(c) \/ TakesCancel(c)
RequestStep(r) == Rpc!Abort(r) \/ Rpc!RequestTimeout(r) \/ Rpc!ExecEnds(r) \/ Rpc!AnswerTooLarge(r)
PipeNext == \/ \E c \in Conns : PipeStep(c) \/ \E r \in Requests : Rpc!Send(c, r)
            \/ \E r \in Requests : RequestStep(r)
            \/ Rpc!Activate \/ Rpc!CloseServer

LEMMA RpcNext ==
    ASSUME Rpc!Next
    PROVE  PipeNext
<1>1. ASSUME NEW c \in Conns, Rpc!Connect(c) \/ Rpc!ConnectSilently(c)
      PROVE  Connects(c)
  BY <1>1 DEF Connects, Rpc!Connect, Rpc!ConnectSilently
<1>2. ASSUME NEW c \in Conns, Rpc!AcceptRun(c)
      PROVE  TakesRun(c)
  BY <1>2 DEF TakesRun, Rpc!AcceptRun
<1>3. ASSUME NEW c \in Conns, Rpc!AcceptCancel(c)
      PROVE  TakesCancel(c)
  BY <1>3 DEF TakesCancel, Rpc!AcceptCancel
<1>4. QED BY <1>1, <1>2, <1>3 DEF Rpc!Next, Rpc!ClientStep, Rpc!ServerStep, PipeNext, PipeStep, RequestStep

LEMMA CrowdedNext ==
    ASSUME Crowded!Next
    PROVE  PipeNext
<1> USE DEF Crowded!Alive, Rpc!Alive, Crowded!Of, Rpc!Of, Crowded!Waiting, Rpc!Waiting, Crowded!Connected, Rpc!Connected,
        Crowded!Destroyed, Rpc!Destroyed, Crowded!Unread, Rpc!Unread, Crowded!Rejected, Rpc!Rejected,
        Crowded!Stopped, Rpc!Stopped, Crowded!SentCancel, Rpc!SentCancel, Crowded!Run, Rpc!Run,
        Crowded!CancelOf, Rpc!CancelOf, Crowded!Open, Rpc!Open
<1>1. ASSUME NEW c \in Conns, Crowded!Connect(c) \/ Crowded!ConnectSilently(c)
      PROVE  Connects(c)
  BY <1>1 DEF Connects, Crowded!Connect, Crowded!ConnectSilently
<1>2. ASSUME NEW c \in Conns, Crowded!AcceptRun(c)
      PROVE  TakesRun(c)
  BY <1>2 DEF TakesRun, Crowded!AcceptRun
<1>3. ASSUME NEW c \in Conns, Crowded!AcceptCancel(c)
      PROVE  TakesCancel(c)
  BY <1>3 DEF TakesCancel, Crowded!AcceptCancel
<1>4. ASSUME NEW c \in Conns
      PROVE  /\ Crowded!ClientReceives(c) <=> Rpc!ClientReceives(c)
             /\ Crowded!ClientCloses(c) <=> Rpc!ClientCloses(c)
             /\ Crowded!ClientSeesDown(c) <=> Rpc!ClientSeesDown(c)
             /\ Crowded!ClientDies(c) <=> Rpc!ClientDies(c)
  BY DEF Crowded!ClientReceives, Rpc!ClientReceives, Crowded!ClientCloses, Rpc!ClientCloses, Crowded!ClientSeesDown,
         Rpc!ClientSeesDown, Crowded!ClientDies, Rpc!ClientDies
<1>5. ASSUME NEW c \in Conns
      PROVE  /\ Crowded!AcceptOpen(c) <=> Rpc!AcceptOpen(c)
             /\ Crowded!RejectOpen(c) <=> Rpc!RejectOpen(c)
             /\ Crowded!HandshakeTimeout(c) <=> Rpc!HandshakeTimeout(c)
             /\ Crowded!PeerEnded(c) <=> Rpc!PeerEnded(c)
             /\ Crowded!DispatchSettles(c) <=> Rpc!DispatchSettles(c)
             /\ Crowded!CloseConnection(c) <=> Rpc!CloseConnection(c)
  BY DEF Crowded!AcceptOpen, Rpc!AcceptOpen, Crowded!RejectOpen, Rpc!RejectOpen, Crowded!HandshakeTimeout,
         Rpc!HandshakeTimeout, Crowded!PeerEnded, Rpc!PeerEnded, Crowded!DispatchSettles, Rpc!DispatchSettles,
         Crowded!CloseConnection, Rpc!CloseConnection
<1>6. ASSUME NEW c \in Conns, NEW r \in Requests
      PROVE  Crowded!Send(c, r) <=> Rpc!Send(c, r)
  BY DEF Crowded!Send, Rpc!Send
<1>7. ASSUME NEW r \in Requests
      PROVE  /\ Crowded!Abort(r) <=> Rpc!Abort(r)
             /\ Crowded!RequestTimeout(r) <=> Rpc!RequestTimeout(r)
             /\ Crowded!ExecEnds(r) <=> Rpc!ExecEnds(r)
             /\ Crowded!AnswerTooLarge(r) <=> Rpc!AnswerTooLarge(r)
  BY DEF Crowded!Abort, Rpc!Abort, Crowded!RequestTimeout, Rpc!RequestTimeout, Crowded!ExecEnds, Rpc!ExecEnds,
         Crowded!AnswerTooLarge, Rpc!AnswerTooLarge
<1>8. (Crowded!Activate <=> Rpc!Activate) /\ (Crowded!CloseServer <=> Rpc!CloseServer)
  BY DEF Crowded!Activate, Rpc!Activate, Crowded!CloseServer, Rpc!CloseServer
<1>9. QED BY <1>1, <1>2, <1>3, <1>4, <1>5, <1>6, <1>7, <1>8
          DEF Crowded!Next, Crowded!ClientStep, Crowded!ServerStep, PipeNext, PipeStep, RequestStep
LEMMA Tails ==
    ASSUME NEW s \in Seq(Frames), s # <<>>
    PROVE  /\ Tail(s) \in Seq(Frames) /\ Head(s) = s[1] /\ 1 \in 1..Len(s) /\ Len(s) \in Nat
           /\ Len(Tail(s)) = Len(s) - 1
           /\ \A i \in 1..Len(Tail(s)) : Tail(s)[i] = s[i + 1]
  OBVIOUS

LEMMA Appends ==
    ASSUME NEW s \in Seq(Frames), NEW f \in Frames
    PROVE  /\ Append(s, f) \in Seq(Frames) /\ Len(Append(s, f)) = Len(s) + 1 /\ Len(s) \in Nat
           /\ \A i \in 1..Len(s) : Append(s, f)[i] = s[i]
           /\ Append(s, f)[Len(s) + 1] = f
  OBVIOUS

\* The requests among the frames t were among the frames s, in that order: none is new, none is there twice.
From(s, t) == \E k \in Nat : \A j \in 1..Len(t) : t[j] \in Runs => j + k \in 1..Len(s) /\ t[j] = s[j + k]

LEMMA Froms ==
    ASSUME NEW s \in Seq(Frames), NEW t,
           \/ t = s \/ t = <<>>
           \/ s # <<>> /\ t = Tail(s)
           \/ \E f \in Frames : f \notin Runs /\ (t = Append(s, f) \/ t = <<f>>)
    PROVE  From(s, t)
<1>1. CASE t = s \/ t = <<>>
  BY <1>1 DEF From
<1>2. CASE s # <<>> /\ t = Tail(s)
  <2>1. \A j \in 1..Len(t) : j + 1 \in 1..Len(s) /\ t[j] = s[j + 1]
    BY <1>2, Tails
  <2>2. QED BY <2>1 DEF From
<1>3. CASE \E f \in Frames : f \notin Runs /\ (t = Append(s, f) \/ t = <<f>>)
  <2>1. PICK f \in Frames : f \notin Runs /\ (t = Append(s, f) \/ t = <<f>>)
    BY <1>3
  <2>2. \A j \in 1..Len(t) : t[j] = f \/ (j \in 1..Len(s) /\ t[j] = s[j])
    BY <2>1, Appends
  <2>3. \A j \in 1..Len(t) : t[j] \in Runs => j + 0 \in 1..Len(s) /\ t[j] = s[j + 0]
    BY <2>1, <2>2
  <2>4. QED BY <2>3 DEF From
<1>4. QED BY <1>1, <1>2, <1>3

\* What no step takes back.
Onward ==
    /\ \A c \in Conns : client[c] # "new" => client'[c] # "new" /\ (link[c] = "down" => link'[c] = "down")
    /\ \A r \in Requests : promise[r] # "none" => promise'[r] # "none" /\ conn'[r] = conn[r]
    /\ \A r \in Requests : promise[r] \in GivenUp => promise'[r] \in GivenUp
    /\ \A r \in Requests : exec[r] = "ended" => exec'[r] = "ended"

(***************************************************************************)
(* What every step but the sending of a request does: no request is        *)
(* written, one is answered only when it is over, and stopped only when    *)
(* its caller gave it up or its connection went down.                      *)
(***************************************************************************)
UpOrdinary ==
    /\ \A c \in Conns : From(up[c], up'[c])
    /\ \A c \in Conns, r \in Requests : \A j \in 1..Len(up'[c]) :
          up'[c][j] = Rpc!CancelOf(r) => promise'[r] \in GivenUp
DownOrdinary ==
    \A c \in Conns, r \in Requests : \A j \in 1..Len(down'[c]) :
        down'[c][j] = Rpc!Run(r) =>
           \/ \E i \in 1..Len(down[c]) : down[c][i] = Rpc!Run(r)
           \/ promise[r] # "none" /\ Over(r)'
ExecOrdinary ==
    \A r \in Requests :
        /\ promise[r] = "none" => promise'[r] = "none"
        /\ exec[r] = "none" => exec'[r] = "none" \/ (OnItsWay(r) /\ ~OnItsWay(r)')
        /\ promise'[r] = "answered" => promise[r] = "answered" \/ Over(r)
        /\ exec'[r] = "stopping" =>
             exec[r] = "stopping" \/ promise'[r] \in {"aborted", "rejected"} \/ link'[conn'[r]] = "down"
Ordinary == Onward /\ UpOrdinary /\ DownOrdinary /\ ExecOrdinary

LEMMA NoneComesUp ==
    ASSUME \A c \in Conns : From(up[c], up'[c])
    PROVE  \A r \in Requests : OnItsWay(r)' => OnItsWay(r)
<1>1. SUFFICES ASSUME NEW r \in Requests, NEW c \in Conns, NEW j \in 1..Len(up'[c]), up'[c][j] = Rpc!Run(r)
               PROVE  OnItsWay(r)
  BY DEF OnItsWay
<1>2. up'[c][j] \in Runs
  BY <1>1 DEF Runs
<1>3. PICK k \in Nat : j + k \in 1..Len(up[c]) /\ up'[c][j] = up[c][j + k]
  BY <1>2 DEF From
<1>4. QED BY <1>1, <1>3 DEF OnItsWay

LEMMA OrdinaryKeepsPipe ==
    ASSUME PipeInv, PipeTypes', Ordinary
    PROVE  PipeInv'
<1> USE DEF PipeInv, Ordinary
<1>1. \A r \in Requests : OnItsWay(r)' => OnItsWay(r)
  BY NoneComesUp DEF UpOrdinary
<1>2. \A r \in Requests : Over(r) => Over(r)'
  BY <1>1 DEF Over, ExecOrdinary, Onward
<1>3. RequestInv'
  <2>1. \A r \in Requests : promise'[r] = "none" => exec'[r] = "none"
    <3>1. SUFFICES ASSUME NEW r \in Requests, promise'[r] = "none"
                   PROVE  exec'[r] = "none"
      OBVIOUS
    <3>2. promise[r] = "none" /\ exec[r] = "none"
      BY <3>1 DEF Onward, RequestInv
    <3>3. ~OnItsWay(r)
      BY <3>2 DEF OnItsWay, UpInv
    <3>4. QED BY <3>2, <3>3 DEF ExecOrdinary
  <2>2. \A r \in Requests : promise'[r] # "none" => conn'[r] \in Conns /\ client'[conn'[r]] # "new"
    BY DEF ExecOrdinary, Onward, RequestInv
  <2>3. \A r \in Requests : promise'[r] = "answered" => Over(r)'
    BY <1>2 DEF ExecOrdinary, RequestInv
  <2>4. QED BY <2>1, <2>2, <2>3 DEF RequestInv
<1>4. UpInv'
  <2>1. SUFFICES ASSUME NEW c \in Conns, NEW r \in Requests, NEW i \in 1..Len(up'[c]), up'[c][i] = Rpc!Run(r)
                 PROVE  /\ conn'[r] = c /\ promise'[r] # "none" /\ exec'[r] = "none"
                        /\ \A j \in 1..Len(up'[c]) : up'[c][j] = Rpc!Run(r) => j = i
    BY DEF UpInv, UpOrdinary
  <2>2. PICK k \in Nat : \A j \in 1..Len(up'[c]) :
                            up'[c][j] \in Runs => j + k \in 1..Len(up[c]) /\ up'[c][j] = up[c][j + k]
    BY DEF UpOrdinary, From
  <2>3. Rpc!Run(r) \in Runs
    BY DEF Runs
  <2>4. i + k \in 1..Len(up[c]) /\ up[c][i + k] = Rpc!Run(r)
    BY <2>1, <2>2, <2>3
  <2>5. conn[r] = c /\ promise[r] # "none" /\ exec[r] = "none"
    BY <2>4 DEF UpInv
  <2>6. \A j \in 1..Len(up[c]) : up[c][j] = Rpc!Run(r) => j = i + k
    BY <2>4 DEF UpInv
  <2>7. \A j \in 1..Len(up'[c]) : up'[c][j] = Rpc!Run(r) => j = i
    <3>1. SUFFICES ASSUME NEW j \in 1..Len(up'[c]), up'[c][j] = Rpc!Run(r)
                   PROVE  j = i
      OBVIOUS
    <3>2. j + k \in 1..Len(up[c]) /\ up[c][j + k] = Rpc!Run(r)
      BY <2>2, <2>3, <3>1
    <3>3. j + k = i + k
      BY <2>6, <3>2
    <3>4. i \in Int /\ j \in Int /\ k \in Int
      OBVIOUS
    <3>5. QED BY <3>3, <3>4
  <2>8. OnItsWay(r)'
    BY <2>1 DEF OnItsWay
  <2>9. promise'[r] # "none" /\ conn'[r] = c /\ exec'[r] = "none"
    BY <2>5, <2>8 DEF ExecOrdinary, Onward
  <2>10. QED BY <2>7, <2>9
<1>5. DownInv'
  <2>1. SUFFICES ASSUME NEW c \in Conns, NEW r \in Requests, NEW j \in 1..Len(down'[c]), down'[c][j] = Rpc!Run(r)
                 PROVE  promise'[r] # "none" /\ Over(r)'
    BY DEF DownInv
  <2>2. CASE \E i \in 1..Len(down[c]) : down[c][i] = Rpc!Run(r)
    BY <1>2, <2>2 DEF DownInv, Onward
  <2>3. CASE promise[r] # "none" /\ Over(r)'
    BY <2>3 DEF Onward
  <2>4. QED BY <2>1, <2>2, <2>3 DEF DownOrdinary
<1>6. StopsOnlyItsOwn'
  <2>1. SUFFICES ASSUME NEW r \in Requests, exec'[r] = "stopping", exec[r] = "stopping"
                 PROVE  promise'[r] \in {"aborted", "rejected"} \/ link'[conn'[r]] = "down"
    BY DEF ExecOrdinary, StopsOnlyItsOwn, Rpc!StopsOnlyItsOwn
  <2>2. promise[r] # "none" /\ conn[r] \in Conns /\ client[conn[r]] # "new" /\ ~Over(r) /\ promise[r] # "answered"
    BY <2>1 DEF RequestInv, Over
  <2>3. promise'[r] # "answered"
    BY <2>2 DEF ExecOrdinary
  <2>4. promise[r] \in {"aborted", "rejected"} \/ link[conn[r]] = "down"
    BY <2>1 DEF StopsOnlyItsOwn, Rpc!StopsOnlyItsOwn
  <2>5. QED BY <2>2, <2>3, <2>4 DEF Onward, GivenUp
<1>7. QED BY <1>3, <1>4, <1>5, <1>6
LEMMA FrameFacts ==
    /\ Rpc!Open \in Frames \ Runs
    /\ \A r \in Requests : Rpc!Run(r) \in Runs /\ Rpc!Run(r) \in Frames /\ Rpc!CancelOf(r) \in Frames \ Runs
    /\ \A q, r \in Requests : Rpc!Run(q) = Rpc!Run(r) => q = r
    /\ \A q, r \in Requests : Rpc!CancelOf(q) = Rpc!CancelOf(r) => q = r
    /\ \A q, r \in Requests : Rpc!CancelOf(q) # Rpc!Run(r)
    /\ \A r \in Requests : Rpc!CancelOf(r) # Rpc!Open /\ Rpc!Run(r) # Rpc!Open
    /\ \A f \in Frames : f.what = "run" => f.of \in Requests /\ f = Rpc!Run(f.of)
    /\ \A f \in Frames : f.what = "cancel" => f.of \in Requests /\ f = Rpc!CancelOf(f.of)
<1> USE DEF Frames, Runs, Cancels, Rpc!Open, Rpc!Run, Rpc!CancelOf
<1>1. Rpc!Open \in Frames /\ Rpc!Open \notin Runs
  OBVIOUS
<1>2. \A r \in Requests : Rpc!Run(r) \in Runs /\ Rpc!Run(r) \in Frames /\ Rpc!CancelOf(r) \in Frames \ Runs
  OBVIOUS
<1>3. \A q, r \in Requests : (Rpc!Run(q) = Rpc!Run(r) => q = r) /\ (Rpc!CancelOf(q) = Rpc!CancelOf(r) => q = r)
  OBVIOUS
<1>4. \A q, r \in Requests : Rpc!CancelOf(q) # Rpc!Run(r)
  OBVIOUS
<1>5. \A r \in Requests : Rpc!CancelOf(r) # Rpc!Open /\ Rpc!Run(r) # Rpc!Open
  OBVIOUS
<1>6. \A f \in Frames : f.what = "run" => f.of \in Requests /\ f = Rpc!Run(f.of)
  OBVIOUS
<1>7. \A f \in Frames : f.what = "cancel" => f.of \in Requests /\ f = Rpc!CancelOf(f.of)
  OBVIOUS
<1>8. QED BY ONLY <1>1, <1>2, <1>3, <1>4, <1>5, <1>6, <1>7

\* The frames t to the server hold no new request, and no cancel of a request somebody still waits for.
Follows(t, s) ==
    /\ t \in Seq(Frames) /\ From(s, t)
    /\ \A r \in Requests : \A j \in 1..Len(t) :
          t[j] = Rpc!CancelOf(r) => promise'[r] \in GivenUp \/ \E i \in 1..Len(s) : s[i] = Rpc!CancelOf(r)

\* The frames to the server after a step.
LEMMA UpSteps ==
    ASSUME PipeInv, Onward, NEW c \in Conns,
           \/ up' = up
           \/ up' = [up EXCEPT ![c] = <<>>]
           \/ up[c] # <<>> /\ up' = [up EXCEPT ![c] = Tail(up[c])]
           \/ up' = [up EXCEPT ![c] = <<Rpc!Open>>]
           \/ \E r \in Requests : promise'[r] \in GivenUp /\ up' = [up EXCEPT ![c] = Append(up[c], Rpc!CancelOf(r))]
    PROVE  up' \in [Conns -> Seq(Frames)] /\ UpOrdinary
<1>1. up \in [Conns -> Seq(Frames)] /\ up[c] \in Seq(Frames)
  BY DEF PipeInv, PipeTypes
<1>2. PICK t : up' = [up EXCEPT ![c] = t] /\ Follows(t, up[c])
  <2>1. CASE up' = up
    <3>1. Follows(up[c], up[c])
      BY <1>1, Froms DEF Follows
    <3>2. QED BY <1>1, <2>1, <3>1
  <2>2. CASE up' = [up EXCEPT ![c] = <<>>]
    <3>1. <<>> \in Seq(Frames) /\ Len(<<>>) = 0
      OBVIOUS
    <3>2. From(up[c], <<>>)
      BY <1>1, Froms
    <3>3. Follows(<<>>, up[c])
      BY <3>1, <3>2 DEF Follows
    <3>4. QED BY <2>2, <3>3
  <2>3. CASE up[c] # <<>> /\ up' = [up EXCEPT ![c] = Tail(up[c])]
    <3>1. Tail(up[c]) \in Seq(Frames) /\ \A j \in 1..Len(Tail(up[c])) : j + 1 \in 1..Len(up[c]) /\ Tail(up[c])[j] = up[c][j + 1]
      BY <1>1, <2>3, Tails
    <3>2. From(up[c], Tail(up[c]))
      BY <1>1, <2>3, Froms
    <3>3. Follows(Tail(up[c]), up[c])
      BY <3>1, <3>2 DEF Follows
    <3>4. QED BY <2>3, <3>3
  <2>4. CASE up' = [up EXCEPT ![c] = <<Rpc!Open>>]
    <3>1. <<Rpc!Open>> \in Seq(Frames) /\ \A j \in 1..Len(<<Rpc!Open>>) : <<Rpc!Open>>[j] = Rpc!Open
      BY FrameFacts
    <3>2. From(up[c], <<Rpc!Open>>)
      BY <1>1, FrameFacts, Froms
    <3>3. Follows(<<Rpc!Open>>, up[c])
      BY <3>1, <3>2, FrameFacts DEF Follows
    <3>4. QED BY <2>4, <3>3
  <2>5. CASE \E r \in Requests : promise'[r] \in GivenUp /\ up' = [up EXCEPT ![c] = Append(up[c], Rpc!CancelOf(r))]
    <3>1. PICK q \in Requests : promise'[q] \in GivenUp /\ up' = [up EXCEPT ![c] = Append(up[c], Rpc!CancelOf(q))]
      BY <2>5
    <3> DEFINE t == Append(up[c], Rpc!CancelOf(q))
    <3>2. t \in Seq(Frames) /\ \A j \in 1..Len(t) : t[j] = Rpc!CancelOf(q) \/ (j \in 1..Len(up[c]) /\ t[j] = up[c][j])
      BY <1>1, FrameFacts, Appends
    <3>3. From(up[c], t)
      BY <1>1, FrameFacts, Froms
    <3>4. Follows(t, up[c])
      BY <3>1, <3>2, <3>3, FrameFacts DEF Follows
    <3>5. QED BY <3>1, <3>4
  <2>6. QED BY <2>1, <2>2, <2>3, <2>4, <2>5
<1>3. \A d \in Conns : From(up[d], up[d])
  BY <1>1, Froms
<1>4. \A d \in Conns : From(up[d], up'[d])
  BY <1>1, <1>2, <1>3 DEF Follows
<1>5. \A d \in Conns, r \in Requests : \A j \in 1..Len(up'[d]) :
         up'[d][j] = Rpc!CancelOf(r) => promise'[r] \in GivenUp
  <2>1. SUFFICES ASSUME NEW d \in Conns, NEW r \in Requests, NEW j \in 1..Len(up'[d]), up'[d][j] = Rpc!CancelOf(r),
                        \E i \in 1..Len(up[d]) : up[d][i] = Rpc!CancelOf(r)
                 PROVE  promise'[r] \in GivenUp
    BY <1>1, <1>2 DEF Follows
  <2>2. promise[r] \in GivenUp
    BY <2>1 DEF PipeInv, UpInv
  <2>3. QED BY <2>2 DEF Onward
<1>6. QED BY <1>1, <1>2, <1>4, <1>5 DEF Follows, UpOrdinary

\* The frames to the client after a step.
LEMMA DownSteps ==
    ASSUME PipeInv, NEW c \in Conns,
           \/ down' = down
           \/ down' = [down EXCEPT ![c] = <<>>]
           \/ down[c] # <<>> /\ down' = [down EXCEPT ![c] = Tail(down[c])]
           \/ down' = [down EXCEPT ![c] = Append(down[c], Rpc!Open)]
           \/ \E r \in Requests : /\ promise[r] # "none" /\ Over(r)'
                                  /\ down' = [down EXCEPT ![c] = Append(down[c], Rpc!Run(r))]
    PROVE  down' \in [Conns -> Seq(Frames)] /\ DownOrdinary
<1>1. down \in [Conns -> Seq(Frames)] /\ down[c] \in Seq(Frames)
  BY DEF PipeInv, PipeTypes
<1>2. CASE down' = down \/ down' = [down EXCEPT ![c] = <<>>]
  <2>1. <<>> \in Seq(Frames) /\ Len(<<>>) = 0
    OBVIOUS
  <2>2. \A d \in Conns : down'[d] = down[d] \/ down'[d] = <<>>
    BY <1>1, <1>2
  <2>3. DownOrdinary
    BY <2>1, <2>2 DEF DownOrdinary
  <2>4. down' \in [Conns -> Seq(Frames)]
    BY <1>1, <1>2, <2>1
  <2>5. QED BY <2>3, <2>4
<1>3. CASE down[c] # <<>> /\ down' = [down EXCEPT ![c] = Tail(down[c])]
  <2>1. Tail(down[c]) \in Seq(Frames)
        /\ \A j \in 1..Len(Tail(down[c])) : j + 1 \in 1..Len(down[c]) /\ Tail(down[c])[j] = down[c][j + 1]
    BY <1>1, <1>3, Tails
  <2>2. QED BY <1>1, <1>3, <2>1 DEF DownOrdinary
<1>4. ASSUME NEW f \in Frames, down' = [down EXCEPT ![c] = Append(down[c], f)],
             \A r \in Requests : f = Rpc!Run(r) => promise[r] # "none" /\ Over(r)'
      PROVE  down' \in [Conns -> Seq(Frames)] /\ DownOrdinary
  <2> DEFINE t == Append(down[c], f)
  <2>1. t \in Seq(Frames) /\ \A j \in 1..Len(t) : t[j] = f \/ (j \in 1..Len(down[c]) /\ t[j] = down[c][j])
    BY <1>1, Appends
  <2>2. QED BY <1>1, <1>4, <2>1 DEF DownOrdinary
<1>5. CASE down' = [down EXCEPT ![c] = Append(down[c], Rpc!Open)]
  BY <1>4, <1>5, FrameFacts
<1>6. CASE \E r \in Requests : /\ promise[r] # "none" /\ Over(r)'
                               /\ down' = [down EXCEPT ![c] = Append(down[c], Rpc!Run(r))]
  <2>1. PICK q \in Requests : /\ promise[q] # "none" /\ Over(q)'
                              /\ down' = [down EXCEPT ![c] = Append(down[c], Rpc!Run(q))]
    BY <1>6
  <2>2. \A r \in Requests : Rpc!Run(q) = Rpc!Run(r) => promise[r] # "none" /\ Over(r)'
    BY <2>1, FrameFacts
  <2>3. QED BY <1>4, <2>1, <2>2, FrameFacts
<1>7. QED BY <1>2, <1>3, <1>5, <1>6
(***************************************************************************)
(* The steps of the pipe.                                                  *)
(***************************************************************************)
\* A connection is opened.
LEMMA ConnectsIsOrdinary ==
    ASSUME PipeInv, NEW c \in Conns, Connects(c)
    PROVE  PipeTypes' /\ Ordinary
<1>1. Onward
  BY DEF Connects, Onward, PipeInv, PipeTypes
<1>2. up' \in [Conns -> Seq(Frames)] /\ UpOrdinary
  BY <1>1, UpSteps DEF Connects
<1>3. down' \in [Conns -> Seq(Frames)] /\ DownOrdinary
  <2>1. UNCHANGED down
    BY DEF Connects
  <2>2. QED BY <2>1, DownSteps
<1>4. PipeTypes'
  BY <1>2, <1>3 DEF Connects, PipeInv, PipeTypes
<1>5. ExecOrdinary
  BY DEF Connects, ExecOrdinary
<1>6. QED BY <1>1, <1>2, <1>3, <1>4, <1>5 DEF Ordinary

\* An answer is read: it is about a request that is over.
LEMMA ReceivesIsOrdinary ==
    ASSUME PipeInv, NEW c \in Conns, Rpc!ClientReceives(c)
    PROVE  PipeTypes' /\ Ordinary
<1> DEFINE frame == Head(down[c])
<1>1. down[c] \in Seq(Frames) /\ down[c] # <<>> /\ 1 \in 1..Len(down[c]) /\ frame = down[c][1] /\ frame \in Frames
  <2>1. down[c] \in Seq(Frames) /\ down[c] # <<>>
    BY DEF PipeInv, PipeTypes, Rpc!ClientReceives
  <2>2. QED BY <2>1, Tails
<1>2. frame.what = "run" => frame.of \in Requests /\ Over(frame.of)
  BY <1>1, FrameFacts DEF PipeInv, DownInv
<1>3. /\ client' = client \/ client' = [client EXCEPT ![c] = "open"]
      /\ \/ promise' = promise
         \/ \E q \in Requests : Over(q) /\ promise[q] \in {"pending", "aborted"} /\ promise' = [promise EXCEPT ![q] = "answered"]
      /\ down' = [down EXCEPT ![c] = Tail(down[c])]
      /\ UNCHANGED <<link, up, conn, exec>>
  BY <1>2 DEF Rpc!ClientReceives, Rpc!Waiting
<1>4. Onward
  BY <1>3 DEF Onward, PipeInv, PipeTypes, GivenUp
<1>5. up' \in [Conns -> Seq(Frames)] /\ UpOrdinary
  BY <1>3, <1>4, UpSteps
<1>6. down' \in [Conns -> Seq(Frames)] /\ DownOrdinary
  BY <1>1, <1>3, DownSteps
<1>7. PipeTypes'
  BY <1>3, <1>5, <1>6 DEF PipeInv, PipeTypes
<1>8. ExecOrdinary
  BY <1>3 DEF ExecOrdinary, PipeInv, PipeTypes
<1>9. QED BY <1>4, <1>5, <1>6, <1>7, <1>8 DEF Ordinary

\* The client is closed, by itself or with its connection: what waits is rejected.
LEMMA ClosingIsOrdinary ==
    ASSUME PipeInv, NEW c \in Conns, Rpc!ClientCloses(c) \/ Rpc!ClientSeesDown(c) \/ Rpc!ClientDies(c)
    PROVE  PipeTypes' /\ Ordinary
<1>1. /\ client' = [client EXCEPT ![c] = "closed"]
      /\ \/ link' = link \/ link' = [link EXCEPT ![c] = "down"]
         \/ link[c] = "up" /\ link' = [link EXCEPT ![c] = "ended"]
      /\ up' = up \/ up' = [up EXCEPT ![c] = <<>>]
      /\ down' = [down EXCEPT ![c] = <<>>]
      /\ UNCHANGED <<conn, exec>>
  BY DEF PipeInv, PipeTypes, Rpc!ClientCloses, Rpc!ClientSeesDown, Rpc!ClientDies, Rpc!Destroyed, Rpc!Unread
<1>2. promise' = [r \in Requests |-> IF r \in Rpc!Of(c) /\ Rpc!Waiting(r) THEN "rejected" ELSE promise[r]]
  BY DEF Rpc!ClientCloses, Rpc!ClientSeesDown, Rpc!ClientDies, Rpc!Rejected
<1>3. \A r \in Requests : promise'[r] = promise[r] \/ (promise[r] \in {"pending", "aborted"} /\ promise'[r] = "rejected")
  BY <1>2 DEF Rpc!Waiting
<1>4. Onward
  BY <1>1, <1>3 DEF Onward, PipeInv, PipeTypes, GivenUp
<1>5. up' \in [Conns -> Seq(Frames)] /\ UpOrdinary
  BY <1>1, <1>4, UpSteps
<1>6. down' \in [Conns -> Seq(Frames)] /\ DownOrdinary
  BY <1>1, DownSteps
<1>7. promise' \in [Requests -> {"none", "pending", "aborted", "answered", "rejected"}]
  BY <1>2 DEF PipeInv, PipeTypes
<1>8. PipeTypes'
  BY <1>1, <1>5, <1>6, <1>7 DEF PipeInv, PipeTypes
<1>9. ExecOrdinary
  BY <1>1, <1>3 DEF ExecOrdinary
<1>10. QED BY <1>4, <1>5, <1>6, <1>8, <1>9 DEF Ordinary

\* The server opens, refuses or loses a connection, or settles a call: nobody's execution is touched.
LEMMA ServingIsOrdinary ==
    ASSUME PipeInv, NEW c \in Conns,
           \/ Rpc!AcceptOpen(c) \/ Rpc!RejectOpen(c) \/ Rpc!HandshakeTimeout(c) \/ Rpc!PeerEnded(c)
           \/ Rpc!DispatchSettles(c)
    PROVE  PipeTypes' /\ Ordinary
<1>1. /\ link' = link \/ link' = [link EXCEPT ![c] = "down"]
      /\ \/ up' = up \/ up' = [up EXCEPT ![c] = <<>>]
         \/ up[c] # <<>> /\ up' = [up EXCEPT ![c] = Tail(up[c])]
      /\ down' = down \/ down' = [down EXCEPT ![c] = Append(down[c], Rpc!Open)]
      /\ UNCHANGED <<client, conn, promise, exec>>
  BY DEF PipeInv, PipeTypes, Rpc!AcceptOpen, Rpc!RejectOpen, Rpc!HandshakeTimeout, Rpc!PeerEnded, Rpc!DispatchSettles,
         Rpc!Destroyed
<1>2. Onward
  BY <1>1 DEF Onward, PipeInv, PipeTypes
<1>3. up' \in [Conns -> Seq(Frames)] /\ UpOrdinary
  BY <1>1, <1>2, UpSteps
<1>4. down' \in [Conns -> Seq(Frames)] /\ DownOrdinary
  BY <1>1, DownSteps
<1>5. PipeTypes'
  BY <1>1, <1>3, <1>4 DEF PipeInv, PipeTypes
<1>6. ExecOrdinary
  BY <1>1 DEF ExecOrdinary
<1>7. QED BY <1>2, <1>3, <1>4, <1>5, <1>6 DEF Ordinary

\* A connection that is gone stops what it started.
LEMMA DisconnectIsOrdinary ==
    ASSUME PipeInv, NEW c \in Conns, Rpc!CloseConnection(c)
    PROVE  PipeTypes' /\ Ordinary
<1>1. /\ link[c] = "down"
      /\ UNCHANGED <<client, link, up, down, conn, promise>>
  BY DEF Rpc!CloseConnection
<1>2. exec' = exec \/ exec' = [r \in Requests |-> IF r \in Rpc!Of(c) /\ exec[r] = "running" THEN "stopping" ELSE exec[r]]
  BY DEF Rpc!CloseConnection, Rpc!Stopped
<1>3. \A r \in Requests : exec'[r] = exec[r] \/ (conn[r] = c /\ exec[r] = "running" /\ exec'[r] = "stopping")
  BY <1>2 DEF Rpc!Of
<1>4. Onward
  BY <1>1, <1>3 DEF Onward
<1>5. up' \in [Conns -> Seq(Frames)] /\ UpOrdinary
  BY <1>1, <1>4, UpSteps
<1>6. down' \in [Conns -> Seq(Frames)] /\ DownOrdinary
  BY <1>1, DownSteps
<1>7. exec' \in [Requests -> {"none", "running", "stopping", "ended"}]
  BY <1>2 DEF PipeInv, PipeTypes
<1>8. PipeTypes'
  BY <1>1, <1>5, <1>6, <1>7 DEF PipeInv, PipeTypes
<1>9. ExecOrdinary
  BY <1>1, <1>3 DEF ExecOrdinary
<1>10. QED BY <1>4, <1>5, <1>6, <1>8, <1>9 DEF Ordinary

\* exec.cancel is accepted: its caller gave the request up, and one that was answered is over.
LEMMA CancellingIsOrdinary ==
    ASSUME PipeInv, NEW c \in Conns, TakesCancel(c)
    PROVE  PipeTypes' /\ Ordinary
<1>1. up[c] \in Seq(Frames) /\ up[c] # <<>> /\ Head(up[c]).what = "cancel" /\ Head(up[c]) \in Frames
      /\ 1 \in 1..Len(up[c]) /\ Head(up[c]) = up[c][1]
  <2>1. up[c] \in Seq(Frames) /\ up[c] # <<>> /\ Head(up[c]).what = "cancel"
    BY DEF PipeInv, PipeTypes, TakesCancel
  <2>2. QED BY <2>1, Tails
<1>2. PICK q \in Requests : Head(up[c]) = Rpc!CancelOf(q) /\ Head(up[c]).of = q
  BY <1>1, FrameFacts
<1>3. promise[q] \in GivenUp
  BY <1>1, <1>2 DEF PipeInv, UpInv
<1>4. /\ link' = link \/ link' = [link EXCEPT ![c] = "down"]
      /\ up' = [up EXCEPT ![c] = <<>>] \/ up' = [up EXCEPT ![c] = Tail(up[c])]
      /\ UNCHANGED <<client, down, conn, promise>>
  BY DEF TakesCancel, Rpc!Destroyed
<1>5. exec' = exec \/ exec' = [r \in Requests |-> IF r \in {q} /\ exec[r] = "running" THEN "stopping" ELSE exec[r]]
  BY <1>2 DEF TakesCancel, Rpc!Stopped
<1>6. \A r \in Requests : exec'[r] = exec[r] \/ (r = q /\ exec[r] = "running" /\ exec'[r] = "stopping")
  BY <1>5
<1>7. Onward
  BY <1>4, <1>6 DEF Onward, PipeInv, PipeTypes
<1>8. up' \in [Conns -> Seq(Frames)] /\ UpOrdinary
  BY <1>1, <1>4, <1>7, UpSteps
<1>9. down' \in [Conns -> Seq(Frames)] /\ DownOrdinary
  BY <1>4, DownSteps
<1>10. exec' \in [Requests -> {"none", "running", "stopping", "ended"}]
  BY <1>5 DEF PipeInv, PipeTypes
<1>11. PipeTypes'
  BY <1>4, <1>8, <1>9, <1>10 DEF PipeInv, PipeTypes
<1>12. ExecOrdinary
  <2>1. exec[q] = "running" => promise[q] # "answered"
    BY DEF PipeInv, RequestInv, Over
  <2>2. exec[q] = "running" => promise[q] \in {"aborted", "rejected"}
    BY <1>3, <2>1 DEF GivenUp
  <2>3. QED BY <1>4, <1>6, <2>2 DEF ExecOrdinary
<1>13. QED BY <1>7, <1>8, <1>9, <1>11, <1>12 DEF Ordinary
\* A request is accepted or refused: from now on it is not on its way any more.
LEMMA AcceptingIsOrdinary ==
    ASSUME PipeInv, NEW c \in Conns, TakesRun(c)
    PROVE  PipeTypes' /\ Ordinary
<1>1. up[c] \in Seq(Frames) /\ up[c] # <<>> /\ Head(up[c]).what = "run" /\ Head(up[c]) \in Frames
      /\ 1 \in 1..Len(up[c]) /\ Head(up[c]) = up[c][1]
  <2>1. up[c] \in Seq(Frames) /\ up[c] # <<>> /\ Head(up[c]).what = "run"
    BY DEF PipeInv, PipeTypes, TakesRun
  <2>2. QED BY <2>1, Tails
<1>2. PICK q \in Requests : up[c][1] = Rpc!Run(q) /\ Head(up[c]).of = q
  BY <1>1, FrameFacts
<1>3. promise[q] # "none" /\ exec[q] = "none" /\ conn[q] = c /\ OnItsWay(q)
      /\ \A j \in 1..Len(up[c]) : up[c][j] = Rpc!Run(q) => j = 1
  BY <1>1, <1>2 DEF PipeInv, UpInv, OnItsWay
<1>4. UNCHANGED <<client, conn, promise>> /\ (link' = link \/ link' = [link EXCEPT ![c] = "down"])
  BY DEF TakesRun, Rpc!Destroyed
<1>5. \/ up' = [up EXCEPT ![c] = <<>>] /\ UNCHANGED <<down, exec>>
      \/ /\ up' = [up EXCEPT ![c] = Tail(up[c])]
         /\ \/ exec' = [exec EXCEPT ![q] = "running"] /\ UNCHANGED down
            \/ /\ down' = down \/ down' = [down EXCEPT ![c] = Append(down[c], Rpc!Run(q))]
               /\ UNCHANGED exec
  BY <1>2 DEF TakesRun, Rpc!Destroyed, PipeInv, PipeTypes
<1>6. up' = [up EXCEPT ![c] = Tail(up[c])] => ~OnItsWay(q)'
  <2>1. SUFFICES ASSUME up' = [up EXCEPT ![c] = Tail(up[c])],
                        NEW d \in Conns, NEW i \in 1..Len(up'[d]), up'[d][i] = Rpc!Run(q)
                 PROVE  FALSE
    BY DEF OnItsWay
  <2>2. CASE d = c
    <3>1. i + 1 \in 1..Len(up[c]) /\ up[c][i + 1] = Rpc!Run(q)
      BY <1>1, <2>1, <2>2, Tails DEF PipeInv, PipeTypes
    <3>2. i + 1 = 1
      BY <1>3, <3>1
    <3>3. QED BY <3>2
  <2>3. CASE d # c
    <3>1. up'[d] = up[d]
      BY <2>1, <2>3 DEF PipeInv, PipeTypes
    <3>2. conn[q] = d
      BY <2>1, <3>1 DEF PipeInv, UpInv
    <3>3. QED BY <1>3, <2>3, <3>2
  <2>4. QED BY <2>2, <2>3
<1>7. \A r \in Requests : exec'[r] = exec[r] \/ (r = q /\ exec'[r] = "running" /\ ~OnItsWay(q)')
  BY <1>5, <1>6 DEF PipeInv, PipeTypes
<1>8. Onward
  BY <1>3, <1>4, <1>7 DEF Onward, PipeInv, PipeTypes
<1>9. up' \in [Conns -> Seq(Frames)] /\ UpOrdinary
  BY <1>1, <1>5, <1>8, UpSteps
<1>10. down' \in [Conns -> Seq(Frames)] /\ DownOrdinary
  <2>1. CASE down' = down
    BY <2>1, DownSteps
  <2>2. CASE down' # down
    <3>1. down' = [down EXCEPT ![c] = Append(down[c], Rpc!Run(q))] /\ UNCHANGED exec
          /\ up' = [up EXCEPT ![c] = Tail(up[c])]
      BY <1>5, <2>2
    <3>2. Over(q)'
      BY <1>3, <1>6, <3>1 DEF Over
    <3>3. QED BY <1>3, <3>1, <3>2, DownSteps
  <2>3. QED BY <2>1, <2>2
<1>11. exec' \in [Requests -> {"none", "running", "stopping", "ended"}]
  BY <1>5 DEF PipeInv, PipeTypes
<1>12. PipeTypes'
  BY <1>4, <1>9, <1>10, <1>11 DEF PipeInv, PipeTypes
<1>13. ExecOrdinary
  BY <1>3, <1>4, <1>7 DEF ExecOrdinary
<1>14. QED BY <1>8, <1>9, <1>10, <1>12, <1>13 DEF Ordinary

\* A caller gives its request up, by an abort or by its deadline, and the cancel is written.
LEMMA GivingUpIsOrdinary ==
    ASSUME PipeInv, NEW q \in Requests, Rpc!Abort(q) \/ Rpc!RequestTimeout(q)
    PROVE  PipeTypes' /\ Ordinary
<1>1. promise[q] \in {"pending", "aborted"} /\ UNCHANGED <<client, link, down, conn, exec>>
  BY DEF Rpc!Abort, Rpc!RequestTimeout, Rpc!Waiting
<1>2. promise' = [promise EXCEPT ![q] = "aborted"] \/ promise' = [promise EXCEPT ![q] = "rejected"]
  BY DEF Rpc!Abort, Rpc!RequestTimeout
<1>3. conn[q] \in Conns
  BY <1>1 DEF PipeInv, RequestInv
<1>4. up' = up \/ up' = [up EXCEPT ![conn[q]] = Append(up[conn[q]], Rpc!CancelOf(q))]
  BY DEF PipeInv, PipeTypes, Rpc!Abort, Rpc!RequestTimeout, Rpc!SentCancel
<1>5. promise'[q] \in {"aborted", "rejected"} /\ \A r \in Requests : r # q => promise'[r] = promise[r]
  BY <1>2 DEF PipeInv, PipeTypes
<1>6. Onward
  BY <1>1, <1>5 DEF Onward, GivenUp
<1>7. up' \in [Conns -> Seq(Frames)] /\ UpOrdinary
  BY <1>3, <1>4, <1>5, <1>6, UpSteps DEF GivenUp
<1>8. down' \in [Conns -> Seq(Frames)] /\ DownOrdinary
  BY <1>1, <1>3, DownSteps
<1>9. PipeTypes'
  BY <1>1, <1>2, <1>7, <1>8 DEF PipeInv, PipeTypes
<1>10. ExecOrdinary
  BY <1>1, <1>5 DEF ExecOrdinary
<1>11. QED BY <1>6, <1>7, <1>8, <1>9, <1>10 DEF Ordinary

\* An execution ends and is answered, or its answer does not fit and the connection goes.
LEMMA EndingIsOrdinary ==
    ASSUME PipeInv, NEW q \in Requests, Rpc!ExecEnds(q) \/ Rpc!AnswerTooLarge(q)
    PROVE  PipeTypes' /\ Ordinary
<1>1. exec[q] \in {"running", "stopping"} /\ exec' = [exec EXCEPT ![q] = "ended"] /\ UNCHANGED <<client, conn, promise>>
  BY DEF Rpc!ExecEnds, Rpc!AnswerTooLarge
<1>2. promise[q] # "none" /\ conn[q] \in Conns
  BY <1>1 DEF PipeInv, RequestInv
<1>3. /\ link' = link \/ link' = [link EXCEPT ![conn[q]] = "down"]
      /\ up' = up \/ up' = [up EXCEPT ![conn[q]] = <<>>]
      /\ down' = down \/ down' = [down EXCEPT ![conn[q]] = Append(down[conn[q]], Rpc!Run(q))]
  BY DEF PipeInv, PipeTypes, Rpc!ExecEnds, Rpc!AnswerTooLarge, Rpc!Destroyed
<1>4. exec'[q] = "ended" /\ \A r \in Requests : r # q => exec'[r] = exec[r]
  BY <1>1 DEF PipeInv, PipeTypes
<1>5. Onward
  BY <1>1, <1>2, <1>3, <1>4 DEF Onward, PipeInv, PipeTypes
<1>6. up' \in [Conns -> Seq(Frames)] /\ UpOrdinary
  BY <1>2, <1>3, <1>5, UpSteps
<1>7. down' \in [Conns -> Seq(Frames)] /\ DownOrdinary
  <2>1. Over(q)'
    BY <1>4 DEF Over
  <2>2. QED BY <1>2, <1>3, <2>1, DownSteps
<1>8. PipeTypes'
  BY <1>1, <1>3, <1>6, <1>7 DEF PipeInv, PipeTypes
<1>9. ExecOrdinary
  BY <1>1, <1>4 DEF ExecOrdinary
<1>10. QED BY <1>5, <1>6, <1>7, <1>8, <1>9 DEF Ordinary

\* The gate opens; the server closes and destroys every connection.
LEMMA GateIsOrdinary ==
    ASSUME PipeInv, Rpc!Activate \/ Rpc!CloseServer \/ UNCHANGED rpcVars
    PROVE  PipeTypes' /\ Ordinary
<1>1. /\ UNCHANGED <<client, down, conn, promise, exec>>
      /\ up' = up \/ up' = [c \in Conns |-> <<>>]
  BY DEF Rpc!Activate, Rpc!CloseServer, rpcVars
<1>2. link' = link \/ link' = [c \in Conns |-> IF Rpc!Connected(c) THEN "down" ELSE link[c]]
  BY DEF Rpc!Activate, Rpc!CloseServer, rpcVars
<1>3. link' \in [Conns -> {"none", "up", "ended", "down"}] /\ \A c \in Conns : link[c] = "down" => link'[c] = "down"
  BY <1>2 DEF PipeInv, PipeTypes
<1>4. Onward
  BY <1>1, <1>3 DEF Onward
<1>5. up' \in [Conns -> Seq(Frames)] /\ UpOrdinary
  <2>1. \A c \in Conns : up[c] \in Seq(Frames) /\ (up'[c] = up[c] \/ up'[c] = <<>>)
    BY <1>1 DEF PipeInv, PipeTypes
  <2>2. \A c \in Conns : From(up[c], up'[c])
    BY <2>1, Froms
  <2>3. <<>> \in Seq(Frames) /\ Len(<<>>) = 0
    OBVIOUS
  <2>4. \A c \in Conns, r \in Requests : \A j \in 1..Len(up'[c]) : up'[c][j] = Rpc!CancelOf(r) => promise'[r] \in GivenUp
    BY <1>1, <2>1, <2>3 DEF PipeInv, UpInv
  <2>5. up' \in [Conns -> Seq(Frames)]
    <3>1. CASE up' = up
      BY <3>1 DEF PipeInv, PipeTypes
    <3>2. CASE up' = [c \in Conns |-> <<>>]
      BY <2>3, <3>2
    <3>3. QED BY <1>1, <3>1, <3>2
  <2>6. QED BY <2>2, <2>4, <2>5 DEF UpOrdinary
<1>6. down' \in [Conns -> Seq(Frames)] /\ DownOrdinary
  BY <1>1 DEF PipeInv, PipeTypes, DownOrdinary
<1>7. PipeTypes'
  BY <1>1, <1>3, <1>5, <1>6 DEF PipeInv, PipeTypes
<1>8. ExecOrdinary
  BY <1>1 DEF ExecOrdinary
<1>9. QED BY <1>4, <1>5, <1>6, <1>7, <1>8 DEF Ordinary

(***************************************************************************)
(* A request is sent: it was nobody's before, so that no frame and no      *)
(* execution is about it.                                                  *)
(***************************************************************************)
LEMMA SendKeepsPipe ==
    ASSUME PipeInv, NEW c \in Conns, NEW q \in Requests, Rpc!Send(c, q)
    PROVE  PipeInv'
<1> USE DEF PipeInv
<1>1. /\ client[c] = "open" /\ promise[q] = "none"
      /\ promise' = [promise EXCEPT ![q] = "pending"] /\ conn' = [conn EXCEPT ![q] = c]
      /\ up' = up \/ up' = [up EXCEPT ![c] = Append(up[c], Rpc!Run(q))]
      /\ UNCHANGED <<client, link, down, exec>>
  BY DEF Rpc!Send, PipeTypes
<1>2. exec[q] = "none" /\ ~OnItsWay(q)
  BY <1>1 DEF RequestInv, OnItsWay, UpInv
<1>3. /\ promise'[q] = "pending" /\ conn'[q] = c
      /\ \A r \in Requests : r # q => promise'[r] = promise[r] /\ conn'[r] = conn[r]
  BY <1>1 DEF PipeTypes
<1>4. \A d \in Conns : \A i \in 1..Len(up'[d]) :
         \/ i \in 1..Len(up[d]) /\ up'[d][i] = up[d][i]
         \/ d = c /\ i = Len(up[d]) + 1 /\ up'[d][i] = Rpc!Run(q)
  <2>1. up[c] \in Seq(Frames) /\ Rpc!Run(q) \in Frames
    BY FrameFacts DEF PipeTypes
  <2>2. CASE up' = up
    BY <2>2
  <2>3. CASE up' = [up EXCEPT ![c] = Append(up[c], Rpc!Run(q))]
    <3>1. up'[c] = Append(up[c], Rpc!Run(q)) /\ \A d \in Conns : d # c => up'[d] = up[d]
      BY <2>3 DEF PipeTypes
    <3>2. \A i \in 1..Len(up'[c]) :
             \/ i \in 1..Len(up[c]) /\ up'[c][i] = up[c][i]
             \/ i = Len(up[c]) + 1 /\ up'[c][i] = Rpc!Run(q)
      BY <2>1, <3>1, Appends
    <3>3. QED BY <3>1, <3>2
  <2>4. QED BY <1>1, <2>2, <2>3
<1>5. \A r \in Requests : r # q => (Over(r) => Over(r)')
  BY <1>1, <1>4, FrameFacts DEF Over, OnItsWay
<1>6. PipeTypes'
  <2>1. Append(up[c], Rpc!Run(q)) \in Seq(Frames)
    BY FrameFacts, Appends DEF PipeTypes
  <2>2. up' \in [Conns -> Seq(Frames)]
    BY <1>1, <2>1 DEF PipeTypes
  <2>3. QED BY <1>1, <2>2 DEF PipeTypes
<1>7. RequestInv'
  BY <1>1, <1>3, <1>5 DEF RequestInv
<1>8. UpInv'
  <2>1. ASSUME NEW d \in Conns, NEW r \in Requests, NEW i \in 1..Len(up'[d]), up'[d][i] = Rpc!CancelOf(r)
        PROVE  promise'[r] \in GivenUp
    <3>1. i \in 1..Len(up[d]) /\ up[d][i] = Rpc!CancelOf(r)
      BY <1>4, <2>1, FrameFacts
    <3>2. promise[r] \in GivenUp
      BY <3>1 DEF UpInv
    <3>3. QED BY <1>1, <1>3, <3>2 DEF GivenUp
  <2>2. ASSUME NEW d \in Conns, NEW r \in Requests, NEW i \in 1..Len(up'[d]), up'[d][i] = Rpc!Run(r)
        PROVE  /\ conn'[r] = d /\ promise'[r] # "none" /\ exec'[r] = "none"
               /\ \A j \in 1..Len(up'[d]) : up'[d][j] = Rpc!Run(r) => j = i
    <3>1. CASE r = q
      <4>1. \A j \in 1..Len(up'[d]) : up'[d][j] = Rpc!Run(q) => d = c /\ j = Len(up[d]) + 1
        BY <1>2, <1>4 DEF OnItsWay
      <4>2. QED BY <1>1, <1>2, <1>3, <2>2, <3>1, <4>1
    <3>2. CASE r # q
      <4>1. \A j \in 1..Len(up'[d]) : up'[d][j] = Rpc!Run(r) => j \in 1..Len(up[d]) /\ up[d][j] = Rpc!Run(r)
        BY <1>4, <3>2, FrameFacts
      <4>2. i \in 1..Len(up[d]) /\ up[d][i] = Rpc!Run(r)
        BY <2>2, <4>1
      <4>3. /\ conn[r] = d /\ promise[r] # "none" /\ exec[r] = "none"
            /\ \A j \in 1..Len(up[d]) : up[d][j] = Rpc!Run(r) => j = i
        BY <4>2 DEF UpInv
      <4>4. QED BY <1>1, <1>3, <3>2, <4>1, <4>3
    <3>3. QED BY <3>1, <3>2
  <2>3. QED BY <2>1, <2>2 DEF UpInv
<1>9. DownInv'
  BY <1>1, <1>3, <1>5 DEF DownInv
<1>10. StopsOnlyItsOwn'
  BY <1>1, <1>2, <1>3 DEF StopsOnlyItsOwn, Rpc!StopsOnlyItsOwn
<1>11. QED BY <1>6, <1>7, <1>8, <1>9, <1>10
LEMMA PipeInit ==
    ASSUME Rpc!Init
    PROVE  PipeInv
<1> USE DEF Rpc!Init
<1>1. PipeTypes
  <2>1. up \in [Conns -> Seq(Frames)] /\ down \in [Conns -> Seq(Frames)]
    OBVIOUS
  <2>2. QED BY <2>1 DEF PipeTypes, Rpc!NoConn
<1>2. RequestInv /\ UpInv /\ DownInv
  BY DEF RequestInv, UpInv, DownInv
<1>3. StopsOnlyItsOwn
  BY DEF StopsOnlyItsOwn, Rpc!StopsOnlyItsOwn
<1>4. QED BY <1>1, <1>2, <1>3 DEF PipeInv

LEMMA PipeKept ==
    ASSUME PipeInv, PipeNext \/ UNCHANGED rpcVars
    PROVE  PipeInv'
<1>1. ASSUME NEW c \in Conns, PipeStep(c)
      PROVE  PipeInv'
  BY <1>1, ConnectsIsOrdinary, ReceivesIsOrdinary, ClosingIsOrdinary, ServingIsOrdinary, DisconnectIsOrdinary,
     CancellingIsOrdinary, AcceptingIsOrdinary, OrdinaryKeepsPipe DEF PipeStep
<1>2. ASSUME NEW r \in Requests, RequestStep(r)
      PROVE  PipeInv'
  BY <1>2, GivingUpIsOrdinary, EndingIsOrdinary, OrdinaryKeepsPipe DEF RequestStep
<1>3. CASE Rpc!Activate \/ Rpc!CloseServer \/ UNCHANGED rpcVars
  BY <1>3, GateIsOrdinary, OrdinaryKeepsPipe
<1>4. QED BY <1>1, <1>2, <1>3, SendKeepsPipe DEF PipeNext

(***************************************************************************)
(* The two together.                                                       *)
(***************************************************************************)
LEMMA InvInit ==
    ASSUME AllInit
    PROVE  IInv
  BY PageInit, PipeInit DEF AllInit, IInv

LEMMA InvStep ==
    ASSUME IInv, [AllNext]_allVars
    PROVE  IInv'
<1>1. PageInv'
  <2>1. [Next]_vars
    BY DEF AllNext, allVars
  <2>2. QED BY <2>1, PageStep DEF IInv
<1>2. PipeInv'
  <2>1. PipeNext \/ UNCHANGED rpcVars
    BY RpcNext, CrowdedNext DEF AllNext, allVars
  <2>2. QED BY <2>1, PipeKept DEF IInv
<1>3. QED BY <1>1, <1>2 DEF IInv

LEMMA InvMeans ==
    ASSUME IInv
    PROVE  OperationsExclude /\ SettingNotLost /\ StopsOnlyItsOwn
  BY PageMeans DEF IInv, PipeInv

LEMMA Invariance == AllSpec => []IInv
<1>1. AllInit => IInv
  BY InvInit
<1>2. IInv /\ [AllNext]_allVars => IInv'
  BY InvStep
<1>3. QED BY <1>1, <1>2, PTL DEF AllSpec

(***************************************************************************)
(* The handlers of the management page exclude one another where they must *)
(* (the asserts and the finally of every route in server.ts): while one    *)
(* changes the configuration none changes it, runs a command, checks a     *)
(* connection or verifies a session, and no session is being prepared.     *)
(***************************************************************************)
THEOREM PageOperationsExclude == AllSpec => []OperationsExclude
<1>1. IInv => OperationsExclude
  BY InvMeans
<1>2. QED BY <1>1, Invariance, PTL

(***************************************************************************)
(* PuTTY's own setting is not lost to a preparation                        *)
(* (accessclient-session.ts): while the temporary value is in the registry *)
(* the one to put back is in the recovery marker, whatever failed and      *)
(* wherever the service died; and close() (server.ts) goes past the        *)
(* preparer with the setting put back or its loss reported.                *)
(***************************************************************************)
THEOREM SettingIsNotLost == AllSpec => []SettingNotLost
<1>1. IInv => SettingNotLost
  BY InvMeans
<1>2. QED BY <1>1, Invariance, PTL

(***************************************************************************)
(* A cancel on the pipe, a deadline, an abort or a connection that goes    *)
(* down stops the executions it is about and no others (rpc-client.ts,     *)
(* pipe-server.ts, the dispatcher): for any number of connections and      *)
(* requests, and wherever the limits of the server refuse one of them.     *)
(***************************************************************************)
THEOREM PipeStopsOnlyItsOwn == AllSpec => []StopsOnlyItsOwn
<1>1. IInv => StopsOnlyItsOwn
  BY InvMeans
<1>2. QED BY <1>1, Invariance, PTL
=============================================================================
