----------------------------- MODULE RunProofs -----------------------------
(***************************************************************************)
(* Proofs about the two parts that keep runs: the store of the daemon's    *)
(* tasks (TaskStore), for every choice of its limits and bounds, and then  *)
(* the groups of the MCP process (GroupController).                        *)
(***************************************************************************)
EXTENDS TaskStore, GroupController, FiniteSetTheorems, TLAPS

\* The store's variables keep their types through every operation, timer and
\* continuation.
THEOREM TypeCorrect == Spec => []TypeOK
<1>1. Init => TypeOK
  <2> SUFFICES ASSUME Init PROVE TypeOK
    OBVIOUS
  <2>1. nextRun \in 1..(MaxStarts + 1)
    BY TaskStoreAssumption DEF Init
  <2>2. closing \in BOOLEAN
    BY Zenon DEF Init
  <2>3. /\ finishedAt \in [RunId -> Nat]
        /\ logged \in [RunId -> Nat]
        /\ now \in Nat
    BY DEF Init
  <2>4. /\ armed \in SUBSET RunId
        /\ awaited \in SUBSET RunId
        /\ accepted \in SUBSET RunId
    BY DEF Init
  <2>5. /\ state \in [RunId -> TaskStates \cup {"absent"}]
        /\ requestedStop \in [RunId -> {"none", "cancelled", "timed_out"}]
        /\ told \in [RunId -> TaskStates \cup {"none"}]
    BY DEF Init
  <2> QED BY <2>1, <2>2, <2>3, <2>4, <2>5 DEF TypeOK
<1>2. TypeOK /\ [Next]_vars => TypeOK'
  <2> SUFFICES ASSUME TypeOK, [Next]_vars PROVE TypeOK'
    OBVIOUS
  <2> USE TaskStoreAssumption DEF TypeOK, RunId, TaskStates, Terminal
  <2>1. ASSUME NEW timed \in BOOLEAN, StartAccepted(timed) PROVE TypeOK'
    <3>1. /\ nextRun \in RunId /\ nextRun' = nextRun + 1 /\ armed' = (IF timed THEN armed \cup {nextRun} ELSE armed)
          /\ told' = [told EXCEPT ![nextRun] = "running"]
          /\ UNCHANGED <<requestedStop, finishedAt, logged, closing, awaited, now, accepted>>
      BY <2>1 DEF StartAccepted
    <3>2. state' \in [RunId -> TaskStates \cup {"absent"}]
      BY <2>1 DEF StartAccepted, Without
    <3>3. nextRun' \in 1..(MaxStarts + 1)
      BY <3>1
    <3>4. told' \in [RunId -> TaskStates \cup {"none"}]
      BY <3>1
    <3> QED BY <3>1, <3>2, <3>3, <3>4
  <2>2. CASE StartRefused
    BY <2>2 DEF StartRefused, Without
  <2>3. ASSUME NEW r \in RunId, Append(r) PROVE TypeOK'
    <3>1. logged' \in [RunId -> Nat]
      BY <2>3 DEF Append
    <3> QED BY <2>3, <3>1 DEF Append
  <2>4. ASSUME NEW r \in RunId, NEW final \in Terminal, Finish(r, final)
        PROVE TypeOK'
    BY <2>4 DEF Finish, FinalState
  <2>5. ASSUME NEW r \in RunId, Complete(r) PROVE TypeOK'
    <3>1. PICK termination \in Terminations, exitZero \in BOOLEAN :
            Finish(r, stateForTermination(termination, exitZero))
      BY <2>5 DEF Complete
    <3>2. stateForTermination(termination, exitZero) \in Terminal
      BY DEF stateForTermination, Terminations
    <3> QED BY <2>4, <3>1, <3>2
  <2>6. ASSUME NEW r \in RunId, Fail(r) PROVE TypeOK'
    BY <2>4, <2>6 DEF Fail
  <2>7. ASSUME NEW r \in RunId, TimeoutFires(r) PROVE TypeOK'
    BY <2>7 DEF TimeoutFires, StopWith
  <2>8. ASSUME NEW r \in RunId, Query(r) PROVE TypeOK'
    BY <2>8 DEF Query, Without
  <2>9. ASSUME NEW r \in RunId, Cancel(r) PROVE TypeOK'
    BY <2>9 DEF Cancel, Without, StopWith
  <2>10. CASE Shutdown
    BY <2>10 DEF Shutdown, AllStopped, Running
  <2>11. CASE Tick
    <3>1. /\ UNCHANGED <<state, requestedStop, armed, finishedAt, logged, nextRun>>
          /\ UNCHANGED <<closing, awaited, told, accepted>> /\ now' \in Nat
      BY <2>11 DEF Tick, taskVars
    <3> QED BY <3>1
  <2>12. CASE UNCHANGED vars
    <3>1. /\ UNCHANGED <<state, requestedStop, armed, finishedAt, logged, nextRun>>
          /\ UNCHANGED <<closing, awaited, now, told, accepted>>
      BY <2>12 DEF vars, taskVars
    <3> QED BY <3>1
  <2> QED BY <2>1, <2>2, <2>3, <2>5, <2>6, <2>7, <2>8, <2>9, <2>10, <2>11, <2>12 DEF Next
<1> QED BY <1>1, <1>2, PTL DEF Spec

----------------------------------------------------------------------------
(* What one step may do to one run.                                        *)

\* Nothing is known of a run that has not been started.
Fresh ==
    \A r \in RunId : r >= nextRun =>
        /\ state[r] = "absent"
        /\ requestedStop[r] = "none"
        /\ told[r] = "none"
        /\ r \notin accepted

StateMove(r) ==
    \/ state'[r] = state[r]
    \/ state[r] = "absent" /\ state'[r] = "running" /\ r = nextRun
         /\ nextRun' = nextRun + 1 /\ ~closing
    \/ state[r] = "running" /\ state'[r] \in Terminal
         /\ (requestedStop[r] # "none" => state'[r] = requestedStop[r])
    \/ state[r] \in Terminal /\ state'[r] = "absent"

StopMove(r) ==
    \/ requestedStop'[r] = requestedStop[r]
    \/ requestedStop[r] = "none" /\ state[r] = "running" /\ state'[r] = "running"

ToldMove(r) == told'[r] = told[r] \/ (state'[r] \in TaskStates /\ told'[r] = state'[r])

AcceptedMove(r) ==
    /\ r \in accepted => r \in accepted'
    /\ r \in accepted' => \/ r \in accepted
                          \/ state[r] = "running" /\ state'[r] = "running"
                               /\ requestedStop'[r] = "cancelled" /\ told'[r] = "running"

AwaitedMove(r) ==
    closing' /\ state'[r] = "running" /\ (closing => r \in awaited) => r \in awaited'

Moves ==
    /\ nextRun' \in {nextRun, nextRun + 1}
    /\ closing => closing'
    /\ \A r \in RunId :
         StateMove(r) /\ StopMove(r) /\ ToldMove(r) /\ AcceptedMove(r) /\ AwaitedMove(r)
           /\ (logged'[r] = logged[r] \/ state[r] = "running")

\* Every operation, timer and continuation of the store moves each run along its
\* life: start, one stop reason, one ending, and being forgotten after that.
LEMMA StepMoves == TypeOK /\ Fresh /\ [Next]_vars => Moves
<1> SUFFICES ASSUME TypeOK, Fresh, [Next]_vars PROVE Moves
  OBVIOUS
<1> USE TaskStoreAssumption DEF TypeOK, RunId, TaskStates, Terminal,
        Moves, StateMove, StopMove, ToldMove, AcceptedMove, AwaitedMove
<1>1. ASSUME NEW timed \in BOOLEAN, StartAccepted(timed) PROVE Moves
  <2>1. PICK S \in SUBSET Ended :
          state' = [Without(Expired \cup S) EXCEPT ![nextRun] = "running"]
    BY <1>1 DEF StartAccepted
  <2>2. \A r \in Expired \cup S : state[r] \in Terminal
    BY DEF Expired, Ended, Kept, Retained, Running
  <2>3. nextRun \in RunId /\ state[nextRun] = "absent"
    BY <1>1 DEF Fresh, StartAccepted
  <2>4. \A r \in RunId : StateMove(r)
    BY <1>1, <2>1, <2>2, <2>3 DEF StartAccepted, Without, Accepting
  <2>5. \A r \in RunId : ToldMove(r)
    BY <1>1, <2>1, <2>3 DEF StartAccepted, Without
  <2>6. /\ nextRun' = nextRun + 1
        /\ UNCHANGED <<requestedStop, logged, closing, accepted>>
    BY <1>1 DEF StartAccepted
  <2>7. ~closing'
    BY <1>1, <2>6 DEF StartAccepted, Accepting
  <2> QED BY <2>4, <2>5, <2>6, <2>7
<1>2. CASE StartRefused
  <2>1. \A r \in Expired \cup Ended : state[r] \in Terminal
    BY DEF Expired, Ended, Kept, Retained, Running
  <2> QED BY <1>2, <2>1 DEF StartRefused, Without
<1>3. ASSUME NEW q \in RunId, Append(q) PROVE Moves
  BY <1>3 DEF Append, Writable
<1>4. ASSUME NEW q \in RunId, NEW final \in Terminal, Finish(q, final) PROVE Moves
  BY <1>4 DEF Finish, FinalState
<1>5. ASSUME NEW q \in RunId, Complete(q) PROVE Moves
  <2>1. PICK termination \in Terminations, exitZero \in BOOLEAN :
          Finish(q, stateForTermination(termination, exitZero))
    BY <1>5 DEF Complete
  <2>2. stateForTermination(termination, exitZero) \in Terminal
    BY DEF stateForTermination, Terminations
  <2> QED BY <1>4, <2>1, <2>2
<1>6. ASSUME NEW q \in RunId, Fail(q) PROVE Moves
  BY <1>4, <1>6 DEF Fail
<1>7. ASSUME NEW q \in RunId, TimeoutFires(q) PROVE Moves
  BY <1>7 DEF TimeoutFires, StopWith
<1>8. ASSUME NEW q \in RunId, Query(q) PROVE Moves
  BY <1>8 DEF Query, Without, Expired
<1>9. ASSUME NEW q \in RunId, Cancel(q) PROVE Moves
  BY <1>9 DEF Cancel, Without, Expired, StopWith
<1>10. CASE Shutdown
  BY <1>10 DEF Shutdown, AllStopped, Running
<1>11. CASE Tick
  BY <1>11 DEF Tick, taskVars
<1>12. CASE UNCHANGED vars
  BY <1>12 DEF vars, taskVars
<1> QED BY <1>1, <1>2, <1>3, <1>5, <1>6, <1>7, <1>8, <1>9, <1>10, <1>11, <1>12 DEF Next

----------------------------------------------------------------------------
(* The inductive invariant.  AcceptedCancelWins alone is not inductive: it *)
(* needs the stop reason an accepted cancel recorded, and a run that was   *)
(* never started must not be among the accepted ones.                      *)

AcceptedStopped == \A r \in accepted : requestedStop[r] = "cancelled"

ToldAgrees ==
    \A r \in RunId : told[r] \in Terminal => state[r] \in {told[r], "absent"}

RunningAwaited == closing => \A r \in RunId : state[r] = "running" => r \in awaited

RunInv ==
    /\ TypeOK
    /\ Fresh
    /\ AcceptedStopped
    /\ AcceptedCancelWins
    /\ ToldAgrees
    /\ RunningAwaited

\* RunInv holds initially and every step preserves it.
LEMMA RunInvHolds == Spec => []RunInv
<1>1. Init => Fresh /\ AcceptedStopped /\ AcceptedCancelWins /\ ToldAgrees /\ RunningAwaited
  BY DEF Init, Fresh, AcceptedStopped, AcceptedCancelWins, ToldAgrees, RunningAwaited, Terminal
<1>2. ASSUME RunInv, TypeOK', [Next]_vars PROVE RunInv'
  <2>1. Moves
    BY <1>2, StepMoves DEF RunInv
  <2> USE <1>2, <2>1 DEF RunInv, Moves
  <2>2. Fresh'
    <3> SUFFICES ASSUME NEW r \in RunId, r >= nextRun'
                 PROVE /\ state'[r] = "absent" /\ requestedStop'[r] = "none"
                       /\ told'[r] = "none" /\ r \notin accepted'
      BY DEF Fresh
    <3>1. r >= nextRun
      BY DEF TypeOK, RunId
    <3>2. /\ state[r] = "absent" /\ requestedStop[r] = "none"
          /\ told[r] = "none" /\ r \notin accepted
      BY <3>1 DEF Fresh
    <3>3. ~(r = nextRun /\ nextRun' = nextRun + 1)
      BY DEF TypeOK, RunId
    <3> QED BY <3>2, <3>3 DEF StateMove, StopMove, ToldMove, AcceptedMove, Terminal, TaskStates
  <2>3. AcceptedStopped'
    BY DEF AcceptedStopped, AcceptedMove, StopMove, TypeOK
  <2>4. AcceptedCancelWins'
    <3> SUFFICES ASSUME NEW r \in accepted'
                 PROVE /\ state'[r] \in {"running", "cancelled", "absent"}
                       /\ told'[r] \in {"none", "running", "cancelled"}
      BY DEF AcceptedCancelWins
    <3>1. r \in RunId
      BY DEF TypeOK
    <3>2. CASE r \in accepted
      <4>1. /\ requestedStop[r] = "cancelled"
            /\ state[r] \in {"running", "cancelled", "absent"}
            /\ told[r] \in {"none", "running", "cancelled"}
        BY <3>2 DEF AcceptedStopped, AcceptedCancelWins
      <4>2. state'[r] \in {"running", "cancelled", "absent"}
        BY <3>1, <4>1 DEF StateMove
      <4> QED BY <3>1, <4>1, <4>2 DEF ToldMove, TaskStates, Terminal
    <3>3. CASE r \notin accepted
      BY <3>1, <3>3 DEF AcceptedMove
    <3> QED BY <3>2, <3>3
  <2>5. ToldAgrees'
    <3> SUFFICES ASSUME NEW r \in RunId, told'[r] \in Terminal
                 PROVE state'[r] \in {told'[r], "absent"}
      BY DEF ToldAgrees
    <3>1. CASE told'[r] = state'[r]
      BY <3>1
    <3>2. CASE told'[r] = told[r] /\ told'[r] # state'[r]
      <4>1. state[r] \in {told[r], "absent"} /\ told[r] # "none"
        BY <3>2 DEF ToldAgrees, Terminal
      <4>2. ~(r >= nextRun)
        BY <4>1 DEF Fresh
      <4>3. r # nextRun
        BY <4>2 DEF TypeOK, RunId
      <4> QED BY <3>2, <4>1, <4>3 DEF StateMove, Terminal
    <3> QED BY <3>1, <3>2 DEF ToldMove
  <2>6. RunningAwaited'
    BY DEF RunningAwaited, AwaitedMove, StateMove, Terminal
  <2> QED BY <2>2, <2>3, <2>4, <2>5, <2>6
<1> QED BY <1>1, <1>2, TypeCorrect, PTL DEF Spec, RunInv

\* A cancel answered accepted: true is never contradicted: the run ends cancelled
\* or is still being torn down, whatever its worker returns.
THEOREM CancelsStand == Spec => []AcceptedCancelWins
BY RunInvHolds, PTL DEF RunInv

\* After shutdown() has drained, nothing runs, so the daemon may dispose of the
\* executors the workers use.
DrainedMeansIdle == Drained => Running = {}

\* shutdown() resolves only when no task runs, and no task can be started later.
THEOREM DrainIsComplete == Spec => []DrainedMeansIdle
<1>1. RunInv => DrainedMeansIdle
  BY DEF RunInv, RunningAwaited, DrainedMeansIdle, Drained, Running
<1> QED BY <1>1, RunInvHolds, PTL

\* The TTL sweep and the eviction of start() never delete a running task.
THEOREM RunningKept == Spec => RunningNeverForgotten
<1>1. RunInv /\ [Next]_vars =>
        [\A r \in RunId : state[r] = "running" => state'[r] # "absent"]_vars
  <2> SUFFICES ASSUME RunInv, [Next]_vars, NEW r \in RunId, state[r] = "running"
               PROVE  state'[r] # "absent"
    OBVIOUS
  <2> QED BY StepMoves DEF RunInv, Moves, StateMove, Terminal
<1> QED BY <1>1, RunInvHolds, PTL DEF Spec, RunningNeverForgotten

\* Once a caller was given a terminal state, no answer differs and no log grows.
THEOREM AnswersAreFinal == Spec => TerminalAnswerFinal
<1>1. RunInv /\ [Next]_vars =>
        [\A r \in RunId : told[r] \in Terminal =>
           told'[r] = told[r] /\ logged'[r] = logged[r]]_vars
  <2> SUFFICES ASSUME RunInv, [Next]_vars, NEW r \in RunId, told[r] \in Terminal
               PROVE  told'[r] = told[r] /\ logged'[r] = logged[r]
    OBVIOUS
  <2>1. Moves
    BY StepMoves DEF RunInv
  <2>2. state[r] \in {told[r], "absent"} /\ ~(r >= nextRun)
    BY DEF RunInv, ToldAgrees, Fresh, Terminal
  <2>3. r # nextRun
    BY <2>2 DEF RunInv, TypeOK, RunId
  <2>4. state'[r] \in {told[r], "absent"}
    BY <2>1, <2>2, <2>3 DEF Moves, StateMove, Terminal
  <2> QED BY <2>1, <2>2, <2>4 DEF Moves, ToldMove, Terminal, TaskStates
<1> QED BY <1>1, RunInvHolds, PTL DEF Spec, TerminalAnswerFinal

----------------------------------------------------------------------------
(* The limits.                                                             *)

\* The table and every part of it are finite.
LEMMA RunsFinite == \A S \in SUBSET RunId : IsFiniteSet(S) /\ Cardinality(S) \in Nat
<1>1. IsFiniteSet(RunId)
  BY FS_Interval, TaskStoreAssumption DEF RunId
<1> QED BY <1>1, FS_Subset, FS_CardinalityType

\* After an accepted start() the table holds at most maxRetainedTasks tasks: the
\* eviction of the oldest ended ones made room for exactly the new one.
LEMMA StartMakesRoom ==
  ASSUME TypeOK, Fresh, NEW timed \in BOOLEAN, StartAccepted(timed),
         Cardinality(Retained) <= MaxRetained
  PROVE  /\ Cardinality(Retained') <= MaxRetained
         /\ Cardinality(Running') <= MaxConcurrent
<1>1. PICK S \in SUBSET Ended :
        /\ Evicts(S)
        /\ state' = [Without(Expired \cup S) EXCEPT ![nextRun] = "running"]
  BY DEF StartAccepted
<1>2. nextRun \in RunId /\ state[nextRun] = "absent"
  BY DEF Fresh, StartAccepted, TypeOK, RunId
<1>3. Retained' \subseteq (Kept \ S) \cup {nextRun}
  BY <1>1, <1>2 DEF Retained, Kept, Without, TypeOK
<1>4. Running' \subseteq Running \cup {nextRun}
  BY <1>1, <1>2 DEF Running, Without, TypeOK
<1>5. /\ Kept \in SUBSET RunId /\ S \in SUBSET Kept /\ Running \in SUBSET RunId
      /\ Retained \in SUBSET RunId /\ Kept \ S \in SUBSET RunId
  BY DEF Kept, Ended, Retained, Running
<1>6. /\ IsFiniteSet(Kept) /\ IsFiniteSet(Kept \ S) /\ IsFiniteSet(Running)
      /\ Cardinality(Kept) \in Nat /\ Cardinality(Kept \ S) \in Nat
      /\ Cardinality(Running) \in Nat /\ Cardinality(S) \in Nat
  BY <1>5, RunsFinite
<1>7. Cardinality(Running') <= MaxConcurrent
  <2>1. /\ IsFiniteSet(Running \cup {nextRun})
        /\ Cardinality(Running \cup {nextRun}) = Cardinality(Running) + 1
    <3>1. nextRun \notin Running
      BY <1>2 DEF Running
    <3> QED BY <1>6, <3>1, FS_AddElement
  <2>2. IsFiniteSet(Running') /\ Cardinality(Running') <= Cardinality(Running \cup {nextRun})
    BY <1>4, <2>1, FS_Subset
  <2>3. /\ Cardinality(Running') \in Nat
        /\ Cardinality(Running \cup {nextRun}) \in Nat
        /\ Cardinality(Running) < MaxConcurrent
    BY <2>1, <2>2, FS_CardinalityType DEF StartAccepted
  <2> QED BY <1>6, <2>1, <2>2, <2>3, TaskStoreAssumption
<1>8. Cardinality(Kept \ S) < MaxRetained
  <2>1. Cardinality(Kept \ S) = Cardinality(Kept) - Cardinality(S)
    <3>1. Kept \cap S = S
      BY <1>5
    <3> QED BY <1>6, <3>1, FS_Difference
  <2>2. Cardinality(S) = Excess
    BY <1>1 DEF Evicts
  <2> QED BY <1>6, <2>1, <2>2, TaskStoreAssumption DEF Excess
<1>9. Cardinality(Retained') <= MaxRetained
  <2>1. /\ IsFiniteSet((Kept \ S) \cup {nextRun})
        /\ Cardinality((Kept \ S) \cup {nextRun}) = Cardinality(Kept \ S) + 1
    <3>1. nextRun \notin Kept \ S
      BY <1>2 DEF Kept, Retained
    <3> QED BY <1>6, <3>1, FS_AddElement
  <2>2. /\ IsFiniteSet(Retained')
        /\ Cardinality(Retained') <= Cardinality((Kept \ S) \cup {nextRun})
    BY <1>3, <2>1, FS_Subset
  <2>3. /\ Cardinality(Retained') \in Nat
        /\ Cardinality((Kept \ S) \cup {nextRun}) \in Nat
    BY <2>1, <2>2, FS_CardinalityType
  <2> QED BY <1>6, <1>8, <2>1, <2>2, <2>3, TaskStoreAssumption
<1> QED BY <1>7, <1>9

\* The two limits of the configuration hold in every reachable state: only start()
\* adds to the table, and it makes room or refuses.
THEOREM LimitsHold == Spec => []WithinLimits
<1>1. Init => WithinLimits
  <2> SUFFICES ASSUME Init PROVE WithinLimits
    OBVIOUS
  <2>1. Running = {} /\ Retained = {}
    BY DEF Init, Running, Retained
  <2> QED BY <2>1, FS_EmptySet, TaskStoreAssumption DEF WithinLimits
<1>2. ASSUME RunInv, WithinLimits, [Next]_vars PROVE WithinLimits'
  <2>1. ASSUME NEW timed \in BOOLEAN, StartAccepted(timed) PROVE WithinLimits'
    BY <1>2, <2>1, StartMakesRoom DEF RunInv, WithinLimits
  <2>2. CASE \A r \in RunId : state[r] = "absent" => state'[r] = "absent"
    <3>1. Moves
      BY <1>2, StepMoves DEF RunInv
    <3>2. Running' \subseteq Running /\ Retained' \subseteq Retained
      BY <2>2, <3>1 DEF Moves, StateMove, Running, Retained, Terminal
    <3>3. Running \in SUBSET RunId /\ Retained \in SUBSET RunId
      BY DEF Running, Retained
    <3>4. /\ IsFiniteSet(Running) /\ IsFiniteSet(Retained)
          /\ Cardinality(Running) \in Nat /\ Cardinality(Retained) \in Nat
      BY <3>3, RunsFinite
    <3>5. /\ Cardinality(Running') <= Cardinality(Running) /\ Cardinality(Running') \in Nat
          /\ Cardinality(Retained') <= Cardinality(Retained) /\ Cardinality(Retained') \in Nat
      BY <3>2, <3>4, FS_Subset, FS_CardinalityType
    <3> QED BY <1>2, <3>4, <3>5, TaskStoreAssumption DEF WithinLimits
  <2>3. CASE ~\E timed \in BOOLEAN : StartAccepted(timed)
    <3>1. \A r \in RunId : state[r] = "absent" => state'[r] = "absent"
      BY <1>2, <2>3 DEF Next, vars, taskVars, StartRefused, Append, Complete, Fail, Finish,
         TimeoutFires, Query, Cancel, Shutdown, Tick, Without, RunInv, TypeOK
    <3> QED BY <2>2, <3>1
  <2> QED BY <2>1, <2>3
<1> QED BY <1>1, <1>2, RunInvHolds, PTL DEF Spec

----------------------------------------------------------------------------
(* The store implements TaskLifecycle.                                     *)

\* Every step of the store, its cleanup and eviction included, is a step of the
\* life of a run promised to the holders of run IDs, or leaves it unchanged.
THEOREM StoreImplementsLifecycle == Spec => ImplementsLifecycle
<1> USE DEF RunId, TaskStates, Terminal, PhaseOf
<1>1. Init => Lifecycle!Init
  <2> SUFFICES ASSUME Init PROVE Lifecycle!Init
    OBVIOUS
  <2>1. \A r \in RunId : ~(r < nextRun) /\ state[r] = "absent"
    BY TaskStoreAssumption DEF Init
  <2> QED BY <2>1 DEF Init, Lifecycle!Init
<1>2. ASSUME RunInv, [Next]_vars PROVE [Lifecycle!Next]_(Lifecycle!vars)
  <2> USE <1>2, TaskStoreAssumption DEF RunInv, TypeOK
  <2>1. Expired \subseteq Lifecycle!Ended /\ Ended \subseteq Lifecycle!Ended
    BY DEF Expired, Ended, Kept, Retained, Running, Lifecycle!Ended
  <2>2. \A r \in RunId : state[r] # "absent" => r < nextRun
    BY DEF Fresh
  <2>3. ASSUME NEW S \in SUBSET Lifecycle!Ended, state' = Without(S),
               UNCHANGED <<requestedStop, nextRun>>
        PROVE  Lifecycle!Next
    <3>1. \A r \in S : state[r] \in Terminal /\ r < nextRun
      BY <2>2 DEF Lifecycle!Ended
    <3>2. Lifecycle!Forget(S)
      BY <2>3, <3>1 DEF Lifecycle!Forget, Without
    <3> QED BY <3>2 DEF Lifecycle!Next
  <2>4. ASSUME NEW timed \in BOOLEAN, StartAccepted(timed) PROVE Lifecycle!Next
    <3>1. PICK S \in SUBSET Ended :
            state' = [Without(Expired \cup S) EXCEPT ![nextRun] = "running"]
      BY <2>4 DEF StartAccepted
    <3>2. /\ nextRun \in RunId /\ state[nextRun] = "absent" /\ nextRun' = nextRun + 1
          /\ requestedStop' = requestedStop
      BY <2>4 DEF StartAccepted, Fresh
    <3>3. \A r \in Expired \cup S : state[r] \in Terminal /\ r < nextRun
      BY <2>1, <2>2 DEF Lifecycle!Ended
    <3>4. PICK b \in RunId, F \in SUBSET Lifecycle!Ended : b = nextRun /\ F = Expired \cup S
      BY <2>1, <3>2
    <3>5. ~(b < nextRun) /\ state[b] = "absent" /\ b \notin F
      BY <3>2, <3>3, <3>4
    <3>6. \A r \in RunId : state'[r] = IF r = b THEN "running"
                                      ELSE IF r \in F THEN "absent" ELSE state[r]
      BY <3>1, <3>4 DEF Without
    <3>7. \A r \in RunId : r < nextRun' <=> (r < nextRun \/ r = b)
      BY <3>2, <3>4
    <3>8. \A r \in RunId : PhaseOf(r)' = IF r = b THEN "running"
                                        ELSE IF r \in F THEN "gone" ELSE PhaseOf(r)
      BY <3>3, <3>4, <3>6, <3>7
    <3>9. \A r \in RunId :
            (IF state'[r] \in Terminal THEN state'[r] ELSE "none")
              = IF r \in F THEN "none"
                ELSE IF state[r] \in Terminal THEN state[r] ELSE "none"
      BY <3>5, <3>6
    <3>10. b \in Lifecycle!Fresh
      BY <3>5 DEF Lifecycle!Fresh
    <3>11. Lifecycle!Begin(b, F)
      <4> HIDE DEF PhaseOf, Terminal, RunId
      <4> QED BY <3>2, <3>8, <3>9, Zenon DEF Lifecycle!Begin
    <3> QED BY <3>10, <3>11 DEF Lifecycle!Next
  <2>5. CASE StartRefused
    <3>1. Expired \in SUBSET Lifecycle!Ended /\ Expired \cup Ended \in SUBSET Lifecycle!Ended
      BY <2>1
    <3> QED BY <2>3, <2>5, <3>1 DEF StartRefused
  <2>6. ASSUME NEW r \in RunId, NEW final \in Terminal, Finish(r, final)
        PROVE  Lifecycle!Next
    <3>1. FinalState(r, final) \in Terminal
      BY DEF FinalState
    <3>2. PICK o \in Lifecycle!Outcomes : o = FinalState(r, final)
      BY <3>1 DEF Lifecycle!Outcomes
    <3>3. Lifecycle!End(r, o)
      BY <2>2, <2>6, <3>1, <3>2 DEF Finish, FinalState, Lifecycle!End
    <3>4. r \in Lifecycle!Running
      BY <2>6 DEF Finish, Lifecycle!Running
    <3> QED BY <3>3, <3>4 DEF Lifecycle!Next
  <2>7. ASSUME NEW r \in RunId, Complete(r) PROVE Lifecycle!Next
    <3>1. PICK termination \in Terminations, exitZero \in BOOLEAN :
            Finish(r, stateForTermination(termination, exitZero))
      BY <2>7 DEF Complete
    <3>2. stateForTermination(termination, exitZero) \in Terminal
      BY DEF stateForTermination, Terminations
    <3> QED BY <2>6, <3>1, <3>2
  <2>8. ASSUME NEW r \in RunId, Fail(r) PROVE Lifecycle!Next
    BY <2>6, <2>8 DEF Fail
  <2>9. ASSUME NEW R \in SUBSET Running, NEW S \in SUBSET Lifecycle!Ended,
               NEW why \in {"cancelled", "timed_out"},
               state' = Without(S), UNCHANGED nextRun,
               requestedStop' = [r \in RunId |->
                 IF r \in R /\ requestedStop[r] = "none" THEN why ELSE requestedStop[r]]
        PROVE  Lifecycle!Next
    <3>1. \A r \in S : state[r] \in Terminal /\ r < nextRun
      BY <2>2 DEF Lifecycle!Ended
    <3>2. Lifecycle!RequestStop(R, why, S)
      BY <2>2, <2>9, <3>1 DEF Lifecycle!RequestStop, Without, Running
    <3>3. R \in SUBSET Lifecycle!Running
      BY DEF Running, Lifecycle!Running
    <3> QED BY <3>2, <3>3 DEF Lifecycle!Next, Lifecycle!StopReasons
  <2>10. ASSUME NEW r \in RunId, TimeoutFires(r) PROVE Lifecycle!Next
    <3>1. /\ state' = Without({}) /\ UNCHANGED nextRun
          /\ {} \in SUBSET Lifecycle!Ended /\ {r} \cap Running \in SUBSET Running
      BY <2>10 DEF TimeoutFires, Without
    <3>2. requestedStop' = [q \in RunId |->
             IF q \in {r} \cap Running /\ requestedStop[q] = "none"
               THEN "timed_out" ELSE requestedStop[q]]
      BY <2>10 DEF TimeoutFires, StopWith, Running
    <3> QED BY <2>9, <3>1, <3>2
  <2>11. ASSUME NEW r \in RunId, Query(r) PROVE Lifecycle!Next
    BY <2>1, <2>3, <2>11 DEF Query
  <2>12. ASSUME NEW r \in RunId, Cancel(r) PROVE Lifecycle!Next
    <3>1. /\ state' = Without(Expired) /\ UNCHANGED nextRun
          /\ Expired \in SUBSET Lifecycle!Ended /\ {r} \cap Running \in SUBSET Running
      BY <2>1, <2>12 DEF Cancel
    <3>2. requestedStop' = [q \in RunId |->
             IF q \in {r} \cap Running /\ requestedStop[q] = "none"
               THEN "cancelled" ELSE requestedStop[q]]
      BY <2>12 DEF Cancel, StopWith, Running
    <3> QED BY <2>9, <3>1, <3>2
  <2>13. CASE Shutdown
    <3>1. /\ state' = Without({}) /\ UNCHANGED nextRun
          /\ {} \in SUBSET Lifecycle!Ended /\ Running \in SUBSET Running
      BY <2>13 DEF Shutdown, Without
    <3>2. requestedStop' = [q \in RunId |->
             IF q \in Running /\ requestedStop[q] = "none"
               THEN "cancelled" ELSE requestedStop[q]]
      BY <2>13 DEF Shutdown, AllStopped
    <3> QED BY <2>9, <3>1, <3>2
  <2>14. ASSUME UNCHANGED <<state, requestedStop, nextRun>> PROVE UNCHANGED Lifecycle!vars
    BY <2>14 DEF Lifecycle!vars
  <2>15. ASSUME NEW r \in RunId, Append(r) PROVE UNCHANGED Lifecycle!vars
    BY <2>14, <2>15 DEF Append
  <2>16. CASE Tick
    BY <2>14, <2>16 DEF Tick, taskVars
  <2>17. CASE UNCHANGED vars
    BY <2>14, <2>17 DEF vars, taskVars
  <2> QED BY <2>4, <2>5, <2>7, <2>8, <2>10, <2>11, <2>12, <2>13, <2>15, <2>16, <2>17 DEF Next
<1> QED BY <1>1, <1>2, RunInvHolds, PTL DEF Spec, ImplementsLifecycle, Lifecycle!Spec

----------------------------------------------------------------------------
(* A group run, GroupController, for every size of the group, every        *)
(* concurrency, and any number of lost replies and cancels.                *)
(*                                                                         *)
(* What the group knows of a member lags behind the daemon, because a      *)
(* reply may be late or lost.  The invariant says how far: a child task    *)
(* that runs is active for the group or its start is being answered        *)
(* (Accounted), so the slots a dispatch counts as taken are at least those *)
(* that are (Claims).                                                      *)

Live == {m \in Members : child[m] = "running"}

\* Children that run and those the daemon may still be about to start.
Claims == Live \cup {m \in Members : startReq[m] = "sent"}

\* A handle that was not issued has started nothing.
Unissued ==
    batch = "none" =>
        /\ work = "none" /\ cancelCall = "none" /\ ~completedAt
        /\ \A m \in Members : child[m] = "none" /\ startReq[m] = "idle"

\* A start is under way only while its cycle awaits it, and it is sent for a machine
\* that has no task yet.
StartInv(m) ==
    /\ startReq[m] \in {"idle", "sent", "running", "refused"}
    /\ startReq[m] # "idle" => work = "starting"
    /\ startReq[m] \in {"sent", "refused"} => child[m] = "none"
    /\ startReq[m] = "running" => child[m] # "none"
    /\ starts[m] = IF child[m] = "none" THEN 0 ELSE 1
    /\ member[m] = "queued" => child[m] = "none" \/ startReq[m] = "running"

\* Only members with a task are polled and cancelled; a reply that reports an end is
\* true for good.
PollInv(m) ==
    /\ m \in hasRun => child[m] # "none" /\ member[m] # "queued"
    /\ statusReq[m] # "idle" \/ cancelReq[m] # "idle" => m \in hasRun
    /\ statusReq[m] \in TaskTerminal \/ cancelReq[m] \in TaskTerminal => child[m] # "running"

\* A running child is active for the group, or its start has not been answered yet.
Accounted(m) == child[m] = "running" => startReq[m] = "running" \/ m \in Active

MembersInv == \A m \in Members : StartInv(m) /\ PollInv(m) /\ Accounted(m)

ClaimsBounded == Cardinality(Claims) <= Concurrency

\* After a cancel began no new cycle starts anything, and the cancel requests its
\* stops only when the last one that did is over.
CancelInv ==
    /\ cancelling <=> cancels > 0
    /\ cancelCall # "none" => cancelling
    /\ cancelling /\ work = "starting" => cancelCall = "waiting"
    /\ cancelling /\ cancelCall # "waiting" =>
         \A m \in hasRun : child[m] = "running" => m \in stopAsked \cup missed \/ cancelReq[m] = "sent"
    /\ cancelCall = "none" => AllIdle(cancelReq)

CompleteInv ==
    completedAt =>
        /\ work # "starting"
        /\ \A m \in Members : member[m] # "queued" /\ child[m] # "running"

IInv == GroupTypeOK /\ Unissued /\ MembersInv /\ ClaimsBounded /\ CancelInv /\ CompleteInv

----------------------------------------------------------------------------
(* Types.                                                                  *)

LEMMA SentTypes ==
    ASSUME NEW S
    PROVE  Sent(S) \in [Members -> {"idle", "sent"}]
BY DEF Sent

LEMMA StepTypes == GroupTypeOK /\ MembersInv /\ [GroupNext]_groupVars => GroupTypeOK'
<1> SUFFICES ASSUME GroupTypeOK, MembersInv, [GroupNext]_groupVars PROVE GroupTypeOK'
  OBVIOUS
<1> USE GroupControllerAssumption DEF memberVars, requestVars, daemonVars, Requests, Replies
<1>1. ASSUME NEW E \in SUBSET Members, Start(E) PROVE GroupTypeOK'
  BY <1>1 DEF Start, GroupTypeOK, MemberStates, TERMINAL
<1>2. CASE BeginCycle \/ Dispatch \/ EndCycle
  <2>1. statusReq' \in [Members -> Requests] /\ startReq' \in [Members -> Requests]
    BY <1>2, SentTypes DEF BeginCycle, Dispatch, EndCycle, GroupTypeOK
  <2>2. work' \in {"none", "refreshing", "starting"} /\ completedAt' \in BOOLEAN
    BY <1>2 DEF BeginCycle, Dispatch, EndCycle, Snapshot, GroupTypeOK
  <2> QED BY <1>2, <2>1, <2>2 DEF BeginCycle, Dispatch, EndCycle, GroupTypeOK
<1>3. CASE BeginCancel
  BY <1>3 DEF BeginCancel, GroupTypeOK, MemberStates, TERMINAL, TaskTerminal
<1>4. CASE RequestCancels \/ EndCancel
  <2>1. cancelReq' \in [Members -> Requests]
    BY <1>4, SentTypes DEF RequestCancels, EndCancel, GroupTypeOK
  <2>2. completedAt' \in BOOLEAN
    BY <1>4 DEF RequestCancels, EndCancel, Snapshot, GroupTypeOK
  <2> QED BY <1>4, <2>1, <2>2 DEF RequestCancels, EndCancel, GroupTypeOK
<1>5. ASSUME NEW m \in Members, StatusReply(m) \/ CancelReply(m) PROVE GroupTypeOK'
  BY <1>5 DEF StatusReply, CancelReply, ApplyOnly, GroupTypeOK, MemberStates, TERMINAL
<1>6. ASSUME NEW m \in Members, StartReply(m) PROVE GroupTypeOK'
  <2>1. StartedState(startReq[m]) \in MemberStates
    BY <1>6 DEF StartReply, StartedState, MemberStates, TERMINAL, TaskTerminal
  <2> QED BY <1>6, <2>1 DEF StartReply, ApplyOnly, GroupTypeOK
<1>7. ASSUME NEW m \in Members, StatusLost(m) \/ StartLost(m) \/ CancelLost(m) PROVE GroupTypeOK'
  BY <1>7 DEF StatusLost, StartLost, CancelLost, StartOutcomeUnknown, Lost, ApplyOnly, GroupTypeOK, MemberStates
<1>8. ASSUME NEW m \in Members, DaemonStart(m) PROVE GroupTypeOK'
  BY <1>8 DEF DaemonStart, DaemonOnly, GroupTypeOK
<1>9. ASSUME NEW m \in Members, DaemonStatus(m) \/ DaemonCancel(m) PROVE GroupTypeOK'
  <2>1. Known(m) \in Requests
    BY DEF Known
  <2> QED BY <1>9, <2>1 DEF DaemonStatus, DaemonCancel, DaemonOnly, GroupTypeOK
<1>10. ASSUME NEW m \in Members, ChildEnds(m) \/ ChildForgotten(m) PROVE GroupTypeOK'
  BY <1>10 DEF ChildEnds, ChildForgotten, DaemonOnly, GroupTypeOK, TaskTerminal
<1>11. CASE Evict \/ UNCHANGED groupVars
  BY <1>11 DEF Evict, groupVars, GroupTypeOK
<1> QED
  BY <1>1, <1>2, <1>3, <1>4, <1>5, <1>6, <1>7, <1>8, <1>9, <1>10, <1>11 DEF GroupNext

----------------------------------------------------------------------------
(* Members.                                                                *)

\* A member whose state, task and requests a step leaves alone stays as it was, if the
\* step does not end the cycle that awaits its start.
LEMMA MemberAlone ==
    ASSUME NEW m \in Members, StartInv(m), PollInv(m), Accounted(m),
           m \in hasRun' <=> m \in hasRun,
           member'[m] = member[m], child'[m] = child[m], starts'[m] = starts[m],
           startReq'[m] = startReq[m], statusReq'[m] = statusReq[m], cancelReq'[m] = cancelReq[m],
           work' = work \/ startReq[m] = "idle"
    PROVE  StartInv(m)' /\ PollInv(m)' /\ Accounted(m)'
BY DEF StartInv, PollInv, Accounted, Active

LEMMA StepMembers == GroupTypeOK /\ Unissued /\ MembersInv /\ [GroupNext]_groupVars => MembersInv'
<1> SUFFICES ASSUME GroupTypeOK, Unissued, MembersInv, [GroupNext]_groupVars, NEW f \in Members
             PROVE  StartInv(f)' /\ PollInv(f)' /\ Accounted(f)'
  BY DEF MembersInv
<1> USE DEF memberVars, requestVars, daemonVars
<1>0. StartInv(f) /\ PollInv(f) /\ Accounted(f)
  BY DEF MembersInv
<1>a. /\ statusReq[f] \in Requests /\ startReq[f] \in Requests /\ cancelReq[f] \in Requests
      /\ member[f] \in MemberStates
  BY DEF GroupTypeOK
<1> DEFINE Same ==
      /\ hasRun' = hasRun /\ member'[f] = member[f] /\ child'[f] = child[f] /\ starts'[f] = starts[f]
      /\ startReq'[f] = startReq[f] /\ statusReq'[f] = statusReq[f] /\ cancelReq'[f] = cancelReq[f]
      /\ work' = work
<1> HIDE DEF Same
<1>b. Same => StartInv(f)' /\ PollInv(f)' /\ Accounted(f)'
  BY <1>0, MemberAlone DEF Same
<1>1. ASSUME NEW E \in SUBSET Members, Start(E) PROVE StartInv(f)' /\ PollInv(f)' /\ Accounted(f)'
  <2>1. child[f] = "none" /\ startReq[f] = "idle" /\ f \notin hasRun
    BY <1>1, <1>0 DEF Start, Unissued, PollInv
  <2>2. UNCHANGED <<hasRun, child, starts, startReq, statusReq, cancelReq>>
    BY <1>1 DEF Start
  <2> QED BY <1>0, <2>1, <2>2 DEF StartInv, PollInv, Accounted
<1>2. CASE BeginCycle
  <2>1. startReq[f] = "idle"
    BY <1>2, <1>0 DEF BeginCycle, StartInv
  <2>2. /\ statusReq'[f] = IF f \in Pollable THEN "sent" ELSE "idle"
        /\ UNCHANGED <<member, hasRun, child, starts, startReq, cancelReq>>
    BY <1>2 DEF BeginCycle, Sent
  <2> QED BY <1>0, <2>1, <2>2 DEF StartInv, PollInv, Accounted, Pollable, Active, TaskTerminal
<1>3. CASE Dispatch
  <2>1. startReq[f] = "idle"
    BY <1>3, <1>0 DEF Dispatch, StartInv
  <2>2. UNCHANGED <<member, hasRun, child, starts, statusReq, cancelReq>>
    BY <1>3 DEF Dispatch
  <2>3. CASE startReq'[f] = "idle"
    BY <1>0, <2>1, <2>2, <2>3 DEF StartInv, PollInv, Accounted, Active
  <2>4. CASE startReq'[f] # "idle"
    <3>1. f \in Selected /\ startReq'[f] = "sent" /\ work' = "starting"
      BY <1>3, <2>1, <2>4 DEF Dispatch, Sent
    <3>2. member[f] = "queued"
      BY <3>1 DEF Selected, Startable
    <3>3. child[f] = "none"
      BY <1>0, <2>1, <3>2 DEF StartInv
    <3> QED BY <1>0, <2>2, <3>1, <3>3 DEF StartInv, PollInv, Accounted
  <2> QED BY <2>3, <2>4
<1>4. CASE EndCycle
  <2>1. startReq[f] = "idle"
    BY <1>4 DEF EndCycle, AllIdle
  <2> QED BY <1>4, <1>0, <2>1, MemberAlone DEF EndCycle
<1>5. CASE BeginCancel
  <2>1. /\ member'[f] = IF member[f] = "queued" THEN "cancelled" ELSE member[f]
        /\ UNCHANGED <<work, hasRun, child, starts, startReq, statusReq, cancelReq>>
    BY <1>5 DEF BeginCancel
  <2>2. CASE member[f] = "queued"
    BY <1>0, <2>1, <2>2 DEF StartInv, PollInv, Accounted, Active
  <2>3. CASE member[f] # "queued"
    BY <1>b, <2>1, <2>3 DEF Same
  <2> QED BY <2>2, <2>3
<1>6. CASE RequestCancels
  <2>1. /\ cancelReq'[f] = IF f \in Pollable THEN "sent" ELSE "idle"
        /\ UNCHANGED <<work, member, hasRun, child, starts, startReq, statusReq>>
    BY <1>6 DEF RequestCancels, Sent
  <2> QED BY <1>0, <2>1 DEF StartInv, PollInv, Accounted, Pollable, Active, TaskTerminal
<1>7. CASE EndCancel \/ Evict \/ UNCHANGED groupVars
  BY <1>7, <1>b DEF EndCancel, Evict, groupVars, Same
<1>8. ASSUME NEW m \in Members, StatusReply(m) \/ StatusLost(m) \/ CancelReply(m) \/ CancelLost(m)
      PROVE StartInv(f)' /\ PollInv(f)' /\ Accounted(f)'
  <2>1. UNCHANGED <<work, hasRun, child, starts, startReq>>
    BY <1>8 DEF StatusReply, StatusLost, CancelReply, CancelLost, ApplyOnly
  <2>2. CASE f # m
    <3>1. member'[f] = member[f] /\ statusReq'[f] = statusReq[f] /\ cancelReq'[f] = cancelReq[f]
      BY <1>8, <2>2 DEF StatusReply, StatusLost, CancelReply, CancelLost, ApplyOnly, GroupTypeOK
    <3> QED BY <1>b, <2>1, <3>1 DEF Same
  <2>3. CASE f = m
    <3>1. f \in hasRun
      BY <1>8, <1>0, <2>3 DEF StatusReply, StatusLost, CancelReply, CancelLost, PollInv, Replies, TaskTerminal
    <3>2. /\ statusReq'[f] \in {"idle", statusReq[f]}
          /\ cancelReq'[f] \in {"idle", cancelReq[f]}
      BY <1>8, <2>3 DEF StatusReply, StatusLost, CancelReply, CancelLost, GroupTypeOK
    <3>3. member'[f] \in {"unknown", "running"} \/ (member'[f] \in TaskTerminal /\ child[f] # "running")
      BY <1>8, <1>0, <2>3
      DEF StatusReply, StatusLost, CancelReply, CancelLost, ApplyOnly, PollInv, Replies, GroupTypeOK
    <3>4. member'[f] # "queued"
      BY <3>3 DEF TaskTerminal
    <3>5. child[f] = "running" => member'[f] \notin TERMINAL
      BY <3>3 DEF TERMINAL, TaskTerminal
    <3>6. StartInv(f)'
      BY <1>0, <2>1, <3>4 DEF StartInv
    <3>7. PollInv(f)'
      BY <1>0, <2>1, <3>1, <3>2, <3>4 DEF PollInv, TaskTerminal
    <3> QED BY <2>1, <3>1, <3>5, <3>6, <3>7 DEF Accounted, Active
  <2> QED BY <2>2, <2>3
<1>9. ASSUME NEW m \in Members, StartReply(m) \/ StartLost(m)
      PROVE StartInv(f)' /\ PollInv(f)' /\ Accounted(f)'
  <2>1. UNCHANGED <<work, child, starts, statusReq, cancelReq>>
    BY <1>9 DEF StartReply, StartLost, ApplyOnly
  <2>2. CASE f # m
    <3>1. member'[f] = member[f] /\ startReq'[f] = startReq[f] /\ (f \in hasRun' <=> f \in hasRun)
      BY <1>9, <2>2 DEF StartReply, StartLost, ApplyOnly, GroupTypeOK
    <3> QED BY <1>0, <2>1, <3>1, MemberAlone
  <2>3. CASE f = m /\ StartReply(f)
    <3>1. startReq[f] \in {"running", "refused"} /\ startReq'[f] = "idle"
      BY <1>0, <2>3 DEF StartReply, StartInv, Replies, TaskTerminal, GroupTypeOK
    <3>2. /\ member'[f] = IF startReq[f] = "refused" THEN "failed" ELSE "running"
          /\ hasRun' = IF startReq[f] = "refused" THEN hasRun ELSE hasRun \cup {f}
      BY <2>3, <3>1 DEF StartReply, StartedState, ApplyOnly, GroupTypeOK
    <3>3. CASE startReq[f] = "refused"
      BY <1>0, <2>1, <3>1, <3>2, <3>3 DEF StartInv, PollInv, Accounted
    <3>4. CASE startReq[f] = "running"
      BY <1>0, <2>1, <3>1, <3>2, <3>4 DEF StartInv, PollInv, Accounted, Active, TERMINAL, TaskTerminal
    <3> QED BY <3>1, <3>3, <3>4
  <2>4. CASE f = m /\ StartLost(f)
    <3>1. startReq'[f] = "idle" /\ member'[f] = "unknown" /\ hasRun' = hasRun
      BY <2>4 DEF StartLost, StartOutcomeUnknown, ApplyOnly, GroupTypeOK
    <3> QED BY <1>0, <2>1, <3>1 DEF StartInv, PollInv, Accounted, Active, TERMINAL, TaskTerminal
  <2> QED BY <1>9, <2>2, <2>3, <2>4
<1>10. ASSUME NEW m \in Members, DaemonStart(m) PROVE StartInv(f)' /\ PollInv(f)' /\ Accounted(f)'
  <2>1. UNCHANGED <<work, member, hasRun, statusReq, cancelReq>>
    BY <1>10 DEF DaemonStart, DaemonOnly
  <2>2. CASE f # m
    <3>1. startReq'[f] = startReq[f] /\ child'[f] = child[f] /\ starts'[f] = starts[f]
      BY <1>10, <2>2 DEF DaemonStart, GroupTypeOK
    <3> QED BY <1>b, <2>1, <3>1 DEF Same
  <2>3. CASE f = m
    <3>1. startReq[f] = "sent" /\ child[f] = "none" /\ starts[f] = 0 /\ f \notin hasRun
      BY <1>10, <1>0, <2>3 DEF DaemonStart, StartInv, PollInv
    <3>2. \/ startReq'[f] = "running" /\ child'[f] = "running" /\ starts'[f] = 1
          \/ startReq'[f] = "refused" /\ child'[f] = child[f] /\ starts'[f] = starts[f]
      BY <1>10, <2>3, <3>1 DEF DaemonStart, GroupTypeOK
    <3>3. statusReq[f] = "idle" /\ cancelReq[f] = "idle"
      BY <1>0, <3>1 DEF PollInv
    <3> QED BY <1>0, <2>1, <3>1, <3>2, <3>3 DEF StartInv, PollInv, Accounted, TaskTerminal
  <2> QED BY <2>2, <2>3
<1>11. ASSUME NEW m \in Members, DaemonStatus(m) \/ DaemonCancel(m)
       PROVE StartInv(f)' /\ PollInv(f)' /\ Accounted(f)'
  <2>1. UNCHANGED <<work, member, hasRun, startReq, child, starts>>
    BY <1>11 DEF DaemonStatus, DaemonCancel, DaemonOnly
  <2>2. CASE f # m
    <3>1. statusReq'[f] = statusReq[f] /\ cancelReq'[f] = cancelReq[f]
      BY <1>11, <2>2 DEF DaemonStatus, DaemonCancel, GroupTypeOK
    <3> QED BY <1>b, <2>1, <3>1 DEF Same
  <2>3. CASE f = m
    <3>1. f \in hasRun
      BY <1>11, <1>0, <2>3 DEF DaemonStatus, DaemonCancel, PollInv
    <3>2. /\ statusReq'[f] \in {Known(f), statusReq[f]}
          /\ cancelReq'[f] \in {Known(f), cancelReq[f]}
      BY <1>11, <2>3 DEF DaemonStatus, DaemonCancel, GroupTypeOK
    <3>3. Known(f) \in TaskTerminal => child[f] # "running"
      BY DEF Known, TaskTerminal
    <3> QED BY <1>0, <2>1, <3>1, <3>2, <3>3 DEF StartInv, PollInv, Accounted, Active
  <2> QED BY <2>2, <2>3
<1>12. ASSUME NEW m \in Members, ChildEnds(m) \/ ChildForgotten(m)
       PROVE StartInv(f)' /\ PollInv(f)' /\ Accounted(f)'
  <2>1. UNCHANGED <<work, member, hasRun, startReq, statusReq, cancelReq, starts>>
    BY <1>12 DEF ChildEnds, ChildForgotten, DaemonOnly
  <2>2. child'[f] = child[f] \/ (child[f] # "none" /\ child'[f] \notin {"none", "running"})
    BY <1>12 DEF ChildEnds, ChildForgotten, GroupTypeOK, TaskTerminal
  <2>3. CASE child'[f] = child[f]
    BY <1>b, <2>1, <2>3 DEF Same
  <2>4. CASE child[f] # "none" /\ child'[f] \notin {"none", "running"}
    BY <1>0, <2>1, <2>4 DEF StartInv, PollInv, Accounted
  <2> QED BY <2>2, <2>3, <2>4
<1> QED
  BY <1>1, <1>2, <1>3, <1>4, <1>5, <1>6, <1>7, <1>8, <1>9, <1>10, <1>11, <1>12 DEF GroupNext
----------------------------------------------------------------------------
(* Slots.                                                                  *)

LEMMA MembersFinite == IsFiniteSet(Members) /\ \A S \in SUBSET Members : IsFiniteSet(S)
<1>1. IsFiniteSet(Members)
  BY GroupControllerAssumption, FS_Interval DEF Members
<1> QED BY <1>1, FS_Subset

\* Whatever is selected fits, together with what is active, into the group's slots.
LEMMA SelectedFits ==
    Selected # {} => Cardinality(Selected) + Cardinality(Active) <= Concurrency
<1> SUFFICES ASSUME Selected # {} PROVE Cardinality(Selected) + Cardinality(Active) <= Concurrency
  OBVIOUS
<1>1. Selected \subseteq Members /\ Selected \subseteq 1..4 /\ Startable \subseteq Members /\ Active \subseteq Members
  BY GroupControllerAssumption DEF Selected, Startable, Active, Members
\* The last one selected sees all the others before it.
<1>2. PICK last \in Selected : \A q \in Selected : q <= last
  <2>1. CASE 4 \in Selected
    BY <1>1, <2>1
  <2>2. CASE 4 \notin Selected /\ 3 \in Selected
    BY <1>1, <2>2
  <2>3. CASE 4 \notin Selected /\ 3 \notin Selected /\ 2 \in Selected
    BY <1>1, <2>3
  <2>4. CASE Selected \subseteq {1}
    <3>1. 1 \in Selected
      BY <2>4
    <3> QED BY <2>4, <3>1
  <2> QED BY <1>1, <2>1, <2>2, <2>3, <2>4
<1> DEFINE Earlier == {q \in Startable : q < last}
<1>3. Cardinality(Earlier) + Cardinality(Active) < Concurrency
  BY <1>2 DEF Selected
<1>4. Selected \subseteq Earlier \cup {last}
  BY <1>1, <1>2 DEF Selected, Members
<1>5. IsFiniteSet(Earlier) /\ IsFiniteSet(Active) /\ IsFiniteSet(Selected)
  BY <1>1, MembersFinite
<1> HIDE DEF Earlier
<1>6. IsFiniteSet(Earlier \cup {last}) /\ Cardinality(Earlier \cup {last}) <= Cardinality(Earlier) + 1
  <2>1. Cardinality(Earlier) \in Nat
    BY <1>5, FS_CardinalityType
  <2>2. /\ IsFiniteSet(Earlier \cup {last})
        /\ Cardinality(Earlier \cup {last}) \in {Cardinality(Earlier), Cardinality(Earlier) + 1}
    BY <1>5, FS_AddElement, Zenon
  <2> QED BY <2>1, <2>2
<1>7. Cardinality(Selected) <= Cardinality(Earlier \cup {last})
  BY <1>4, <1>6, FS_Subset
<1>8. /\ Cardinality(Earlier) \in Nat /\ Cardinality(Active) \in Nat /\ Cardinality(Selected) \in Nat
      /\ Cardinality(Earlier \cup {last}) \in Nat
  BY <1>5, <1>6, FS_CardinalityType
<1> QED BY <1>3, <1>6, <1>7, <1>8, GroupControllerAssumption

\* A step that adds no claim keeps them within the concurrency.
LEMMA FewerClaims ==
    ASSUME ClaimsBounded, Claims' \subseteq Claims
    PROVE  ClaimsBounded'
<1>1. IsFiniteSet(Claims) /\ IsFiniteSet(Claims')
  <2>1. Claims \subseteq Members
    BY DEF Claims, Live
  <2> QED BY <2>1, MembersFinite
<1>2. Cardinality(Claims') <= Cardinality(Claims)
  BY <1>1, FS_Subset
<1>3. Cardinality(Claims) \in Nat /\ Cardinality(Claims') \in Nat
  BY <1>1, FS_CardinalityType
<1> QED BY <1>2, <1>3, GroupControllerAssumption DEF ClaimsBounded

LEMMA StepClaims == GroupTypeOK /\ MembersInv /\ ClaimsBounded /\ [GroupNext]_groupVars => ClaimsBounded'
<1> SUFFICES ASSUME GroupTypeOK, MembersInv, ClaimsBounded, [GroupNext]_groupVars PROVE ClaimsBounded'
  OBVIOUS
<1> USE DEF memberVars, requestVars, daemonVars
<1>1. CASE Dispatch /\ work' = "starting"
  <2>1. Selected # {} /\ startReq' = Sent(Selected) /\ child' = child
    BY <1>1 DEF Dispatch
  <2>2. Live \subseteq Active
    <3> SUFFICES ASSUME NEW m \in Live PROVE m \in Active
      OBVIOUS
    <3>1. Accounted(m) /\ StartInv(m)
      BY DEF MembersInv, Live
    <3>2. startReq[m] = "idle"
      BY <1>1, <3>1 DEF Dispatch, StartInv
    <3> QED BY <3>1, <3>2 DEF Accounted, Live
  <2>3. Claims' \subseteq Selected \cup Active
    BY <2>1, <2>2 DEF Claims, Live, Sent
  <2>4. IsFiniteSet(Selected) /\ IsFiniteSet(Active) /\ IsFiniteSet(Selected \cap Active)
    BY MembersFinite DEF Selected, Startable, Active
  <2>5. /\ IsFiniteSet(Selected \cup Active)
        /\ Cardinality(Selected \cup Active) <= Cardinality(Selected) + Cardinality(Active)
    <3>1. /\ IsFiniteSet(Selected \cup Active)
          /\ Cardinality(Selected \cup Active)
               = Cardinality(Selected) + Cardinality(Active) - Cardinality(Selected \cap Active)
      BY <2>4, FS_Union, Zenon
    <3>2. /\ Cardinality(Selected) \in Nat /\ Cardinality(Active) \in Nat
          /\ Cardinality(Selected \cap Active) \in Nat
      BY <2>4, FS_CardinalityType, Zenon
    <3> QED BY <3>1, <3>2
  <2>6. Cardinality(Claims') <= Cardinality(Selected \cup Active)
    BY <2>3, <2>5, FS_Subset
  <2>7. /\ Cardinality(Claims') \in Nat /\ Cardinality(Selected \cup Active) \in Nat
        /\ Cardinality(Selected) \in Nat /\ Cardinality(Active) \in Nat
    BY <2>3, <2>4, <2>5, FS_Subset, FS_CardinalityType
  <2> QED BY <2>1, <2>5, <2>6, <2>7, SelectedFits, GroupControllerAssumption DEF ClaimsBounded
<1>2. CASE Dispatch /\ work' # "starting"
  BY <1>2, FewerClaims DEF Dispatch, Claims, Live
<1>3. ASSUME NEW m \in Members, DaemonStart(m) PROVE ClaimsBounded'
  <2>1. \A q \in Members : q # m => child'[q] = child[q] /\ startReq'[q] = startReq[q]
    BY <1>3 DEF DaemonStart, GroupTypeOK
  <2>2. m \in Claims
    BY <1>3 DEF DaemonStart, Claims
  <2> QED BY <2>1, <2>2, FewerClaims DEF Claims, Live
<1>4. CASE UNCHANGED startReq /\ \A m \in Members : child'[m] = "running" => child[m] = "running"
  BY <1>4, FewerClaims DEF Claims, Live
<1>5. ASSUME NEW m \in Members, StartReply(m) \/ StartLost(m) PROVE ClaimsBounded'
  <2>1. child' = child /\ \A q \in Members : startReq'[q] = "sent" => startReq[q] = "sent"
    BY <1>5 DEF StartReply, StartLost, ApplyOnly, GroupTypeOK
  <2> QED BY <2>1, FewerClaims DEF Claims, Live
<1>6. ASSUME NEW m \in Members, ChildEnds(m) \/ ChildForgotten(m) PROVE ClaimsBounded'
  <2>1. UNCHANGED startReq /\ \A q \in Members : child'[q] = "running" => child[q] = "running"
    BY <1>6 DEF ChildEnds, ChildForgotten, DaemonOnly, GroupTypeOK, TaskTerminal
  <2> QED BY <1>4, <2>1
<1>7. ASSUME NEW m \in Members,
             \/ StatusReply(m) \/ StatusLost(m) \/ CancelReply(m) \/ CancelLost(m)
             \/ DaemonStatus(m) \/ DaemonCancel(m)
      PROVE ClaimsBounded'
  <2>1. UNCHANGED <<startReq, child>>
    BY <1>7 DEF StatusReply, StatusLost, CancelReply, CancelLost, DaemonStatus, DaemonCancel, ApplyOnly
  <2> QED BY <1>4, <2>1
<1>8. CASE \/ \E E \in SUBSET Members : Start(E)
           \/ BeginCycle \/ EndCycle \/ BeginCancel \/ RequestCancels \/ EndCancel \/ Evict \/ UNCHANGED groupVars
  <2>1. UNCHANGED <<startReq, child>>
    BY <1>8 DEF Start, BeginCycle, EndCycle, BeginCancel, RequestCancels, EndCancel, Evict, groupVars
  <2> QED BY <1>4, <2>1
<1>9. Dispatch => work' \in {"none", "starting"}
  BY DEF Dispatch
<1> QED BY <1>1, <1>2, <1>3, <1>5, <1>6, <1>7, <1>8, <1>9 DEF GroupNext

----------------------------------------------------------------------------
(* Cancellation and completion.                                            *)

LEMMA StepUnissued == Unissued /\ MembersInv /\ [GroupNext]_groupVars => Unissued'
<1> SUFFICES ASSUME Unissued, MembersInv, [GroupNext]_groupVars, batch' = "none" PROVE Unissued'
  BY DEF Unissued
<1> USE DEF memberVars, requestVars, daemonVars
<1>1. batch = "none"
  BY DEF GroupNext, groupVars, Start, BeginCycle, Dispatch, EndCycle, BeginCancel, RequestCancels, EndCancel, Evict,
         StatusReply, StatusLost, StartReply, StartLost, CancelReply, CancelLost, ApplyOnly,
         DaemonStart, DaemonStatus, DaemonCancel, ChildEnds, ChildForgotten, DaemonOnly
<1>2. \A m \in Members : child[m] = "none" /\ startReq[m] = "idle" /\ statusReq[m] = "idle" /\ cancelReq[m] = "idle"
  BY <1>1 DEF Unissued, MembersInv, PollInv
<1>3. work = "none" /\ cancelCall = "none" /\ ~completedAt
  BY <1>1 DEF Unissued
<1>4. ASSUME NEW m \in Members,
             \/ StatusReply(m) \/ StatusLost(m) \/ StartReply(m) \/ StartLost(m)
             \/ CancelReply(m) \/ CancelLost(m)
             \/ DaemonStart(m) \/ DaemonStatus(m) \/ DaemonCancel(m)
             \/ ChildEnds(m) \/ ChildForgotten(m)
      PROVE FALSE
  BY <1>2, <1>4
  DEF StatusReply, StatusLost, StartReply, StartLost, CancelReply, CancelLost, Replies, TaskTerminal,
      DaemonStart, DaemonStatus, DaemonCancel, ChildEnds, ChildForgotten
<1>5. CASE UNCHANGED groupVars
  BY <1>5 DEF groupVars, Unissued
<1>6. CASE \/ \E E \in SUBSET Members : Start(E)
           \/ BeginCycle \/ Dispatch \/ EndCycle \/ BeginCancel \/ RequestCancels \/ EndCancel \/ Evict
  BY <1>1, <1>3, <1>6 DEF Start, BeginCycle, Dispatch, EndCycle, BeginCancel, RequestCancels, EndCancel, Evict
<1> QED BY <1>4, <1>5, <1>6 DEF GroupNext

LEMMA StepComplete ==
    GroupTypeOK /\ Unissued /\ MembersInv /\ CancelInv /\ CompleteInv /\ [GroupNext]_groupVars => CompleteInv'
<1> SUFFICES ASSUME GroupTypeOK, Unissued, MembersInv, CancelInv, CompleteInv, [GroupNext]_groupVars, completedAt'
             PROVE  work' # "starting" /\ \A m \in Members : member'[m] # "queued" /\ child'[m] # "running"
  BY DEF CompleteInv
<1> USE DEF memberVars, requestVars, daemonVars
<1> DEFINE Over == work # "starting" /\ \A m \in Members : member[m] # "queued" /\ child[m] # "running"
<1>0. completedAt => Over
  BY DEF CompleteInv
\* When every member is terminal and no start is under way, nothing runs.
<1>a. ASSUME AllTerminal, \A m \in Members : startReq[m] = "idle"
      PROVE  \A m \in Members : member[m] # "queued" /\ child[m] # "running"
  BY <1>a DEF AllTerminal, MembersInv, Accounted, Active, TERMINAL, TaskTerminal
<1>b. work # "starting" => \A m \in Members : startReq[m] = "idle"
  BY DEF MembersInv, StartInv
<1>1. ASSUME NEW E \in SUBSET Members, Start(E)
      PROVE  work' # "starting" /\ \A m \in Members : member'[m] # "queued" /\ child'[m] # "running"
  BY <1>1 DEF Start, Unissued
<1>2. CASE BeginCycle \/ BeginCancel \/ RequestCancels
  BY <1>0, <1>2 DEF BeginCycle, BeginCancel, RequestCancels
<1>3. CASE Dispatch
  <2>1. \A m \in Members : startReq[m] = "idle"
    BY <1>b, <1>3 DEF Dispatch
  <2>2. CASE work' = "none"
    <3>1. completedAt \/ AllTerminal
      BY <1>3, <2>2 DEF Dispatch, Snapshot, AllTerminal
    <3> QED BY <1>0, <1>a, <1>3, <2>1, <2>2, <3>1 DEF Dispatch
  <2>3. CASE work' = "starting"
    <3>1. completedAt /\ Selected # {}
      BY <1>3, <2>3 DEF Dispatch
    <3> QED BY <1>0, <3>1 DEF Selected, Startable
  <2> QED BY <1>3, <2>2, <2>3 DEF Dispatch
<1>4. CASE EndCycle
  <2>1. (completedAt \/ AllTerminal) /\ \A m \in Members : startReq[m] = "idle"
    BY <1>4 DEF EndCycle, Snapshot, AllTerminal, AllIdle
  <2> QED BY <1>0, <1>a, <1>4, <2>1 DEF EndCycle
<1>5. CASE EndCancel
  <2>1. work # "starting"
    BY <1>5 DEF EndCancel, CancelInv
  <2>2. completedAt \/ AllTerminal
    BY <1>5 DEF EndCancel, Snapshot, AllTerminal
  <2> QED BY <1>0, <1>a, <1>b, <1>5, <2>1, <2>2 DEF EndCancel
<1>6. ASSUME NEW m \in Members, StatusReply(m) \/ StatusLost(m) \/ CancelReply(m) \/ CancelLost(m)
      PROVE  work' # "starting" /\ \A q \in Members : member'[q] # "queued" /\ child'[q] # "running"
  <2>1. UNCHANGED <<work, completedAt, child>> /\ \A q \in Members : member'[q] = member[q] \/ member'[q] # "queued"
    BY <1>6 DEF StatusReply, StatusLost, CancelReply, CancelLost, ApplyOnly, GroupTypeOK, Replies, TaskTerminal
  <2> QED BY <1>0, <2>1
<1>7. ASSUME NEW m \in Members, StartReply(m) \/ StartLost(m) \/ DaemonStart(m) PROVE FALSE
  <2>1. completedAt /\ startReq[m] # "idle"
    BY <1>7 DEF StartReply, StartLost, DaemonStart, ApplyOnly, DaemonOnly, Replies, TaskTerminal
  <2> QED BY <1>0, <1>b, <2>1
<1>8. ASSUME NEW m \in Members, DaemonStatus(m) \/ DaemonCancel(m) \/ ChildEnds(m) \/ ChildForgotten(m)
      PROVE  work' # "starting" /\ \A q \in Members : member'[q] # "queued" /\ child'[q] # "running"
  <2>1. /\ UNCHANGED <<work, completedAt, member>>
        /\ \A q \in Members : child'[q] = child[q] \/ child'[q] # "running"
    BY <1>8 DEF DaemonStatus, DaemonCancel, ChildEnds, ChildForgotten, DaemonOnly, GroupTypeOK, TaskTerminal
  <2> QED BY <1>0, <2>1
<1>9. CASE Evict \/ UNCHANGED groupVars
  BY <1>0, <1>9 DEF Evict, groupVars
<1> QED
  BY <1>1, <1>2, <1>3, <1>4, <1>5, <1>6, <1>7, <1>8, <1>9 DEF GroupNext

\* What a cancel owes to the children that run.
Asked(m) == m \in stopAsked \cup missed \/ cancelReq[m] = "sent"

LEMMA StepCancel == GroupTypeOK /\ MembersInv /\ CancelInv /\ [GroupNext]_groupVars => CancelInv'
<1> SUFFICES ASSUME GroupTypeOK, MembersInv, CancelInv, [GroupNext]_groupVars PROVE CancelInv'
  OBVIOUS
<1> USE DEF memberVars, requestVars, daemonVars
\* Nobody gets a task or a reply to a start while none is under way.
<1>0. cancelling /\ cancelCall # "waiting" => \A m \in Members : startReq[m] = "idle"
  BY DEF CancelInv, MembersInv, StartInv, GroupTypeOK
<1>1. ASSUME UNCHANGED <<cancelling, cancels, cancelCall>>, work' # "starting" \/ work' = work \/ ~cancelling,
             \A m \in Members : cancelReq'[m] = cancelReq[m] \/ cancelReq'[m] = "idle" \/ cancelReq[m] # "idle",
             cancelling /\ cancelCall # "waiting" =>
               \A m \in hasRun' : child'[m] = "running" => m \in hasRun /\ child[m] = "running" /\ (Asked(m) => Asked(m)')
      PROVE  CancelInv'
  BY <1>1 DEF CancelInv, AllIdle, Asked
<1>2. ASSUME UNCHANGED <<cancelling, cancels, cancelCall, hasRun, child, stopAsked, missed, cancelReq>>,
             work' # "starting" \/ work' = work \/ ~cancelling
      PROVE  CancelInv'
  BY <1>1, <1>2 DEF Asked
<1>3. CASE \/ \E E \in SUBSET Members : Start(E)
           \/ BeginCycle \/ Dispatch \/ EndCycle \/ Evict \/ UNCHANGED groupVars
  <2>1. UNCHANGED <<cancelling, cancels, cancelCall, hasRun, child, stopAsked, missed, cancelReq>>
    BY <1>3 DEF Start, BeginCycle, Dispatch, EndCycle, Evict, groupVars
  <2>2. work' # "starting" \/ work' = work \/ ~cancelling
    BY <1>3 DEF Start, BeginCycle, Dispatch, EndCycle, Evict, groupVars
  <2> QED BY <1>2, <2>1, <2>2
<1>4. CASE BeginCancel
  <2>1. cancels' > 0
    BY <1>4 DEF BeginCancel, GroupTypeOK
  <2> QED BY <1>4, <2>1 DEF BeginCancel, CancelInv
<1>5. CASE RequestCancels
  <2>1. cancelling /\ \A m \in Members : startReq[m] = "idle"
    BY <1>5 DEF RequestCancels, MayRequestCancels, CancelInv, MembersInv, StartInv
  <2>2. \A m \in hasRun : child[m] = "running" => m \in Pollable
    BY <2>1 DEF MembersInv, Accounted, Active, Pollable, GroupTypeOK
  <2>3. \A m \in hasRun' : child'[m] = "running" => cancelReq'[m] = "sent"
    BY <1>5, <2>2 DEF RequestCancels, Sent, GroupTypeOK
  <2>4. work' = "none" /\ cancelCall' = "requesting" /\ UNCHANGED <<cancelling, cancels>>
    BY <1>5 DEF RequestCancels, MayRequestCancels
  <2> QED BY <2>1, <2>3, <2>4 DEF CancelInv
<1>6. CASE EndCancel
  <2>1. work # "starting" /\ cancelling
    BY <1>6 DEF EndCancel, CancelInv
  <2> QED BY <1>6, <2>1 DEF EndCancel, CancelInv
<1>7. ASSUME NEW m \in Members, StatusReply(m) \/ StatusLost(m) \/ DaemonStatus(m) PROVE CancelInv'
  BY <1>2, <1>7 DEF StatusReply, StatusLost, DaemonStatus, ApplyOnly, DaemonOnly
<1>8. ASSUME NEW m \in Members, StartReply(m) \/ StartLost(m) \/ DaemonStart(m) PROVE CancelInv'
  <2>1. startReq[m] # "idle"
    BY <1>8 DEF StartReply, StartLost, DaemonStart, Replies, TaskTerminal
  <2>2. ~(cancelling /\ cancelCall # "waiting")
    BY <1>0, <2>1
  <2>3. UNCHANGED <<cancelling, cancels, cancelCall, work, cancelReq>>
    BY <1>8 DEF StartReply, StartLost, DaemonStart, ApplyOnly, DaemonOnly
  <2> QED BY <1>1, <2>2, <2>3
<1>9. ASSUME NEW m \in Members, CancelReply(m) PROVE CancelInv'
  <2>1. UNCHANGED <<cancelling, cancels, cancelCall, work, hasRun, child, stopAsked, missed>>
    BY <1>9 DEF CancelReply, ApplyOnly
  <2>2. cancelReq[m] # "sent" /\ \A q \in Members : q # m => cancelReq'[q] = cancelReq[q]
    BY <1>9 DEF CancelReply, Replies, TaskTerminal, GroupTypeOK
  <2>3. cancelReq[m] # "idle" /\ hasRun \in SUBSET Members
    BY <1>9 DEF CancelReply, Replies, TaskTerminal, GroupTypeOK
  <2> QED BY <1>1, <2>1, <2>2, <2>3 DEF Asked
<1>10. ASSUME NEW m \in Members, CancelLost(m) PROVE CancelInv'
  <2>1. UNCHANGED <<cancelling, cancels, cancelCall, work, hasRun, child, stopAsked>> /\ missed' = missed \cup {m}
    BY <1>10 DEF CancelLost, ApplyOnly
  <2>2. cancelReq[m] # "idle" /\ \A q \in Members : q # m => cancelReq'[q] = cancelReq[q]
    BY <1>10 DEF CancelLost, GroupTypeOK
  <2>3. hasRun \in SUBSET Members
    BY DEF GroupTypeOK
  <2> QED BY <1>1, <2>1, <2>2, <2>3 DEF Asked
<1>11. ASSUME NEW m \in Members, DaemonCancel(m) PROVE CancelInv'
  <2>1. /\ UNCHANGED <<cancelling, cancels, cancelCall, work, hasRun, child, missed>>
        /\ stopAsked' = IF child[m] = "running" THEN stopAsked \cup {m} ELSE stopAsked
    BY <1>11 DEF DaemonCancel, DaemonOnly
  <2>2. cancelReq[m] # "idle" /\ \A q \in Members : q # m => cancelReq'[q] = cancelReq[q]
    BY <1>11 DEF DaemonCancel, GroupTypeOK
  <2>3. hasRun \in SUBSET Members
    BY DEF GroupTypeOK
  <2> QED BY <1>1, <2>1, <2>2, <2>3 DEF Asked
<1>12. ASSUME NEW m \in Members, ChildEnds(m) \/ ChildForgotten(m) PROVE CancelInv'
  <2>1. UNCHANGED <<cancelling, cancels, cancelCall, work, hasRun, stopAsked, missed, cancelReq>>
    BY <1>12 DEF ChildEnds, ChildForgotten, DaemonOnly
  <2>2. \A q \in Members : child'[q] = child[q] \/ child'[q] # "running"
    BY <1>12 DEF ChildEnds, ChildForgotten, GroupTypeOK, TaskTerminal
  <2>3. hasRun \in SUBSET Members
    BY DEF GroupTypeOK
  <2> QED BY <1>1, <2>1, <2>2, <2>3 DEF Asked
<1> QED
  BY <1>3, <1>4, <1>5, <1>6, <1>7, <1>8, <1>9, <1>10, <1>11, <1>12 DEF GroupNext

----------------------------------------------------------------------------
(* The theorems.                                                           *)

LEMMA InitInvariant == GroupInit => IInv
<1> SUFFICES ASSUME GroupInit PROVE IInv
  OBVIOUS
<1>1. GroupTypeOK
  <2>1. 0 \in 0..MaxFailures /\ 0 \in 0..MaxCancels
    BY GroupControllerAssumption
  <2>2. /\ member \in [Members -> MemberStates] /\ child \in [Members -> {"none"}] /\ starts \in [Members -> Nat]
        /\ statusReq \in [Members -> Requests] /\ startReq \in [Members -> Requests]
        /\ cancelReq \in [Members -> Requests]
    BY DEF GroupInit, MemberStates, TERMINAL, Requests
  <2>3. child \in [Members -> {"none", "running", "forgotten"} \cup TaskTerminal]
    BY <2>2
  <2> QED BY <2>1, <2>2, <2>3 DEF GroupInit, GroupTypeOK
<1>2. MembersInv
  BY DEF GroupInit, MembersInv, StartInv, PollInv, Accounted, TaskTerminal
<1>3. ClaimsBounded
  <2>1. Claims = {}
    BY DEF GroupInit, Claims, Live
  <2> QED BY <2>1, FS_EmptySet, GroupControllerAssumption DEF ClaimsBounded
<1>4. Unissued
  BY DEF GroupInit, Unissued
<1>5. CancelInv
  BY DEF GroupInit, CancelInv, AllIdle
<1>6. CompleteInv
  BY DEF GroupInit, CompleteInv
<1> QED BY <1>1, <1>2, <1>3, <1>4, <1>5, <1>6 DEF IInv

LEMMA Invariance == GroupSpec => []IInv
<1>1. IInv /\ [GroupNext]_groupVars => IInv'
  BY StepTypes, StepUnissued, StepMembers, StepClaims, StepCancel, StepComplete DEF IInv
<1> QED BY InitInvariant, <1>1, PTL DEF GroupSpec

\* However replies are lost and refreshes overlap, a machine gets the group's command at most
\* once and no more than concurrency tasks of the group run at the daemon (#cycle, #startMember).
THEOREM StartsAreBounded == GroupSpec => []StartsBounded
<1>1. IInv => StartsBounded
  <2> SUFFICES ASSUME IInv PROVE StartsBounded
    OBVIOUS
  <2>1. StartedAtMostOnce
    BY DEF IInv, MembersInv, StartInv, StartedAtMostOnce
  <2>2. Cardinality(Live) <= Cardinality(Claims) /\ Cardinality(Live) \in Nat /\ Cardinality(Claims) \in Nat
    <3>1. Live \subseteq Claims /\ Claims \in SUBSET Members
      BY DEF Claims, Live
    <3> QED BY <3>1, MembersFinite, FS_Subset, FS_CardinalityType
  <2>3. Cardinality(Live) <= Concurrency
    BY <2>2, GroupControllerAssumption DEF IInv, ClaimsBounded
  <2> QED BY <2>1, <2>3 DEF IInv, StartsBounded, ConcurrencyBound, Live
<1> QED BY <1>1, Invariance, PTL

\* A group reported complete has nothing running, and once a cancel has answered every task of
\* the group that still runs was asked to stop, unless its answer was lost (#snapshot, cancel).
THEOREM GroupReportsTrue == GroupSpec => []ReportsAreTrue
<1>1. IInv => ReportsAreTrue
  BY DEF IInv, CompleteInv, CancelInv, AllIdle, ReportsAreTrue, CompleteIsTrue, CancelReachesAll, GroupTypeOK
<1> QED BY <1>1, Invariance, PTL
=============================================================================
