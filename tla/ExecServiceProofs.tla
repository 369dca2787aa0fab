------------------------- MODULE ExecServiceProofs -------------------------
(***************************************************************************)
(* Proofs about ExecService for any number of requests, sessions, slots    *)
(* and generations.                                                        *)
(*                                                                         *)
(* The inductive invariant has five parts.  Table: the entries of the      *)
(* table and the executions under way are in one-to-one correspondence.    *)
(* Slots: the counter counts the entries.  Output: what may still happen   *)
(* to a sink in each phase.  Trail: which records precede each phase.      *)
(* Runners: who is under way uses the current generation.                  *)
(***************************************************************************)
EXTENDS ExecService, FiniteSetTheorems, TLAPS

Occupied == {k \in Keys : table[k] # NoExec}

\* Who uses a runner, or is about to.
Live(e) == pc[e] \in Filed \cup {"queued", "transferring"}

\* What a request is and the key it is filed under, by phase.
KindInv ==
    \A e \in Exec :
        /\ pc[e] = "new" \/ kind[e] = "task" => key[e] = <<"task", e>>
        /\ pc[e] = "queued" => kind[e] = "task"
        /\ pc[e] = "transferring" => kind[e] = "transfer"
        /\ pc[e] = "probing" => kind[e] = "probe"
        /\ pc[e] \in Filed => kind[e] # "transfer"
        /\ pc[e] = "creating" => kind[e] # "probe"

\* Every execution under way is filed under its key and nothing else is filed.
TableInv ==
    /\ \A e \in Exec : pc[e] \in Filed => table[key[e]] = e
    /\ \A k \in Keys : table[k] # NoExec => key[table[k]] = k /\ pc[table[k]] \in Filed

SlotsInv ==
    /\ IsFiniteSet(Occupied)
    /\ activeCount = Cardinality(Occupied)
    /\ activeCount <= MaxActive

\* An open sink belongs to a run that has not come to its disposition yet.
OutputInv ==
    \A e \in Exec :
        /\ pc[e] \in {"new", "queued", "transferring", "creating"} => sink[e] = "none"
        /\ pc[e] \in {"starting", "running"} => sink[e] \in {"none", "open"}
        /\ sink[e] = "open" => pc[e] \in {"starting", "running", "finalizing"} /\ kind[e] # "probe"
        /\ pc[e] = "finalizing" => Publishes(termination[e])
        /\ sink[e] = "published" => Publishes(termination[e])

\* The records that precede each phase.
TrailInv ==
    \A e \in Exec :
        /\ audit[e] # {} => "started" \in audit[e]
        /\ pc[e] \in {"running", "finalizing", "cancelling", "completing", "probing"} => "started" \in audit[e]
        /\ pc[e] = "probing" => "completed" \in audit[e]
        /\ pc[e] = "completing" /\ kind[e] # "probe" /\ termination[e] \in StopReasons =>
             "cancelled" \in audit[e]
        /\ answer[e] # "none" => pc[e] = "answered"

\* Only an execution that is filed can be stopped, and an aborted one has been.
StopInv ==
    /\ NoLostAbort
    /\ \A e \in Exec :
         /\ pc[e] \in {"new", "queued", "transferring"} => e \notin accepting
         /\ pc[e] \in {"new"} => e \notin aborted

\* Everybody under way uses the current generation, which is disposed of only after
\* the service has drained.
RunnersInv ==
    /\ \A e \in Exec : Live(e) => executor[e] = generation
    /\ \A d \in disposed : d <= generation
    /\ lease = "committed" => generation > 0
    /\ generation \in disposed => Drained
    /\ ~Listening => lease = "none"
    /\ Closing => \A e \in Exec : Live(e) => pc[e] \in Filed /\ e \in awaited

IInv == /\ TypeOK /\ KindInv /\ TableInv /\ SlotsInv
        /\ OutputInv /\ TrailInv /\ ResultIsAudited /\ StopInv /\ RunnersInv

----------------------------------------------------------------------------
(* Types.                                                                  *)

\* The keys of the table: those of requests and those of tasks.
LEMMA KeysOfAll ==
    /\ \A e \in Exec : <<"task", e>> \in Keys
    /\ \A k \in Sessions \X RequestIds : k \in Keys
BY DEF Keys

\* No slot is given back that is not taken.
LEMMA CountPositive ==
    ASSUME TypeOK, SlotsInv, NEW k \in Keys, table[k] # NoExec
    PROVE  activeCount - 1 \in Nat
<1>1. k \in Occupied
  BY DEF Occupied
<1>2. Cardinality(Occupied) # 0
  BY <1>1, FS_EmptySet DEF SlotsInv
<1> QED BY <1>2 DEF SlotsInv, TypeOK

LEMMA InitTypes == Init => TypeOK
<1> SUFFICES ASSUME Init PROVE TypeOK
  OBVIOUS
<1>1. key \in [Exec -> Keys]
  BY KeysOfAll DEF Init
<1>2. table \in [Keys -> Exec \cup {NoExec}]
  BY DEF Init
<1> QED BY <1>1, <1>2 DEF Init, TypeOK, Phases, Filed, Stages, StopReasons, Terminations

\* Settling an execution keeps the types.
LEMMA SettleTypes ==
    ASSUME TypeOK, SlotsInv, NEW e \in Exec, NEW how \in {"resolved", "rejected"}, Settle(e, how)
    PROVE  /\ pc' \in [Exec -> Phases] /\ answer' \in [Exec -> {"none", "resolved", "rejected"}]
           /\ table' \in [Keys -> Exec \cup {NoExec}] /\ activeCount' \in Nat /\ awaited' \in SUBSET Exec
           /\ UNCHANGED <<kind, key, executor, reason, aborted, daemonVars>>
<1>1. key[e] \in Keys
  BY DEF TypeOK
<1>2. table' \in [Keys -> Exec \cup {NoExec}]
  BY <1>1 DEF TypeOK, Settle
<1>3. activeCount' \in Nat
  BY <1>1, CountPositive DEF TypeOK, Settle
<1>4. /\ pc' \in [Exec -> Phases] /\ answer' \in [Exec -> {"none", "resolved", "rejected"}]
  BY DEF Settle, TypeOK, Phases
<1> QED BY <1>2, <1>3, <1>4 DEF TypeOK, Settle

\* Stopping executions changes nothing but their reasons.
LEMMA StopTypes ==
    ASSUME TypeOK, NEW S, NEW why \in StopReasons, StopOnly(S, why)
    PROVE  reason' \in [Exec -> StopReasons \cup {"none"}]
BY DEF TypeOK, StopOnly, StoppedFor

LEMMA StepTypes == TypeOK /\ SlotsInv /\ RunnersInv /\ [Next]_vars => TypeOK'
<1> SUFFICES ASSUME TypeOK, SlotsInv, RunnersInv, [Next]_vars PROVE TypeOK'
  OBVIOUS
<1> USE DEF requestVars, outcomeVars, tableVars, daemonVars
<1>1. ASSUME NEW e \in Exec, NEW kd \in {"command", "probe"}, NEW k \in Sessions \X RequestIds,
             Request(e, kd, k)
      PROVE TypeOK'
  <2>1. k \in Keys
    BY KeysOfAll
  <2>2. CASE Available /\ Admitted(k)
    BY <1>1, <2>1, <2>2 DEF Request, File, FirstPhase, TypeOK, Phases, Filed
  <2>3. CASE ~(Available /\ Admitted(k))
    BY <1>1, <2>1, <2>3 DEF Request, Refuse, TypeOK, Phases
  <2> QED BY <2>2, <2>3
<1>2. ASSUME NEW e \in Exec, StartTask(e) PROVE TypeOK'
  BY <1>2 DEF StartTask, Refuse, TypeOK, Phases
<1>3. ASSUME NEW e \in Exec, StartTransfer(e) PROVE TypeOK'
  BY <1>3 DEF StartTransfer, Refuse, TypeOK, Phases
<1>4. ASSUME NEW e \in Exec, RunWorker(e) PROVE TypeOK'
  <2>1. key[e] \in Keys
    BY DEF TypeOK
  <2>2. CASE Admitted(key[e])
    BY <1>4, <2>1, <2>2 DEF RunWorker, File, ReasonAtStart, TypeOK, Phases, Filed, StopReasons
  <2>3. CASE ~Admitted(key[e])
    BY <1>4, <2>3 DEF RunWorker, Refuse, TypeOK, Phases
  <2> QED BY <2>2, <2>3
<1>5. ASSUME NEW e \in Exec, Created(e) \/ Started(e) \/ Finalized(e) \/ CancelAudited(e) PROVE TypeOK'
  <2>1. audit' \in [Exec -> SUBSET {"started", "cancelled", "completed", "probed"}]
    BY <1>5 DEF Created, Started, Finalized, CancelAudited, TypeOK
  <2>2. sink' \in [Exec -> {"none", "open", "published", "discarded"}]
    BY <1>5 DEF Created, Started, Finalized, CancelAudited, TypeOK
  <2>3. PICK phase \in Phases : Move(e, phase) /\ UNCHANGED <<accepting, reason, termination>>
    BY <1>5 DEF Created, Started, Finalized, CancelAudited, Phases, Filed
  <2> QED BY <2>1, <2>2, <2>3 DEF Move, TypeOK
<1>6. ASSUME NEW e \in Exec, StartFails(e) \/ RunFails(e) \/ EndFails(e) PROVE TypeOK'
  <2>1. Throw(e) /\ UNCHANGED <<termination, audit>> /\ accepting' \in SUBSET Exec
    BY <1>6 DEF StartFails, RunFails, EndFails, TypeOK
  <2>2. Settle(e, "rejected")
    BY <2>1 DEF Throw
  <2>3. sink' \in [Exec -> {"none", "open", "published", "discarded"}]
    BY <2>1 DEF Throw, SinkAfterError, TypeOK
  <2> QED BY <2>1, <2>2, <2>3, SettleTypes DEF TypeOK
<1>7. ASSUME NEW e \in Exec, CompleteAudited(e) PROVE TypeOK'
  <2>1. audit' \in [Exec -> SUBSET {"started", "cancelled", "completed", "probed"}]
    BY <1>7 DEF CompleteAudited, CompletedAudit, TypeOK
  <2> QED BY <1>7, <2>1, SettleTypes DEF CompleteAudited, TypeOK
<1>8. ASSUME NEW e \in Exec, NEW raw \in {"exit", "aborted", "overflow", "spawn_error"}, RunEnds(e, raw)
      PROVE TypeOK'
  <2>1. TerminationOf(e, raw) \in Terminations
    BY DEF TerminationOf, TypeOK, Terminations, StopReasons
  <2>2. AfterRun(e, TerminationOf(e, raw)) \in Phases
    BY DEF AfterRun, Phases, Filed
  <2> QED BY <1>8, <2>1, <2>2 DEF RunEnds, Move, TypeOK, StopReasons
<1>9. ASSUME NEW e \in Exec, NEW how \in {"resolved", "rejected"}, ProbeEnds(e, how) \/ TransferEnds(e, how)
      PROVE TypeOK'
  <2>1. audit' \in [Exec -> SUBSET {"started", "cancelled", "completed", "probed"}]
    BY <1>9 DEF ProbeEnds, TransferEnds, TypeOK
  <2>2. pc' \in [Exec -> Phases] /\ answer' \in [Exec -> {"none", "resolved", "rejected"}]
    BY <1>9 DEF ProbeEnds, TransferEnds, TypeOK, Phases
  <2>3. UNCHANGED <<kind, key, executor, accepting, reason, termination, sink, tableVars, aborted, daemonVars, awaited>>
    BY <1>9 DEF ProbeEnds, TransferEnds
  <2> QED BY <2>1, <2>2, <2>3 DEF TypeOK
<1>10. ASSUME NEW S, NEW why \in StopReasons, StopOnly(S, why), UNCHANGED daemonVars, UNCHANGED awaited,
              aborted' \in SUBSET Exec
       PROVE TypeOK'
  BY <1>10, StopTypes DEF StopOnly, TypeOK
<1>11. ASSUME NEW e \in Exec, Timeout(e) \/ CancelTask(e) PROVE TypeOK'
  BY <1>10, <1>11 DEF Timeout, CancelTask, TypeOK, StopReasons
<1>12. ASSUME NEW k, Cancel(k) PROVE TypeOK'
  BY <1>10, <1>12 DEF Cancel, TypeOK, StopReasons
<1>13. ASSUME NEW s, Disconnect(s) PROVE TypeOK'
  BY <1>10, <1>13 DEF Disconnect, TypeOK, StopReasons
<1>14. CASE BeginReload \/ Commit \/ Release \/ Stop \/ DisposeActive
  <2>1. lease = "committed" => generation - 1 \in Nat
    BY DEF TypeOK, RunnersInv
  <2>2. disposed' \in SUBSET Nat
    BY <1>14, <2>1 DEF BeginReload, Commit, Release, Stop, DisposeActive, TypeOK
  <2>3. generation' \in Nat /\ lease' \in {"none", "held", "committed"} /\ stage' \in Stages
    BY <1>14 DEF BeginReload, Commit, Release, Stop, DisposeActive, TypeOK, Stages
  <2>4. ReloadOnly
    BY <1>14 DEF BeginReload, Commit, Release, Stop, DisposeActive
  <2> QED BY <2>2, <2>3, <2>4 DEF ReloadOnly, TypeOK
<1>15. CASE CloseServer \/ ShutdownTasks \/ Shutdown
  <2>1. PICK S : StopOnly(S, "cancel")
    BY <1>15 DEF CloseServer, ShutdownTasks, Shutdown
  <2>2. reason' \in [Exec -> StopReasons \cup {"none"}]
    BY <2>1, StopTypes DEF StopReasons
  <2>3. awaited' \in SUBSET Exec /\ aborted' \in SUBSET Exec
    BY <1>15 DEF CloseServer, ShutdownTasks, Shutdown, AllTasksAborted, RunningTasks, FiledUnder, TypeOK
  <2> QED BY <1>15, <2>1, <2>2, <2>3 DEF CloseServer, ShutdownTasks, Shutdown, StopOnly, TypeOK, Stages
<1>16. CASE UNCHANGED vars
  BY <1>16 DEF vars, TypeOK
<1> QED
  BY <1>1, <1>2, <1>3, <1>4, <1>5, <1>6, <1>7, <1>8, <1>9, <1>11, <1>12, <1>13, <1>14, <1>15, <1>16
  DEF Next, Steps

----------------------------------------------------------------------------
(* The table and its counter.                                              *)

\* A step that files nobody and settles nobody leaves the table exact.
LEMMA QuietTable ==
    ASSUME TableInv, SlotsInv, UNCHANGED tableVars,
           \A e \in Exec : pc'[e] \in Filed <=> pc[e] \in Filed,
           \A e \in Exec : pc[e] \in Filed => key'[e] = key[e],
           TypeOK, table \in [Keys -> Exec \cup {NoExec}]
    PROVE  TableInv' /\ SlotsInv'
<1>1. TableInv'
  BY DEF TableInv, tableVars
<1>2. Occupied' = Occupied
  BY DEF Occupied, tableVars
<1> QED BY <1>1, <1>2 DEF SlotsInv, tableVars

\* Filing e takes one free key and one slot (#startExecution, #runFixedExecution).
LEMMA FileTable ==
    ASSUME TypeOK, TableInv, SlotsInv, NEW e \in Exec, NEW k \in Keys, NEW phase \in Filed, NEW why,
           File(e, k, phase, why), Admitted(k), pc[e] \notin Filed,
           key' = [key EXCEPT ![e] = k]
    PROVE  TableInv' /\ SlotsInv'
<1> USE ExecServiceAssumption
<1>1. /\ table' = [table EXCEPT ![k] = e] /\ pc' = [pc EXCEPT ![e] = phase]
      /\ activeCount' = activeCount + 1
  BY DEF File
<1>2. table[k] = NoExec /\ activeCount < MaxActive
  BY DEF Admitted
<1>3. ASSUME NEW f \in Exec, pc'[f] \in Filed PROVE table'[key'[f]] = f
  <2>1. CASE f = e
    BY <1>1, <2>1 DEF TypeOK
  <2>2. CASE f # e
    <3>1. pc[f] \in Filed /\ key'[f] = key[f] /\ key[f] \in Keys
      BY <1>1, <1>3, <2>2 DEF TypeOK
    <3>2. table[key[f]] = f
      BY <3>1 DEF TableInv
    <3>3. key[f] # k
      BY <1>2, <3>2
    <3> QED BY <1>1, <3>1, <3>2, <3>3 DEF TypeOK
  <2> QED BY <2>1, <2>2
<1>4. ASSUME NEW l \in Keys, table'[l] # NoExec PROVE key'[table'[l]] = l /\ pc'[table'[l]] \in Filed
  <2>1. CASE l = k
    BY <1>1, <2>1 DEF TypeOK
  <2>2. CASE l # k
    <3>1. table'[l] = table[l] /\ table[l] \in Exec
      BY <1>1, <1>4, <2>2 DEF TypeOK
    <3>2. key[table[l]] = l /\ pc[table[l]] \in Filed
      BY <1>4, <3>1 DEF TableInv
    <3>3. table[l] # e
      BY <3>2
    <3> QED BY <1>1, <3>1, <3>2, <3>3 DEF TypeOK
  <2> QED BY <2>1, <2>2
<1>5. Occupied' = Occupied \cup {k} /\ k \notin Occupied
  BY <1>1, <1>2 DEF Occupied, TypeOK
<1>6. IsFiniteSet(Occupied') /\ Cardinality(Occupied') = Cardinality(Occupied) + 1
  BY <1>5, FS_AddElement DEF SlotsInv
<1>7. SlotsInv'
  BY <1>1, <1>2, <1>6 DEF SlotsInv, TypeOK
<1> QED BY <1>3, <1>4, <1>7 DEF TableInv

\* Settling e frees its own key and one slot, once (#removeExecution).
LEMMA SettleTable ==
    ASSUME TypeOK, TableInv, SlotsInv, NEW e \in Exec, NEW how, Settle(e, how), pc[e] \in Filed
    PROVE  TableInv' /\ SlotsInv'
<1> USE ExecServiceAssumption
<1>1. key[e] \in Keys /\ table[key[e]] = e /\ table[key[e]] # NoExec
  BY DEF TypeOK, TableInv
<1>2. /\ table' = [table EXCEPT ![key[e]] = NoExec] /\ activeCount' = activeCount - 1 /\ key' = key
      /\ pc'[e] \notin Filed /\ \A f \in Exec : f # e => pc'[f] = pc[f]
  BY <1>1 DEF Settle, TypeOK, Filed
<1>3. ASSUME NEW f \in Exec, pc'[f] \in Filed PROVE table'[key'[f]] = f
  <2>1. f # e /\ pc[f] \in Filed /\ key[f] \in Keys
    BY <1>2, <1>3 DEF TypeOK
  <2>2. table[key[f]] = f
    BY <2>1 DEF TableInv
  <2> QED BY <1>1, <1>2, <2>1, <2>2 DEF TypeOK
<1>4. ASSUME NEW l \in Keys, table'[l] # NoExec PROVE key'[table'[l]] = l /\ pc'[table'[l]] \in Filed
  <2>1. l # key[e] /\ table'[l] = table[l] /\ table[l] \in Exec
    BY <1>1, <1>2, <1>4 DEF TypeOK
  <2>2. key[table[l]] = l /\ pc[table[l]] \in Filed
    BY <1>4, <2>1 DEF TableInv
  <2> QED BY <1>2, <2>1, <2>2
<1>5. Occupied' = Occupied \ {key[e]} /\ key[e] \in Occupied
  BY <1>1, <1>2 DEF Occupied, TypeOK
<1>6. IsFiniteSet(Occupied') /\ Cardinality(Occupied') = Cardinality(Occupied) - 1
  BY <1>5, FS_RemoveElement DEF SlotsInv
<1>7. SlotsInv'
  BY <1>2, <1>6 DEF SlotsInv, TypeOK
<1> QED BY <1>3, <1>4, <1>7 DEF TableInv
----------------------------------------------------------------------------
(* The steps of the service, by what they do to an execution.              *)

Raws == {"exit", "aborted", "overflow", "spawn_error"}
Hows == {"resolved", "rejected"}

\* Stops, reloads and the shutdown move no execution: they only ask some to stop.
Calm == UNCHANGED <<requestVars, accepting, termination, sink, audit, answer, tableVars>>

Advances(e) == Created(e) \/ Started(e) \/ Finalized(e) \/ CancelAudited(e) \/ \E raw \in Raws : RunEnds(e, raw)
Fails(e) == StartFails(e) \/ RunFails(e) \/ EndFails(e)
EndsOutside(e) == \E how \in Hows : ProbeEnds(e, how) \/ TransferEnds(e, how)

LEMMA StepCases ==
    ASSUME [Next]_vars
    PROVE  \/ \E e \in Exec :
                \/ \E kd \in {"command", "probe"}, k \in Sessions \X RequestIds : Request(e, kd, k)
                \/ StartTask(e) \/ StartTransfer(e) \/ RunWorker(e)
                \/ Advances(e) \/ Fails(e) \/ CompleteAudited(e) \/ EndsOutside(e)
           \/ Calm
<1> USE DEF requestVars, outcomeVars, tableVars, daemonVars
<1>1. ASSUME NEW e \in Exec, Timeout(e) \/ CancelTask(e) PROVE Calm
  BY <1>1 DEF Timeout, CancelTask, StopOnly, Calm
<1>2. ASSUME NEW k, Cancel(k) \/ Disconnect(k) PROVE Calm
  BY <1>2 DEF Cancel, Disconnect, StopOnly, Calm
<1>3. CASE BeginReload \/ Commit \/ Release \/ Stop \/ DisposeActive
  BY <1>3 DEF BeginReload, Commit, Release, Stop, DisposeActive, ReloadOnly, Calm
<1>4. CASE CloseServer \/ ShutdownTasks \/ Shutdown
  BY <1>4 DEF CloseServer, ShutdownTasks, Shutdown, StopOnly, Calm
<1>5. CASE UNCHANGED vars
  BY <1>5 DEF vars, Calm
<1> QED BY <1>1, <1>2, <1>3, <1>4, <1>5 DEF Next, Steps, Advances, Fails, EndsOutside, Raws, Hows

\* A failing step settles its execution and discards an open sink.
LEMMA FailEffect ==
    ASSUME NEW e \in Exec, Fails(e)
    PROVE  /\ Throw(e) /\ Settle(e, "rejected") /\ pc[e] \in Filed
           /\ UNCHANGED <<termination, audit>>
           /\ accepting' \subseteq accepting
           /\ pc[e] \in {"starting", "running", "finalizing"} \cup {"creating", "cancelling", "completing"}
BY DEF Fails, StartFails, RunFails, EndFails, Throw, Filed

\* An advancing step stays in the table.
LEMMA AdvanceEffect ==
    ASSUME TypeOK, NEW e \in Exec, Advances(e)
    PROVE  \E phase \in Filed : Move(e, phase) /\ pc[e] \in Filed
<1>1. CASE Created(e) \/ Started(e) \/ Finalized(e) \/ CancelAudited(e)
  BY <1>1 DEF Created, Started, Finalized, CancelAudited, Filed
<1>2. ASSUME NEW raw \in Raws, RunEnds(e, raw) PROVE \E phase \in Filed : Move(e, phase) /\ pc[e] \in Filed
  <2>1. AfterRun(e, TerminationOf(e, raw)) \in Filed
    BY DEF AfterRun, Filed
  <2> QED BY <1>2, <2>1 DEF RunEnds, Filed
<1> QED BY <1>1, <1>2 DEF Advances

----------------------------------------------------------------------------
(* What a request is, and the table, through every step.                   *)

LEMMA StepKinds == TypeOK /\ KindInv /\ [Next]_vars => KindInv'
<1> SUFFICES ASSUME TypeOK, KindInv, [Next]_vars PROVE KindInv'
  OBVIOUS
<1> USE DEF requestVars, tableVars
<1>1. ASSUME NEW e \in Exec, NEW kd \in {"command", "probe"}, NEW k \in Sessions \X RequestIds,
             Request(e, kd, k)
      PROVE KindInv'
  <2>1. pc' \in [Exec -> Phases] /\ pc'[e] \in Filed \cup {"answered"} /\ \A f \in Exec : f # e => pc'[f] = pc[f]
    <3>1. CASE Available /\ Admitted(k)
      BY <1>1, <3>1 DEF Request, File, FirstPhase, TypeOK, Phases, Filed
    <3>2. CASE ~(Available /\ Admitted(k))
      BY <1>1, <3>2 DEF Request, Refuse, TypeOK, Phases, Filed
    <3> QED BY <3>1, <3>2
  <2>2. kind' = [kind EXCEPT ![e] = kd] /\ key' = [key EXCEPT ![e] = k]
    BY <1>1 DEF Request
  <2>3. pc'[e] = "creating" => kind'[e] # "probe"
    <3>1. CASE Available /\ Admitted(k)
      BY <1>1, <3>1 DEF Request, File, FirstPhase, TypeOK
    <3>2. CASE ~(Available /\ Admitted(k))
      BY <1>1, <3>2 DEF Request, Refuse, TypeOK
    <3> QED BY <3>1, <3>2
  <2> QED BY <2>1, <2>2, <2>3 DEF KindInv, TypeOK, Filed
<1>2. ASSUME NEW e \in Exec, StartTask(e) PROVE KindInv'
  BY <1>2 DEF StartTask, Refuse, Arrives, KindInv, TypeOK, Filed
<1>3. ASSUME NEW e \in Exec, StartTransfer(e) PROVE KindInv'
  BY <1>3 DEF StartTransfer, Refuse, Arrives, KindInv, TypeOK, Filed
<1>4. ASSUME NEW e \in Exec, RunWorker(e) PROVE KindInv'
  BY <1>4 DEF RunWorker, File, Refuse, KindInv, TypeOK, Filed
<1>5. ASSUME NEW e \in Exec, Advances(e) PROVE KindInv'
  <2>1. PICK phase \in Filed : Move(e, phase) /\ pc[e] \in Filed
    BY <1>5, AdvanceEffect
  <2>2. phase # "creating"
    BY <1>5, <2>1 DEF Advances, Created, Started, Finalized, CancelAudited, RunEnds, AfterRun, Move, TypeOK
  <2> QED BY <2>1, <2>2 DEF Move, KindInv, TypeOK, Filed
<1>6. ASSUME NEW e \in Exec, NEW how, Settle(e, how), pc[e] \in Filed PROVE KindInv'
  BY <1>6 DEF Settle, KindInv, TypeOK, Filed
<1>7. ASSUME NEW e \in Exec, EndsOutside(e) PROVE KindInv'
  BY <1>7 DEF EndsOutside, ProbeEnds, TransferEnds, KindInv, TypeOK, Filed
<1>8. CASE Calm
  BY <1>8 DEF Calm, KindInv
<1>9. ASSUME NEW e \in Exec, Fails(e) \/ CompleteAudited(e) PROVE KindInv'
  BY <1>6, <1>9, FailEffect DEF CompleteAudited, Filed
<1> QED BY <1>1, <1>2, <1>3, <1>4, <1>5, <1>7, <1>8, <1>9, StepCases

LEMMA StepTable == TypeOK /\ KindInv /\ TableInv /\ SlotsInv /\ [Next]_vars => TableInv' /\ SlotsInv'
<1> SUFFICES ASSUME TypeOK, KindInv, TableInv, SlotsInv, [Next]_vars PROVE TableInv' /\ SlotsInv'
  OBVIOUS
<1> USE DEF requestVars, tableVars
<1>0. table \in [Keys -> Exec \cup {NoExec}]
  BY DEF TypeOK
<1>1. ASSUME NEW e \in Exec, NEW kd \in {"command", "probe"}, NEW k \in Sessions \X RequestIds,
             Request(e, kd, k)
      PROVE TableInv' /\ SlotsInv'
  <2>1. pc[e] \notin Filed /\ key' = [key EXCEPT ![e] = k] /\ k \in Keys /\ FirstPhase(kd) \in Filed
    BY <1>1, KeysOfAll DEF Request, Arrives, FirstPhase, Filed
  <2>2. CASE Available /\ Admitted(k)
    BY <1>1, <2>1, <2>2, FileTable DEF Request
  <2>3. CASE ~(Available /\ Admitted(k))
    <3>1. UNCHANGED tableVars /\ pc' = [pc EXCEPT ![e] = "answered"]
      BY <1>1, <2>3 DEF Request, Refuse
    <3> QED BY <1>0, <2>1, <3>1, QuietTable DEF TypeOK, Filed
  <2> QED BY <2>2, <2>3
<1>2. ASSUME NEW e \in Exec, StartTask(e) \/ StartTransfer(e) PROVE TableInv' /\ SlotsInv'
  <2>1. /\ UNCHANGED <<key, tableVars>> /\ pc[e] \notin Filed /\ pc'[e] \notin Filed
        /\ \A f \in Exec : f # e => pc'[f] = pc[f]
    BY <1>2 DEF StartTask, StartTransfer, Refuse, Arrives, TypeOK, Filed
  <2> QED BY <1>0, <2>1, QuietTable
<1>3. ASSUME NEW e \in Exec, RunWorker(e) PROVE TableInv' /\ SlotsInv'
  <2>1. pc[e] \notin Filed /\ key' = key /\ key[e] \in Keys /\ key' = [key EXCEPT ![e] = key[e]]
    BY <1>3 DEF RunWorker, Filed, TypeOK
  <2>2. CASE Admitted(key[e])
    BY <1>3, <2>1, <2>2, FileTable DEF RunWorker, Filed
  <2>3. CASE ~Admitted(key[e])
    <3>1. UNCHANGED tableVars /\ pc' = [pc EXCEPT ![e] = "answered"]
      BY <1>3, <2>3 DEF RunWorker, Refuse
    <3> QED BY <1>0, <2>1, <3>1, QuietTable DEF TypeOK, Filed
  <2> QED BY <2>2, <2>3
<1>4. ASSUME NEW e \in Exec, Advances(e) PROVE TableInv' /\ SlotsInv'
  <2>1. PICK phase \in Filed : Move(e, phase) /\ pc[e] \in Filed
    BY <1>4, AdvanceEffect
  <2> QED BY <1>0, <2>1, QuietTable DEF Move, TypeOK
<1>5. ASSUME NEW e \in Exec, Fails(e) \/ CompleteAudited(e) PROVE TableInv' /\ SlotsInv'
  BY <1>5, FailEffect, SettleTable DEF CompleteAudited, Filed
<1>6. ASSUME NEW e \in Exec, EndsOutside(e) PROVE TableInv' /\ SlotsInv'
  <2>1. UNCHANGED <<key, tableVars>> /\ pc' = [pc EXCEPT ![e] = "answered"] /\ pc[e] \notin Filed
    BY <1>6 DEF EndsOutside, ProbeEnds, TransferEnds, Filed
  <2> QED BY <1>0, <2>1, QuietTable DEF TypeOK, Filed
<1>7. CASE Calm
  BY <1>0, <1>7, QuietTable DEF Calm
<1> QED BY <1>1, <1>2, <1>3, <1>4, <1>5, <1>6, <1>7, StepCases
----------------------------------------------------------------------------
(* Arrivals and departures change no record, sink or termination.          *)

\* What an arrival, or a worker that starts, leaves as it was.
LEMMA ArrivalEffect ==
    ASSUME TypeOK, KindInv, NEW e \in Exec,
           \/ \E kd \in {"command", "probe"}, k \in Sessions \X RequestIds : Request(e, kd, k)
           \/ StartTask(e) \/ StartTransfer(e) \/ RunWorker(e)
    PROVE  /\ UNCHANGED <<termination, sink, audit>> /\ pc[e] \in {"new", "queued"}
           /\ pc' \in [Exec -> Phases] /\ kind' \in [Exec -> {"command", "probe", "task", "transfer"}]
           /\ pc'[e] \in {"queued", "transferring", "creating", "starting", "answered"}
           /\ pc'[e] = "answered" => answer'[e] = "rejected"
           /\ pc'[e] # "answered" => answer' = answer
           /\ pc'[e] = "creating" => kind'[e] # "probe"
           /\ \A f \in Exec : f # e => pc'[f] = pc[f] /\ kind'[f] = kind[f] /\ answer'[f] = answer[f]
<1> USE DEF TypeOK, Phases, Filed
<1>1. ASSUME NEW kd \in {"command", "probe"}, NEW k \in Sessions \X RequestIds, Request(e, kd, k),
             Available /\ Admitted(k)
      PROVE /\ pc' = [pc EXCEPT ![e] = FirstPhase(kd)] /\ kind' = [kind EXCEPT ![e] = kd]
            /\ UNCHANGED <<answer, termination, sink, audit>> /\ pc[e] = "new"
  BY <1>1 DEF Request, File, Arrives
<1>2. ASSUME NEW kd \in {"command", "probe"}, NEW k \in Sessions \X RequestIds, Request(e, kd, k),
             ~(Available /\ Admitted(k))
      PROVE /\ Refuse(e) /\ kind' = [kind EXCEPT ![e] = kd]
            /\ UNCHANGED <<termination, sink, audit>> /\ pc[e] = "new"
  BY <1>2 DEF Request, Arrives
<1>3. CASE \E kd \in {"command", "probe"}, k \in Sessions \X RequestIds : Request(e, kd, k)
  BY <1>1, <1>2, <1>3 DEF FirstPhase, Refuse
<1>4. CASE StartTask(e)
  BY <1>4 DEF StartTask, Arrives, Refuse
<1>5. CASE StartTransfer(e)
  BY <1>5 DEF StartTransfer, Arrives, Refuse
<1>6. CASE RunWorker(e)
  <2>1. CASE Admitted(key[e])
    <3>1. pc' = [pc EXCEPT ![e] = "creating"] /\ UNCHANGED <<kind, answer, termination, sink, audit>>
          /\ pc[e] = "queued"
      BY <1>6, <2>1 DEF RunWorker, File
    <3>2. kind[e] # "probe"
      BY <3>1 DEF KindInv
    <3> QED BY <3>1, <3>2
  <2>2. CASE ~Admitted(key[e])
    BY <1>6, <2>2 DEF RunWorker, Refuse
  <2> QED BY <2>1, <2>2
<1> QED BY <1>3, <1>4, <1>5, <1>6

\* A settled execution is answered, or goes on as a probe outside the table.
LEMMA SettleEffect ==
    ASSUME TypeOK, NEW e \in Exec, NEW how \in Hows, Settle(e, how)
    PROVE  /\ \/ pc'[e] = "answered" /\ answer'[e] = how
              \/ pc'[e] = "probing" /\ answer' = answer /\ kind[e] = "probe" /\ how = "resolved"
           /\ how = "rejected" => pc'[e] = "answered"
           /\ \A f \in Exec : f # e => pc'[f] = pc[f] /\ answer'[f] = answer[f]
           /\ UNCHANGED <<kind, key, executor, reason, aborted, daemonVars>>
BY DEF Settle, TypeOK, Hows

----------------------------------------------------------------------------
(* Sinks and records.                                                      *)

LEMMA StepOutput == TypeOK /\ KindInv /\ OutputInv /\ [Next]_vars => OutputInv'
<1> SUFFICES ASSUME TypeOK, KindInv, OutputInv, [Next]_vars PROVE OutputInv'
  OBVIOUS
<1> USE DEF requestVars, tableVars
<1>1. ASSUME NEW e \in Exec,
             \/ \E kd \in {"command", "probe"}, k \in Sessions \X RequestIds : Request(e, kd, k)
             \/ StartTask(e) \/ StartTransfer(e) \/ RunWorker(e)
      PROVE OutputInv'
  BY <1>1, ArrivalEffect DEF OutputInv
<1>2. ASSUME NEW e \in Exec, Created(e) PROVE OutputInv'
  <2>1. kind[e] # "probe"
    BY <1>2 DEF Created, KindInv
  <2> QED BY <1>2, <2>1 DEF Created, Move, OutputInv, TypeOK
<1>3. ASSUME NEW e \in Exec, Started(e) \/ Finalized(e) \/ CancelAudited(e) PROVE OutputInv'
  <2>1. CASE Started(e)
    <3>1. pc' = [pc EXCEPT ![e] = "running"] /\ UNCHANGED <<kind, sink, termination>> /\ pc[e] = "starting"
      BY <2>1 DEF Started, Move
    <3> QED BY <3>1 DEF OutputInv, TypeOK
  <2>2. CASE Finalized(e)
    BY <2>2 DEF Finalized, Move, OutputInv, TypeOK
  <2>3. CASE CancelAudited(e)
    BY <2>3 DEF CancelAudited, Move, OutputInv, TypeOK
  <2> QED BY <1>3, <2>1, <2>2, <2>3
<1>4. ASSUME NEW e \in Exec, NEW raw \in Raws, RunEnds(e, raw) PROVE OutputInv'
  BY <1>4 DEF RunEnds, AfterRun, Move, OutputInv, TypeOK
<1>5. ASSUME NEW e \in Exec, Fails(e) PROVE OutputInv'
  <2>1. /\ pc'[e] = "answered" /\ \A f \in Exec : f # e => pc'[f] = pc[f]
        /\ UNCHANGED <<kind, termination>>
    BY <1>5, FailEffect, SettleEffect DEF Hows
  <2>2. sink' = [sink EXCEPT ![e] = SinkAfterError(e)]
    BY <1>5, FailEffect DEF Throw
  <2> QED BY <2>1, <2>2 DEF SinkAfterError, OutputInv, TypeOK
<1>6. ASSUME NEW e \in Exec, CompleteAudited(e) PROVE OutputInv'
  <2>1. /\ pc'[e] \in {"answered", "probing"} /\ \A f \in Exec : f # e => pc'[f] = pc[f]
        /\ UNCHANGED <<kind, termination, sink>> /\ pc[e] = "completing"
    BY <1>6, SettleEffect DEF CompleteAudited, Hows
  <2> QED BY <2>1 DEF OutputInv, TypeOK
<1>7. ASSUME NEW e \in Exec, EndsOutside(e) PROVE OutputInv'
  BY <1>7 DEF EndsOutside, ProbeEnds, TransferEnds, OutputInv, TypeOK
<1>8. CASE Calm
  BY <1>8 DEF Calm, OutputInv
<1> QED BY <1>1, <1>2, <1>3, <1>4, <1>5, <1>6, <1>7, <1>8, StepCases DEF Advances

LEMMA StepTrail ==
    TypeOK /\ KindInv /\ TrailInv /\ ResultIsAudited /\ [Next]_vars => TrailInv' /\ ResultIsAudited'
<1> SUFFICES ASSUME TypeOK, KindInv, TrailInv, ResultIsAudited, [Next]_vars PROVE TrailInv' /\ ResultIsAudited'
  OBVIOUS
<1> USE DEF requestVars, tableVars
<1>1. ASSUME NEW e \in Exec,
             \/ \E kd \in {"command", "probe"}, k \in Sessions \X RequestIds : Request(e, kd, k)
             \/ StartTask(e) \/ StartTransfer(e) \/ RunWorker(e)
      PROVE TrailInv' /\ ResultIsAudited'
  BY <1>1, ArrivalEffect DEF TrailInv, ResultIsAudited
<1>2. ASSUME NEW e \in Exec, Created(e) \/ Started(e) \/ Finalized(e) \/ CancelAudited(e)
      PROVE TrailInv' /\ ResultIsAudited'
  BY <1>2 DEF Created, Started, Finalized, CancelAudited, Move, TrailInv, ResultIsAudited, TypeOK
<1>3. ASSUME NEW e \in Exec, NEW raw \in Raws, RunEnds(e, raw) PROVE TrailInv' /\ ResultIsAudited'
  <2>1. /\ termination' = [termination EXCEPT ![e] = TerminationOf(e, raw)] /\ UNCHANGED <<kind, audit, answer>>
        /\ pc' = [pc EXCEPT ![e] = AfterRun(e, TerminationOf(e, raw))] /\ pc[e] = "running"
    BY <1>3 DEF RunEnds, Move
  <2> QED BY <2>1 DEF AfterRun, TrailInv, ResultIsAudited, TypeOK
<1>4. ASSUME NEW e \in Exec, Fails(e) PROVE TrailInv' /\ ResultIsAudited'
  <2>1. /\ pc'[e] = "answered" /\ answer'[e] = "rejected"
        /\ \A f \in Exec : f # e => pc'[f] = pc[f] /\ answer'[f] = answer[f]
        /\ UNCHANGED <<kind, termination, audit>>
    BY <1>4, FailEffect, SettleEffect DEF Hows
  <2> QED BY <2>1 DEF TrailInv, ResultIsAudited, TypeOK
<1>5. ASSUME NEW e \in Exec, CompleteAudited(e) PROVE TrailInv' /\ ResultIsAudited'
  <2>1. /\ \/ pc'[e] = "answered" /\ answer'[e] = "resolved"
           \/ pc'[e] = "probing" /\ answer' = answer /\ kind[e] = "probe"
        /\ \A f \in Exec : f # e => pc'[f] = pc[f] /\ answer'[f] = answer[f]
        /\ UNCHANGED <<kind, termination>> /\ pc[e] = "completing"
    BY <1>5, SettleEffect DEF CompleteAudited, Hows
  <2>2. audit' = [audit EXCEPT ![e] = audit[e] \cup {"completed"}]
    BY <1>5 DEF CompleteAudited, CompletedAudit
  <2> QED BY <2>1, <2>2 DEF TrailInv, ResultIsAudited, TypeOK
<1>6. ASSUME NEW e \in Exec, EndsOutside(e) PROVE TrailInv' /\ ResultIsAudited'
  <2>1. PICK how \in Hows : ProbeEnds(e, how) \/ TransferEnds(e, how)
    BY <1>6 DEF EndsOutside
  <2>2. CASE ProbeEnds(e, how)
    <3>1. /\ pc[e] = "probing" /\ pc' = [pc EXCEPT ![e] = "answered"] /\ answer' = [answer EXCEPT ![e] = how]
          /\ UNCHANGED <<kind, termination>> /\ audit' \in {audit, [audit EXCEPT ![e] = audit[e] \cup {"probed"}]}
      BY <2>2 DEF ProbeEnds
    <3> QED BY <3>1 DEF KindInv, TrailInv, ResultIsAudited, TypeOK
  <2>3. CASE TransferEnds(e, how)
    BY <2>3 DEF TransferEnds, KindInv, TrailInv, ResultIsAudited, TypeOK
  <2> QED BY <2>1, <2>2, <2>3
<1>7. CASE Calm
  BY <1>7 DEF Calm, TrailInv, ResultIsAudited
<1> QED BY <1>1, <1>2, <1>3, <1>4, <1>5, <1>6, <1>7, StepCases DEF Advances
----------------------------------------------------------------------------
(* Aborts.                                                                 *)

\* An execution under way is found under its key.
LEMMA FiledFound ==
    ASSUME TypeOK, TableInv, NEW e \in Exec, pc[e] \in Filed, NEW K \in SUBSET Keys, key[e] \in K
    PROVE  e \in FiledUnder(K)
BY ExecServiceAssumption DEF TableInv, FiledUnder

\* Asking executions to stop gives each of them that accepts it a reason, for good.
LEMMA StopEffect ==
    ASSUME TypeOK, NEW S, NEW why \in StopReasons, StopOnly(S, why)
    PROVE  /\ UNCHANGED <<pc, kind, key, executor, accepting>>
           /\ \A e \in Exec : reason[e] # "none" => reason'[e] # "none"
           /\ \A e \in S \cap accepting : reason'[e] # "none"
BY DEF TypeOK, StopOnly, StoppedFor, StopReasons, requestVars

\* A step that stops nobody anew keeps every abort heard.
LEMMA QuietStops ==
    ASSUME StopInv, UNCHANGED aborted, accepting' \subseteq accepting,
           \A e \in Exec : reason[e] # "none" => reason'[e] # "none",
           \A e \in Exec : pc'[e] \in {"new", "queued", "transferring"} => pc[e] \in {"new", "queued", "transferring"},
           \A e \in Exec : pc'[e] = "new" => pc[e] = "new",
           aborted \subseteq Exec
    PROVE  StopInv'
BY DEF StopInv, NoLostAbort

\* Aborting the tasks of A, and stopping whatever of them is filed, keeps every abort heard.
LEMMA AbortEffect ==
    ASSUME TypeOK, KindInv, TableInv, StopInv, NEW A \in SUBSET RunningTasks, NEW K \in SUBSET Keys,
           aborted' = aborted \cup A, StopOnly(FiledUnder(K), "cancel"), \A e \in A : key[e] \in K \/ pc[e] \notin Filed
    PROVE  StopInv'
<1>1. /\ UNCHANGED <<pc, kind, key, executor, accepting>>
      /\ \A e \in Exec : reason[e] # "none" => reason'[e] # "none"
      /\ \A e \in FiledUnder(K) \cap accepting : reason'[e] # "none"
  BY StopEffect DEF StopReasons
<1>2. \A e \in RunningTasks : e \in Exec /\ pc[e] \in Filed \cup {"queued", "transferring"}
  BY DEF RunningTasks
<1>3. ASSUME NEW e \in A, e \in accepting PROVE reason'[e] # "none"
  <2>1. e \in Exec /\ pc[e] \in Filed
    BY <1>2, <1>3 DEF StopInv
  <2>2. key[e] \in K
    BY <2>1
  <2> QED BY <1>1, <1>3, <2>1, <2>2, FiledFound
<1>4. aborted \subseteq Exec
  BY DEF TypeOK
<1>5. NoLostAbort'
  BY <1>1, <1>3, <1>4 DEF StopInv, NoLostAbort
<1>6. \A e \in Exec : pc[e] = "new" => e \notin A
  BY <1>2 DEF Filed
<1> QED BY <1>1, <1>5, <1>6 DEF StopInv

LEMMA StepStops == TypeOK /\ KindInv /\ TableInv /\ StopInv /\ [Next]_vars => StopInv'
<1> SUFFICES ASSUME TypeOK, KindInv, TableInv, StopInv, [Next]_vars PROVE StopInv'
  OBVIOUS
<1> USE DEF requestVars, outcomeVars, tableVars, daemonVars
<1>0. aborted \subseteq Exec
  BY DEF TypeOK
<1>1. ASSUME NEW e \in Exec, NEW kd \in {"command", "probe"}, NEW k \in Sessions \X RequestIds,
             Request(e, kd, k)
      PROVE StopInv'
  <2>1. pc[e] = "new" /\ UNCHANGED aborted /\ e \notin aborted
    BY <1>1 DEF Request, Arrives, StopInv
  <2>2. CASE Available /\ Admitted(k)
    <3>1. /\ accepting' = accepting \cup {e} /\ reason' = [reason EXCEPT ![e] = "none"]
          /\ pc' = [pc EXCEPT ![e] = FirstPhase(kd)]
      BY <1>1, <2>2 DEF Request, File
    <3>2. FirstPhase(kd) \notin {"new", "queued", "transferring"}
      BY DEF FirstPhase
    <3> QED BY <1>0, <2>1, <3>1, <3>2 DEF StopInv, NoLostAbort, TypeOK
  <2>3. CASE ~(Available /\ Admitted(k))
    BY <1>0, <1>1, <2>1, <2>3, QuietStops DEF Request, Refuse, TypeOK
  <2> QED BY <2>2, <2>3
<1>2. ASSUME NEW e \in Exec, StartTask(e) \/ StartTransfer(e) PROVE StopInv'
  <2>1. /\ pc[e] = "new" /\ UNCHANGED <<aborted, accepting, reason>> /\ pc'[e] # "new"
        /\ \A f \in Exec : f # e => pc'[f] = pc[f]
    BY <1>2 DEF StartTask, StartTransfer, Arrives, Refuse, TypeOK
  <2> QED BY <1>0, <2>1, QuietStops
<1>3. ASSUME NEW e \in Exec, RunWorker(e) PROVE StopInv'
  <2>1. CASE Admitted(key[e])
    <3>1. /\ accepting' = accepting \cup {e} /\ reason' = [reason EXCEPT ![e] = ReasonAtStart(e)]
          /\ pc' = [pc EXCEPT ![e] = "creating"] /\ UNCHANGED aborted
      BY <1>3, <2>1 DEF RunWorker, File
    <3> QED BY <1>0, <3>1 DEF ReasonAtStart, StopInv, NoLostAbort, TypeOK
  <2>2. CASE ~Admitted(key[e])
    BY <1>0, <1>3, <2>2, QuietStops DEF RunWorker, Refuse, TypeOK
  <2> QED BY <2>1, <2>2
<1>4. ASSUME NEW e \in Exec, Advances(e) PROVE StopInv'
  <2>1. PICK phase \in Filed : Move(e, phase)
    BY <1>4, AdvanceEffect
  <2>2. accepting' \subseteq accepting
    BY <1>4 DEF Advances, Created, Started, Finalized, CancelAudited, RunEnds
  <2>3. \A f \in Exec : reason[f] # "none" => reason'[f] # "none"
    BY <1>4 DEF Advances, Created, Started, Finalized, CancelAudited, RunEnds, TypeOK
  <2>4. phase \notin {"new", "queued", "transferring"}
    BY DEF Filed
  <2> QED BY <1>0, <2>1, <2>2, <2>3, <2>4, QuietStops DEF Move, TypeOK
<1>5. ASSUME NEW e \in Exec, Fails(e) \/ CompleteAudited(e) PROVE StopInv'
  <2>1. PICK how \in Hows : Settle(e, how)
    BY <1>5, FailEffect DEF CompleteAudited, Hows
  <2>2. accepting' \subseteq accepting
    BY <1>5, FailEffect DEF CompleteAudited
  <2>3. /\ pc'[e] \in {"answered", "probing"} /\ UNCHANGED <<reason, aborted>>
        /\ \A f \in Exec : f # e => pc'[f] = pc[f]
    BY <2>1, SettleEffect
  <2> QED BY <1>0, <2>2, <2>3, QuietStops
<1>6. ASSUME NEW e \in Exec, EndsOutside(e) PROVE StopInv'
  BY <1>0, <1>6, QuietStops DEF EndsOutside, ProbeEnds, TransferEnds, TypeOK
<1>7. ASSUME NEW S, NEW why \in StopReasons, StopOnly(S, why), UNCHANGED aborted PROVE StopInv'
  BY <1>0, <1>7, StopEffect, QuietStops
<1>8. ASSUME NEW e \in Exec, Timeout(e) PROVE StopInv'
  BY <1>7, <1>8 DEF Timeout, StopReasons
<1>9. ASSUME NEW k, Cancel(k) \/ Disconnect(k) PROVE StopInv'
  BY <1>7, <1>9 DEF Cancel, Disconnect, StopReasons
<1>10. ASSUME NEW e \in Exec, CancelTask(e) PROVE StopInv'
  <2>1. {key[e]} \in SUBSET Keys
    BY DEF TypeOK
  <2>2. {e} \in SUBSET RunningTasks /\ aborted' = aborted \cup {e} /\ StopOnly(FiledUnder({key[e]}), "cancel")
    BY <1>10 DEF CancelTask
  <2>3. \A f \in {e} : key[f] \in {key[e]} \/ pc[f] \notin Filed
    OBVIOUS
  <2> QED BY <2>1, <2>2, <2>3, AbortEffect
<1>11. CASE CloseServer \/ Shutdown
  BY <1>7, <1>11 DEF CloseServer, Shutdown, StopReasons
<1>12. CASE ShutdownTasks
  <2>1. \A e \in RunningTasks : key[e] \in {"task"} \X Exec \/ pc[e] \notin Filed
    BY DEF RunningTasks, KindInv, Filed
  <2>2. {"task"} \X Exec \in SUBSET Keys
    BY DEF Keys
  <2> QED BY <1>12, <2>1, <2>2, AbortEffect DEF ShutdownTasks, AllTasksAborted
<1>13. CASE BeginReload \/ Commit \/ Release \/ Stop \/ DisposeActive \/ UNCHANGED vars
  <2>1. UNCHANGED <<pc, accepting, reason, aborted>>
    BY <1>13 DEF BeginReload, Commit, Release, Stop, DisposeActive, ReloadOnly, vars
  <2> QED BY <1>0, <2>1, QuietStops
<1> QED
  BY <1>1, <1>2, <1>3, <1>4, <1>5, <1>6, <1>8, <1>9, <1>10, <1>11, <1>12, <1>13
  DEF Next, Steps, Advances, Fails, EndsOutside, Raws, Hows
----------------------------------------------------------------------------
(* Runners.                                                                *)

\* When the service is idle, nobody uses a runner.
LEMMA IdleMeansNobody ==
    ASSUME TypeOK, KindInv, TableInv, SlotsInv, Idle
    PROVE  \A e \in Exec : ~Live(e)
<1>1. Occupied = {}
  BY FS_EmptySet DEF Idle, SlotsInv
<1>2. ASSUME NEW e \in Exec, pc[e] \in Filed PROVE FALSE
  <2>1. table[key[e]] # NoExec /\ key[e] \in Keys
    BY <1>2, ExecServiceAssumption DEF TableInv, TypeOK
  <2> QED BY <1>1, <2>1 DEF Occupied
<1>3. ASSUME NEW e \in Exec, pc[e] \in {"queued", "transferring"} PROVE FALSE
  BY <1>3 DEF Idle, RunningTasks, KindInv
<1> QED BY <1>2, <1>3 DEF Live

\* A step in which nobody starts to use a runner, and the daemon does nothing but
\* perhaps stop waiting for some who no longer use theirs.
LEMMA QuietRunners ==
    ASSUME RunnersInv, UNCHANGED daemonVars, awaited \in SUBSET Exec,
           NEW S \in SUBSET Exec, awaited' = awaited \ S,
           UNCHANGED executor,
           \A e \in Exec : Live(e)' => Live(e) /\ e \notin S,
           \A e \in Exec : Live(e)' /\ pc[e] \in Filed => pc'[e] \in Filed
    PROVE  RunnersInv'
BY DEF RunnersInv, daemonVars, Drained, Closing, Listening

LEMMA QuietAwaited ==
    ASSUME RunnersInv, UNCHANGED <<daemonVars, awaited, executor>>, awaited \in SUBSET Exec,
           \A e \in Exec : Live(e)' => Live(e),
           \A e \in Exec : Live(e)' /\ pc[e] \in Filed => pc'[e] \in Filed
    PROVE  RunnersInv'
BY DEF RunnersInv, daemonVars, Drained, Closing, Listening

\* A request that is admitted gets the current generation's runner.
LEMMA AdmitRunners ==
    ASSUME RunnersInv, UNCHANGED <<daemonVars, awaited>>, ~Closing, NEW e \in Exec,
           \A f \in Exec : f # e => (Live(f)' <=> Live(f)) /\ executor'[f] = executor[f],
           executor'[e] = generation
    PROVE  RunnersInv'
BY DEF RunnersInv, daemonVars, Drained, Closing, Listening

\* A step of the daemon that leaves the generations, and those it waits for, alone.
LEMMA QuietDaemon ==
    ASSUME RunnersInv, UNCHANGED <<generation, disposed, awaited, pc, executor>>,
           lease' = "committed" => lease = "committed" \/ generation > 0,
           ~Listening' => lease' = "none", Closing <=> Closing'
    PROVE  RunnersInv'
BY DEF RunnersInv, Drained, Live

LEMMA StepRunners ==
    TypeOK /\ KindInv /\ TableInv /\ SlotsInv /\ RunnersInv /\ [Next]_vars => RunnersInv'
<1> SUFFICES ASSUME TypeOK, KindInv, TableInv, SlotsInv, RunnersInv, [Next]_vars PROVE RunnersInv'
  OBVIOUS
<1> USE DEF requestVars, outcomeVars, tableVars
<1>0. awaited \in SUBSET Exec /\ awaited \ {} = awaited
  BY DEF TypeOK
<1>1. ASSUME NEW e \in Exec, NEW kd \in {"command", "probe"}, NEW k \in Sessions \X RequestIds,
             Request(e, kd, k)
      PROVE RunnersInv'
  <2>1. /\ UNCHANGED <<daemonVars, awaited>> /\ ~Closing /\ executor'[e] = generation
        /\ \A f \in Exec : f # e => executor'[f] = executor[f]
    BY <1>1 DEF Request, Listening, Closing, TypeOK
  <2>2. \A f \in Exec : f # e => pc'[f] = pc[f]
    <3>1. CASE Available /\ Admitted(k)
      BY <1>1, <3>1 DEF Request, File, TypeOK
    <3>2. CASE ~(Available /\ Admitted(k))
      BY <1>1, <3>2 DEF Request, Refuse, TypeOK
    <3> QED BY <3>1, <3>2
  <2> QED BY <2>1, <2>2, AdmitRunners DEF Live
<1>2. ASSUME NEW e \in Exec, StartTask(e) \/ StartTransfer(e) PROVE RunnersInv'
  <2>1. /\ UNCHANGED <<daemonVars, awaited>> /\ ~Closing /\ executor'[e] = generation
        /\ \A f \in Exec : f # e => executor'[f] = executor[f] /\ pc'[f] = pc[f]
    BY <1>2 DEF StartTask, StartTransfer, Refuse, Listening, Closing, TypeOK
  <2> QED BY <2>1, AdmitRunners DEF Live
<1>3. ASSUME NEW e \in Exec, RunWorker(e) PROVE RunnersInv'
  <2>1. /\ pc[e] = "queued" /\ UNCHANGED <<executor, daemonVars, awaited>>
        /\ pc'[e] \in {"creating", "answered"} /\ \A f \in Exec : f # e => pc'[f] = pc[f]
    BY <1>3 DEF RunWorker, File, Refuse, TypeOK
  <2>2. \A f \in Exec : (Live(f)' => Live(f)) /\ (Live(f)' /\ pc[f] \in Filed => pc'[f] \in Filed)
    BY <2>1 DEF Live, Filed
  <2> QED BY <1>0, <2>1, <2>2, QuietAwaited
<1>4. ASSUME NEW e \in Exec, Advances(e) PROVE RunnersInv'
  <2>1. PICK phase \in Filed : Move(e, phase) /\ pc[e] \in Filed
    BY <1>4, AdvanceEffect
  <2>2. \A f \in Exec : pc'[f] \in Filed <=> pc[f] \in Filed
    BY <2>1 DEF Move, TypeOK
  <2>3. \A f \in Exec : Live(f)' => Live(f)
    BY <2>1 DEF Move, TypeOK, Live
  <2>4. UNCHANGED <<executor, daemonVars, awaited>>
    BY <2>1 DEF Move
  <2> QED BY <1>0, <2>2, <2>3, <2>4, QuietAwaited
<1>5. ASSUME NEW e \in Exec, Fails(e) \/ CompleteAudited(e) PROVE RunnersInv'
  <2>1. PICK how \in Hows : Settle(e, how)
    BY <1>5, FailEffect DEF CompleteAudited, Hows
  <2>2. awaited' = awaited \ {e}
    BY <2>1 DEF Settle
  <2>3. pc'[e] \in {"answered", "probing"} /\ \A f \in Exec : f # e => pc'[f] = pc[f]
    BY <2>1, SettleEffect
  <2>4. UNCHANGED <<executor, daemonVars>>
    BY <2>1, SettleEffect
  <2>5. \A f \in Exec : Live(f)' => Live(f) /\ f \notin {e}
    BY <2>3 DEF Live, Filed
  <2>6. \A f \in Exec : Live(f)' /\ pc[f] \in Filed => pc'[f] \in Filed
    BY <2>3, <2>5
  <2> QED BY <1>0, <2>2, <2>4, <2>5, <2>6, QuietRunners
<1>6. ASSUME NEW e \in Exec, EndsOutside(e) PROVE RunnersInv'
  <2>1. pc' = [pc EXCEPT ![e] = "answered"] /\ UNCHANGED <<executor, daemonVars, awaited>>
    BY <1>6 DEF EndsOutside, ProbeEnds, TransferEnds
  <2>2. \A f \in Exec : f # e => pc'[f] = pc[f]
    BY <2>1 DEF TypeOK
  <2>3. \A f \in Exec : (Live(f)' => Live(f)) /\ (Live(f)' /\ pc[f] \in Filed => pc'[f] \in Filed)
    BY <2>1, <2>2 DEF TypeOK, Live, Filed
  <2> QED BY <1>0, <2>1, <2>3, QuietAwaited
<1>7. ASSUME UNCHANGED <<pc, executor, awaited, daemonVars>> PROVE RunnersInv'
  BY <1>7, QuietDaemon DEF daemonVars, RunnersInv, Listening, Closing
<1>8. ASSUME NEW S, NEW why, StopOnly(S, why), UNCHANGED <<awaited, daemonVars>> PROVE RunnersInv'
  BY <1>7, <1>8 DEF StopOnly
<1>9. ASSUME NEW e \in Exec, Timeout(e) \/ CancelTask(e) PROVE RunnersInv'
  BY <1>8, <1>9 DEF Timeout, CancelTask
<1>10. ASSUME NEW k, Cancel(k) \/ Disconnect(k) PROVE RunnersInv'
  BY <1>8, <1>10 DEF Cancel, Disconnect
<1>11. CASE BeginReload \/ Stop
  BY <1>11, QuietDaemon DEF BeginReload, Stop, ReloadOnly, RunnersInv, Listening, Closing
<1>12. CASE Commit
  <2>1. CASE stage = "serving" /\ Idle
    <3>1. /\ generation' = generation + 1 /\ lease' = "committed" /\ UNCHANGED <<pc, executor, disposed, stage>>
          /\ generation \in Nat /\ disposed \in SUBSET Nat
      BY <1>12, <2>1 DEF Commit, ReloadOnly, TypeOK
    <3>2. \A e \in Exec : ~Live(e)'
      BY <2>1, <3>1, IdleMeansNobody DEF Live
    <3>3. \A d \in disposed : d <= generation'
      BY <3>1 DEF RunnersInv
    <3>4. generation' \notin disposed
      BY <3>1 DEF RunnersInv
    <3>5. generation' > 0 /\ Listening' /\ ~Closing'
      BY <2>1, <3>1 DEF Listening, Closing
    <3> QED BY <3>1, <3>2, <3>3, <3>4, <3>5 DEF RunnersInv
  <2>2. CASE ~(stage = "serving" /\ Idle)
    <3>1. lease' = "none" /\ UNCHANGED <<pc, executor, generation, disposed, stage, awaited>>
      BY <1>12, <2>2 DEF Commit, ReloadOnly
    <3> QED BY <3>1, QuietDaemon DEF Closing
  <2> QED BY <2>1, <2>2
<1>13. CASE Release
  <2>1. /\ lease # "none" /\ lease' = "none" /\ UNCHANGED <<pc, executor, generation, stage, awaited>>
        /\ disposed' = IF lease = "committed" THEN disposed \cup {generation - 1} ELSE disposed
    BY <1>13 DEF Release, ReloadOnly
  <2>2. generation \in Nat /\ (lease = "committed" => generation - 1 < generation /\ generation > 0)
    BY DEF TypeOK, RunnersInv
  <2>3. \A d \in disposed' : d <= generation
    BY <2>1, <2>2 DEF RunnersInv
  <2>4. generation \in disposed' => generation \in disposed
    BY <2>1, <2>2
  <2> QED BY <2>1, <2>3, <2>4 DEF RunnersInv, Live, Drained, Closing
<1>14. CASE CloseServer \/ ShutdownTasks
  <2>1. /\ UNCHANGED <<pc, executor, generation, disposed, awaited, lease>> /\ ~Closing /\ ~Closing'
        /\ lease = "none"
    BY <1>14 DEF CloseServer, ShutdownTasks, StopOnly, RunnersInv, Listening, Closing
  <2> QED BY <2>1, QuietDaemon
<1>15. CASE Shutdown
  <2>1. /\ UNCHANGED <<pc, executor, generation, disposed>> /\ lease' = "none" /\ Closing'
        /\ awaited' = FiledUnder(Keys) /\ TasksDrained /\ stage = "draining_tasks"
    BY <1>15 DEF Shutdown, StopOnly, Closing
  <2>2. ASSUME NEW e \in Exec, Live(e) PROVE pc[e] \in Filed /\ e \in FiledUnder(Keys)
    <3>1. pc[e] \in Filed
      BY <2>1, <2>2 DEF Live, TasksDrained, RunningTasks, KindInv
    <3>2. key[e] \in Keys
      BY DEF TypeOK
    <3> QED BY <3>1, <3>2, FiledFound
  <2>3. generation \notin disposed
    BY <2>1 DEF RunnersInv, Drained, Closing
  <2> QED BY <2>1, <2>2, <2>3 DEF RunnersInv, Live
<1>16. CASE DisposeActive
  <2>1. /\ disposed' = disposed \cup {generation} /\ Drained /\ generation \in Nat
        /\ UNCHANGED <<pc, executor, generation, lease, stage, awaited>>
    BY <1>16 DEF DisposeActive, ReloadOnly, TypeOK
  <2> QED BY <2>1 DEF RunnersInv, Live, Drained, Closing, Listening
<1>17. CASE UNCHANGED vars
  BY <1>7, <1>17 DEF vars
<1> QED
  BY <1>1, <1>2, <1>3, <1>4, <1>5, <1>6, <1>9, <1>10, <1>11, <1>12, <1>13, <1>14, <1>15, <1>16, <1>17
  DEF Next, Steps, Advances, Fails, EndsOutside, Raws, Hows

----------------------------------------------------------------------------
(* The theorems.                                                           *)

LEMMA InitInvariant == Init => IInv
<1> SUFFICES ASSUME Init PROVE IInv
  OBVIOUS
<1>1. TypeOK
  BY InitTypes
<1>2. TableInv /\ KindInv
  BY DEF Init, TableInv, KindInv, Filed
<1>3. Occupied = {}
  BY DEF Init, Occupied
<1>4. SlotsInv
  BY <1>3, FS_EmptySet, ExecServiceAssumption DEF Init, SlotsInv
<1>5. OutputInv /\ TrailInv /\ ResultIsAudited
  BY DEF Init, OutputInv, TrailInv, ResultIsAudited
<1>6. StopInv
  BY DEF Init, StopInv, NoLostAbort
<1>7. RunnersInv
  BY DEF Init, RunnersInv, Live, Filed, Listening, Closing
<1> QED BY <1>1, <1>2, <1>4, <1>5, <1>6, <1>7 DEF IInv

LEMMA StepInvariant == IInv /\ [Next]_vars => IInv'
BY StepTypes, StepKinds, StepTable, StepOutput, StepTrail, StepStops, StepRunners DEF IInv

LEMMA Invariance == Spec => []IInv
<1> QED BY InitInvariant, StepInvariant, PTL DEF Spec

\* Every execution, however its steps fail and interleave, gives back its slot, its key in the
\* table and its sink exactly once, and never more than maxConcurrentExecutions run at a time
\* (#startExecution, #removeExecution and the catch clause of #execute).
THEOREM EverythingGivenBack == Spec => []GivenBack
<1>1. IInv => GivenBack
  <2> SUFFICES ASSUME IInv PROVE GivenBack
    OBVIOUS
  <2>1. ASSUME NEW e \in Exec, table[key[e]] = e, pc[e] # "new" PROVE pc[e] \in Filed
    <3>1. key[e] \in Keys /\ table[key[e]] # NoExec
      BY <2>1, ExecServiceAssumption DEF IInv, TypeOK
    <3> QED BY <2>1, <3>1 DEF IInv, TableInv
  <2>2. \A e \in Exec : pc[e] \in Filed => table[key[e]] = e /\ pc[e] # "new"
    BY DEF IInv, TableInv, Filed
  <2>3. TableExact
    BY <2>1, <2>2 DEF IInv, SlotsInv, Occupied, TableExact
  <2>4. SinkDisposed
    BY DEF IInv, OutputInv, SinkDisposed, Publishes
  <2> QED BY <2>3, <2>4 DEF GivenBack
<1> QED BY <1>1, Invariance, PTL

\* No result reaches a caller before exec.started, exec.completed and, for a run that was
\* stopped, exec.cancelled are durable (#execute).
THEOREM ResultsAudited == Spec => []ResultIsAudited
<1>1. IInv => ResultIsAudited
  BY DEF IInv
<1> QED BY <1>1, Invariance, PTL

\* An abort of a task reaches its run at whatever moment it comes (startTask), and no runner is
\* disposed of while a request, a task or a transfer uses it (beginReload, shutdown).
THEOREM RunsSupported == Spec => []RunsAreSupported
<1>1. IInv => RunsAreSupported
  <2> SUFFICES ASSUME IInv PROVE RunsAreSupported
    OBVIOUS
  <2>1. NoLostAbort
    BY DEF IInv, StopInv
  <2>2. ASSUME NEW e \in Exec, Live(e) PROVE executor[e] \notin disposed
    <3>1. executor[e] = generation
      BY <2>2 DEF IInv, RunnersInv
    <3>2. ~Drained
      BY <2>2 DEF IInv, RunnersInv, Drained
    <3> QED BY <3>1, <3>2 DEF IInv, RunnersInv
  <2> QED BY <2>1, <2>2 DEF RunsAreSupported, RunnerNotDisposed, Live
<1> QED BY <1>1, Invariance, PTL
=============================================================================
