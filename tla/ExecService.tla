---------------------------- MODULE ExecService ----------------------------
(***************************************************************************)
(* The daemon's execution service (src/core/exec-service.ts).  An          *)
(* execution is a chain of awaited steps - create the output sink, make    *)
(* exec.started durable, run ssh, finalize the output, write the closing   *)
(* audit records - and each await is a point where cancels, disconnects,   *)
(* timeouts, other executions, a reload or the shutdown interleave and     *)
(* where the awaited operation may fail.  One action is the code from one  *)
(* await to the next.                                                      *)
(***************************************************************************)
EXTENDS Naturals, FiniteSets

CONSTANTS
    Exec,                   \* bound: the requests ever made, numbered as they arrive
    Sessions,               \* client sessions
    RequestIds,             \* request IDs clients choose, unique only by convention
    NoExec,                 \* marks a free key of the table
    MaxActive,              \* maxConcurrentExecutions (also the task limit)
    MaxGeneration           \* bound: generations ever committed

ASSUME ExecServiceAssumption ==
    /\ MaxActive \in Nat \ {0}
    /\ MaxGeneration \in Nat
    /\ Exec \subseteq Nat /\ NoExec \notin Exec

VARIABLES
    pc,                     \* pc[e]: the await the request is suspended in
    kind,                   \* kind[e]: "command", "probe", "task" or "transfer"
    key,                    \* key[e]: session and request ID it is filed under
    executor,               \* executor[e]: generation whose runner it captured
    accepting,              \* executions with acceptingCancellation
    reason,                 \* reason[e]: the first StopReason; its signal is aborted
    termination,            \* termination[e]: how the run ended
    sink,                   \* sink[e]: its output on disk
    audit,                  \* audit[e]: the durable audit events of the execution
    answer,                 \* answer[e]: what the caller got
    table,                  \* #activeBySession
    activeCount,            \* #activeCount
    aborted,                \* tasks whose TaskStore signal is aborted
    generation,             \* #generation's executor
    lease,                  \* #reloadToken and its lease: "none", "held", "committed"
    disposed,               \* generations the daemon has disposed of
    stage,                  \* how far the daemon's stop() has come
    awaited                 \* unsettled executions shutdown() awaits

requestVars == <<pc, kind, key, executor>>
outcomeVars == <<accepting, reason, termination, sink, audit, answer>>
tableVars == <<table, activeCount>>
daemonVars == <<generation, lease, disposed, stage>>
vars == <<requestVars, outcomeVars, tableVars, aborted, daemonVars, awaited>>

StopReasons == {"timeout", "cancel", "output_limit"}
Terminations == StopReasons \cup {"exit", "spawn_error"}
Keys == (Sessions \X RequestIds) \cup ({"task"} \X Exec)

\* The phases in which an execution is filed in the table.
Filed == {"creating", "starting", "running", "finalizing", "cancelling", "completing"}
Phases == Filed \cup {"new", "queued", "transferring", "probing", "answered"}

\* stop() waits for a reload, closes the server, drains the task store, then the
\* service.  Requests arrive until the server is closed.
Stages == {"serving", "stopping", "closed", "draining_tasks", "draining"}
Listening == stage \in {"serving", "stopping"}
TasksClosing == stage \in {"draining_tasks", "draining"}
Closing == stage = "draining"

\* TaskStore.activeCount counts the tasks of this service and the transfers.
RunningTasks ==
    {e \in Exec : \/ kind[e] = "task" /\ pc[e] \in Filed \cup {"queued"}
                  \/ pc[e] = "transferring"}

Init ==
    /\ pc = [e \in Exec |-> "new"]
    /\ kind = [e \in Exec |-> "command"]
    /\ key = [e \in Exec |-> <<"task", e>>]
    /\ executor = [e \in Exec |-> 0]
    /\ accepting = {}
    /\ reason = [e \in Exec |-> "none"]
    /\ termination = [e \in Exec |-> "none"]
    /\ sink = [e \in Exec |-> "none"]
    /\ audit = [e \in Exec |-> {}]
    /\ answer = [e \in Exec |-> "none"]
    /\ table = [k \in Keys |-> NoExec]
    /\ activeCount = 0
    /\ aborted = {}
    /\ generation = 0
    /\ lease = "none"
    /\ disposed = {}
    /\ stage = "serving"
    /\ awaited = {}

----------------------------------------------------------------------------
(* Admission: #assertExecutionAvailable, then #startExecution or           *)
(* #runFixedExecution up to their first await.                             *)

Available == ~Closing /\ lease = "none"

\* Mutant: a request ID in use in the session is not looked up.
AdmittedUnlookedUp(k) == activeCount < MaxActive

Admitted(k) == activeCount < MaxActive /\ table[k] = NoExec

\* File e under k in its first phase.  The signal of a task may be aborted already.
File(e, k, phase, why) ==
    /\ pc' = [pc EXCEPT ![e] = phase]
    /\ table' = [table EXCEPT ![k] = e]
    /\ activeCount' = activeCount + 1
    /\ accepting' = accepting \cup {e}
    /\ reason' = [reason EXCEPT ![e] = why]

Refuse(e) ==
    /\ pc' = [pc EXCEPT ![e] = "answered"]
    /\ answer' = [answer EXCEPT ![e] = "rejected"]

\* A fixed probe captures its output in memory: it has no sink, and no exec.cancelled
\* record; otherwise #runFixedExecution goes through the phases of #execute.
FirstPhase(kd) == IF kd = "probe" THEN "starting" ELSE "creating"

\* Requests are numbered in the order in which they arrive.
Arrives(e) == pc[e] = "new" /\ \A f \in Exec : f < e => pc[f] # "new"

\* run(), runOperation() and check() ("command"), inspect() and dockerPreflight()
\* ("probe"), arriving over a session.
Request(e, kd, k) ==
    /\ Listening
    /\ Arrives(e)
    /\ kind' = [kind EXCEPT ![e] = kd]
    /\ key' = [key EXCEPT ![e] = k]
    /\ executor' = [executor EXCEPT ![e] = generation]
    /\ IF Available /\ Admitted(k)
         THEN /\ File(e, k, FirstPhase(kd), "none")
              /\ UNCHANGED answer
         ELSE /\ Refuse(e)
              /\ UNCHANGED <<table, activeCount, accepting, reason>>
    /\ UNCHANGED <<termination, sink, audit, aborted, daemonVars, awaited>>

\* startTask() returns once TaskStore.start() has filed the task; the worker runs in
\* a later microtask with the generation captured here.
StartTask(e) ==
    /\ Listening
    /\ Arrives(e)
    /\ kind' = [kind EXCEPT ![e] = "task"]
    /\ executor' = [executor EXCEPT ![e] = generation]
    /\ IF Available /\ ~TasksClosing /\ Cardinality(RunningTasks) < MaxActive
         THEN pc' = [pc EXCEPT ![e] = "queued"] /\ UNCHANGED answer
         ELSE Refuse(e)
    /\ UNCHANGED <<key, accepting, reason, termination, sink, audit>>
    /\ UNCHANGED <<tableVars, aborted, daemonVars, awaited>>

\* TransferService starts its tasks in the same store.  A reload in progress does
\* not gate them: they take the runners of the generation current at the start.
StartTransfer(e) ==
    /\ Listening
    /\ Arrives(e)
    /\ kind' = [kind EXCEPT ![e] = "transfer"]
    /\ executor' = [executor EXCEPT ![e] = generation]
    /\ IF ~TasksClosing /\ Cardinality(RunningTasks) < MaxActive
         THEN pc' = [pc EXCEPT ![e] = "transferring"] /\ UNCHANGED answer
         ELSE Refuse(e)
    /\ UNCHANGED <<key, accepting, reason, termination, sink, audit>>
    /\ UNCHANGED <<tableVars, aborted, daemonVars, awaited>>

TransferEnds(e, how) ==
    /\ pc[e] = "transferring"
    /\ pc' = [pc EXCEPT ![e] = "answered"]
    /\ answer' = [answer EXCEPT ![e] = how]
    /\ UNCHANGED <<kind, key, executor, accepting, reason, termination, sink, audit>>
    /\ UNCHANGED <<tableVars, aborted, daemonVars, awaited>>

\* if (context.signal.aborted) cancel()
ReasonAtStart(e) == IF e \in aborted THEN "cancel" ELSE "none"

RunWorker(e) ==
    /\ pc[e] = "queued"
    /\ IF Admitted(key[e])
         THEN /\ File(e, key[e], "creating", ReasonAtStart(e))
              /\ UNCHANGED answer
         ELSE /\ Refuse(e)
              /\ UNCHANGED <<table, activeCount, accepting, reason>>
    /\ UNCHANGED <<kind, key, executor, termination, sink, audit>>
    /\ UNCHANGED <<aborted, daemonVars, awaited>>

----------------------------------------------------------------------------
(* Leaving the table.                                                      *)

\* The execution settles with how ("resolved" or "rejected") and the finally clause
\* removes it: #removeExecution deletes whatever is filed under the key.  A probe
\* that ran goes on outside the table.
Settle(e, how) ==
    /\ table' = [table EXCEPT ![key[e]] = NoExec]
    /\ activeCount' = IF table[key[e]] # NoExec THEN activeCount - 1 ELSE activeCount
    /\ awaited' = awaited \ {e}
    /\ IF kind[e] = "probe" /\ how = "resolved"
         THEN pc' = [pc EXCEPT ![e] = "probing"] /\ UNCHANGED answer
         ELSE /\ pc' = [pc EXCEPT ![e] = "answered"]
              /\ answer' = [answer EXCEPT ![e] = how]
    /\ UNCHANGED <<kind, key, executor, reason, aborted, daemonVars>>

\* The catch clause of #execute quarantines a sink whose disposition is not chosen.
SinkAfterError(e) == IF sink[e] = "open" THEN "discarded" ELSE sink[e]

\* An awaited step threw: the error ends the execution.
Throw(e) ==
    /\ sink' = [sink EXCEPT ![e] = SinkAfterError(e)]
    /\ Settle(e, "rejected")

----------------------------------------------------------------------------
(* The steps of #execute and of the fixed probes.                          *)

Move(e, phase) ==
    /\ pc' = [pc EXCEPT ![e] = phase]
    /\ UNCHANGED <<kind, key, executor, answer, tableVars, aborted, daemonVars, awaited>>

Created(e) ==
    /\ pc[e] = "creating"
    /\ sink' = [sink EXCEPT ![e] = "open"]
    /\ Move(e, "starting")
    /\ UNCHANGED <<accepting, reason, termination, audit>>

Started(e) ==
    /\ pc[e] = "starting"
    /\ audit' = [audit EXCEPT ![e] = @ \cup {"started"}]
    /\ Move(e, "running")
    /\ UNCHANGED <<accepting, reason, termination, sink>>

\* create() or the exec.started record failed: nothing has run.
StartFails(e) ==
    /\ pc[e] \in {"creating", "starting"}
    /\ Throw(e)
    /\ UNCHANGED <<accepting, termination, audit>>

\* How the run ended: the stop reason if there is one, else what the runner reports.
TerminationOf(e, raw) ==
    IF reason[e] # "none" THEN reason[e]
    ELSE CASE raw = "exit" -> "exit"
           [] raw = "aborted" -> "cancel"
           [] raw = "overflow" -> "output_limit"
           [] OTHER -> "spawn_error"

Publishes(t) == t \in {"exit", "output_limit"}

AfterRun(e, t) ==
    IF kind[e] = "probe" THEN "completing"
    ELSE IF Publishes(t) THEN "finalizing"
    ELSE IF t \in StopReasons THEN "cancelling" ELSE "completing"

\* executor.run() resolves (exit, aborted) or rejects (overflow, spawn_error).
RunEnds(e, raw) ==
    /\ pc[e] = "running"
    /\ termination' = [termination EXCEPT ![e] = TerminationOf(e, raw)]
    /\ reason' = [reason EXCEPT ![e] =
                    IF raw = "overflow" /\ @ = "none" THEN "output_limit" ELSE @]
    /\ accepting' = accepting \ {e}
    /\ sink' = [sink EXCEPT ![e] =
                  IF @ = "open" /\ ~Publishes(TerminationOf(e, raw)) THEN "discarded" ELSE @]
    /\ Move(e, AfterRun(e, TerminationOf(e, raw)))
    /\ UNCHANGED audit

\* executor.run() rejects with an error that is not an execution error.
RunFails(e) ==
    /\ pc[e] = "running"
    /\ accepting' = accepting \ {e}
    /\ Throw(e)
    /\ UNCHANGED <<termination, audit>>

Finalized(e) ==
    /\ pc[e] = "finalizing"
    /\ sink' = [sink EXCEPT ![e] = "published"]
    /\ Move(e, IF termination[e] \in StopReasons THEN "cancelling" ELSE "completing")
    /\ UNCHANGED <<accepting, reason, termination, audit>>

CancelAudited(e) ==
    /\ pc[e] = "cancelling"
    /\ audit' = [audit EXCEPT ![e] = @ \cup {"cancelled"}]
    /\ Move(e, "completing")
    /\ UNCHANGED <<accepting, reason, termination, sink>>

\* finalize() or a closing audit record failed.
EndFails(e) ==
    /\ pc[e] \in {"finalizing", "cancelling", "completing"}
    /\ Throw(e)
    /\ UNCHANGED <<accepting, termination, audit>>

\* Mutant: the result is returned without waiting for exec.completed.
CompletionAudit(e) == audit

CompletedAudit(e) == [audit EXCEPT ![e] = @ \cup {"completed"}]

CompleteAudited(e) ==
    /\ pc[e] = "completing"
    /\ audit' = CompletedAudit(e)
    /\ Settle(e, "resolved")
    /\ UNCHANGED <<accepting, termination, sink>>

\* inspect() and dockerPreflight() write probe.completed after the execution left
\* the table, then resolve or, like the record's failure, reject.
ProbeEnds(e, how) ==
    /\ pc[e] = "probing"
    /\ pc' = [pc EXCEPT ![e] = "answered"]
    /\ answer' = [answer EXCEPT ![e] = how]
    /\ audit' = IF how = "resolved" THEN [audit EXCEPT ![e] = @ \cup {"probed"}] ELSE audit
    /\ UNCHANGED <<kind, key, executor, accepting, reason, termination, sink>>
    /\ UNCHANGED <<tableVars, aborted, daemonVars, awaited>>

----------------------------------------------------------------------------
(* Stopping executions.                                                    *)

\* #requestStop for every execution of S.
StoppedFor(S, why) ==
    [e \in Exec |-> IF e \in S \cap accepting /\ reason[e] = "none" THEN why ELSE reason[e]]

StopOnly(S, why) ==
    /\ reason' = StoppedFor(S, why)
    /\ UNCHANGED <<requestVars, accepting, termination, sink, audit, answer, tableVars>>

FiledUnder(K) == {table[k] : k \in K} \ {NoExec}

Timeout(e) ==
    /\ pc[e] = "running"
    /\ StopOnly({e}, "timeout")
    /\ UNCHANGED <<aborted, daemonVars, awaited>>

\* cancel() returns true for a registered execution that still accepts it.
Cancel(k) ==
    /\ Listening
    /\ StopOnly(FiledUnder({k}), "cancel")
    /\ UNCHANGED <<aborted, daemonVars, awaited>>

Disconnect(s) ==
    /\ StopOnly(FiledUnder({s} \X RequestIds), "cancel")
    /\ UNCHANGED <<aborted, daemonVars, awaited>>

\* TaskStore.cancel() aborts the signal; the listener cancels the execution.
CancelTask(e) ==
    /\ Listening
    /\ e \in RunningTasks \ aborted
    /\ aborted' = aborted \cup {e}
    /\ StopOnly(FiledUnder({key[e]}), "cancel")
    /\ UNCHANGED <<daemonVars, awaited>>

----------------------------------------------------------------------------
(* Reload.                                                                 *)

\* Mutant: tasks whose worker has not registered its execution are overlooked.
IdleWithoutTasks == activeCount = 0

Idle == activeCount = 0 /\ RunningTasks = {}

ReloadOnly == UNCHANGED <<requestVars, outcomeVars, tableVars, aborted, awaited>>

BeginReload ==
    /\ stage = "serving" /\ lease = "none" /\ Idle
    /\ lease' = "held"
    /\ ReloadOnly
    /\ UNCHANGED <<generation, disposed, stage>>

\* commit() succeeds, or settles the lease when the service is active or stopping.
Commit ==
    /\ lease = "held"
    /\ IF stage = "serving" /\ Idle
         THEN /\ generation < MaxGeneration
              /\ generation' = generation + 1
              /\ lease' = "committed"
         ELSE /\ lease' = "none"
              /\ UNCHANGED generation
    /\ ReloadOnly
    /\ UNCHANGED <<disposed, stage>>

\* release(), at the end of a reload or when preparing the new generation failed.
\* The daemon disposes of the previous generation before it releases.
Release ==
    /\ lease # "none"
    /\ disposed' = IF lease = "committed" THEN disposed \cup {generation - 1} ELSE disposed
    /\ lease' = "none"
    /\ ReloadOnly
    /\ UNCHANGED <<generation, stage>>

----------------------------------------------------------------------------
(* Shutdown, in the order of the daemon's stop().                          *)

Stop ==
    /\ stage = "serving"
    /\ stage' = "stopping"
    /\ ReloadOnly
    /\ UNCHANGED <<generation, lease, disposed>>

\* Closing the server disconnects every session.
CloseServer ==
    /\ stage = "stopping" /\ lease = "none"
    /\ stage' = "closed"
    /\ StopOnly(FiledUnder(Sessions \X RequestIds), "cancel")
    /\ UNCHANGED <<aborted, awaited, generation, lease, disposed>>

\* Mutant: the task store's shutdown waits without aborting the tasks.
NoTaskAborted == aborted

AllTasksAborted == aborted \cup RunningTasks

ShutdownTasks ==
    /\ stage = "closed"
    /\ stage' = "draining_tasks"
    /\ aborted' = AllTasksAborted
    /\ StopOnly(FiledUnder({"task"} \X Exec), "cancel")
    /\ UNCHANGED <<awaited, generation, lease, disposed>>

TasksDrained == RunningTasks = {}

Shutdown ==
    /\ stage = "draining_tasks" /\ TasksDrained
    /\ stage' = "draining"
    /\ lease' = "none"
    /\ awaited' = FiledUnder(Keys)
    /\ StopOnly(FiledUnder(Keys), "cancel")
    /\ UNCHANGED <<aborted, generation, disposed>>

Drained == Closing /\ awaited = {}

\* stop() disposes of the active generation once the service has drained.
DisposeActive ==
    /\ Drained
    /\ disposed' = disposed \cup {generation}
    /\ ReloadOnly
    /\ UNCHANGED <<generation, lease, stage>>

----------------------------------------------------------------------------

Steps(e) ==
    \/ RunWorker(e) \/ Created(e) \/ Started(e) \/ StartFails(e)
    \/ RunFails(e) \/ Finalized(e) \/ CancelAudited(e) \/ EndFails(e) \/ CompleteAudited(e)
    \/ \E raw \in {"exit", "aborted", "overflow", "spawn_error"} : RunEnds(e, raw)
    \/ \E how \in {"resolved", "rejected"} : ProbeEnds(e, how) \/ TransferEnds(e, how)

Next ==
    \/ \E e \in Exec :
         \/ \E kd \in {"command", "probe"}, k \in Sessions \X RequestIds : Request(e, kd, k)
         \/ StartTask(e) \/ StartTransfer(e) \/ Steps(e) \/ Timeout(e) \/ CancelTask(e)
    \/ \E k \in Sessions \X RequestIds : Cancel(k)
    \/ \E s \in Sessions : Disconnect(s)
    \/ BeginReload \/ Commit \/ Release
    \/ Stop \/ CloseServer \/ ShutdownTasks \/ Shutdown \/ DisposeActive

Spec == Init /\ [][Next]_vars

\* Awaited operations of the daemon itself settle, and so does a runner or a transfer
\* whose signal is aborted: it kills its process tree.
Settles(e) ==
    /\ pc[e] = "running" => reason[e] # "none"
    /\ pc[e] = "transferring" => e \in aborted
    /\ Steps(e)

\* stop() awaits these one after the other.
StopStep == CloseServer \/ ShutdownTasks \/ Shutdown

FairSpec ==
    /\ Spec
    /\ WF_vars(\E e \in Exec : Settles(e) \/ Timeout(e))
    /\ WF_vars(Release \/ StopStep)

----------------------------------------------------------------------------
(* Properties.                                                             *)

TypeOK ==
    /\ pc \in [Exec -> Phases]
    /\ kind \in [Exec -> {"command", "probe", "task", "transfer"}]
    /\ key \in [Exec -> Keys]
    /\ executor \in [Exec -> Nat]
    /\ accepting \in SUBSET Exec
    /\ reason \in [Exec -> StopReasons \cup {"none"}]
    /\ termination \in [Exec -> Terminations \cup {"none"}]
    /\ sink \in [Exec -> {"none", "open", "published", "discarded"}]
    /\ audit \in [Exec -> SUBSET {"started", "cancelled", "completed", "probed"}]
    /\ answer \in [Exec -> {"none", "resolved", "rejected"}]
    /\ table \in [Keys -> Exec \cup {NoExec}]
    /\ activeCount \in Nat
    /\ aborted \in SUBSET Exec
    /\ generation \in Nat
    /\ lease \in {"none", "held", "committed"}
    /\ disposed \in SUBSET Nat
    /\ stage \in Stages
    /\ awaited \in SUBSET Exec

\* The table holds exactly the executions that are under way, each under its own
\* key, the counter that enforces the concurrency limit counts them, and the limit
\* holds: whatever fails, no slot is leaked and none is freed twice.
TableExact ==
    /\ TypeOK
    /\ \A e \in Exec : pc[e] \in Filed <=> table[key[e]] = e /\ pc[e] # "new"
    /\ activeCount = Cardinality({k \in Keys : table[k] # NoExec})
    /\ activeCount <= MaxActive

\* A result is returned only when the audit trail holds its exec.started and
\* exec.completed records, and exec.cancelled for a command that was stopped; no
\* execution has a closing record without the opening one.
ResultIsAudited ==
    \A e \in Exec :
        /\ audit[e] # {} => "started" \in audit[e]
        /\ answer[e] = "resolved" /\ kind[e] # "transfer" =>
             /\ "completed" \in audit[e]
             /\ kind[e] # "probe" /\ termination[e] \in StopReasons => "cancelled" \in audit[e]

\* Output is published only for a run that ended by itself or hit its limit, and an
\* answered request never leaves its sink open, whichever step failed.
SinkDisposed ==
    \A e \in Exec :
        /\ sink[e] = "published" => termination[e] \in {"exit", "output_limit"}
        /\ pc[e] = "answered" => sink[e] # "open"

\* Whatever fails, everything an execution took is given back exactly once: its slot
\* and its key in the table (#removeExecution), and its sink, published or discarded.
GivenBack == TableExact /\ SinkDisposed

\* The abort of a task reaches its execution, also when it came before the worker
\* had registered anything that could be cancelled.
NoLostAbort ==
    \A e \in aborted : e \in accepting => reason[e] # "none"

\* No queued task, transfer or execution under way uses a runner the daemon has
\* disposed of: a reload commits only when nothing holds the previous generation.
RunnerNotDisposed ==
    \A e \in Exec : pc[e] \in Filed \cup {"queued", "transferring"} =>
        executor[e] \notin disposed

\* An accepted run can be stopped and has what it runs on: an abort is never lost
\* (startTask), a runner is never disposed of under it (beginReload, stop).
RunsAreSupported == NoLostAbort /\ RunnerNotDisposed

\* Every execution request is answered: the timeout aborts a run that does not end,
\* and an error of any step still answers.  (The timeout of a transfer is TaskStore's.)
\* A request is made once, so it is enough that again and again none is open.
EveryRequestAnswered ==
    []<>(\A e \in Exec : pc[e] \notin Filed \cup {"queued", "probing"})

\* Stopping the daemon drains the service: stop() never returns to serving.
StopDrains == []<>(stage # "serving" => Drained)

\* Nobody waits for ever: every request is answered and stop() is drained.
EverythingEnds == EveryRequestAnswered /\ StopDrains
============================================================================
