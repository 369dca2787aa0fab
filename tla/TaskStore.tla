----------------------------- MODULE TaskStore -----------------------------
(***************************************************************************)
(* The daemon's table of background tasks (src/core/task-store.ts).  Node  *)
(* runs one callback at a time, so every public method, every timer and    *)
(* every promise continuation of the store is one atomic action.  Run IDs  *)
(* are 256 random bits in the code; here they are numbers handed out in    *)
(* the order of the starts, which also is the insertion order of the Map.  *)
(***************************************************************************)
EXTENDS Naturals, FiniteSets

CONSTANTS
    MaxRetained,            \* maxRetainedTasks
    MaxConcurrent,          \* maxConcurrentTasks
    Ttl,                    \* ttlMs, in clock ticks
    MaxStarts,              \* bound: number of tasks ever started
    MaxNow,                 \* bound: last instant of the clock
    MaxChunks               \* bound: chunks a worker appends to one task

ASSUME TaskStoreAssumption ==
    /\ MaxRetained \in Nat \ {0}
    /\ MaxConcurrent \in Nat \ {0}
    /\ Ttl \in Nat \ {0}
    /\ MaxStarts \in Nat
    /\ MaxNow \in Nat
    /\ MaxChunks \in Nat

VARIABLES
    state,                  \* state[r]: task.state, "absent" when not in #tasks
    requestedStop,          \* requestedStop[r]: set together with abort()
    armed,                  \* the runs whose setTimeout of start() is pending
    finishedAt,             \* finishedAt[r]: task.finishedAtMs
    logged,                 \* logged[r]: chunks in the two rolling logs
    nextRun,                \* the next run ID
    closing,                \* #closing
    awaited,                \* the unsettled completions shutdown() awaits
    now,                    \* the clock
    told,                   \* told[r]: the last state a caller was given
    accepted                \* the runs whose cancel() answered accepted: true

taskVars == <<state, requestedStop, armed, finishedAt, logged, nextRun>>
vars == <<taskVars, closing, awaited, now, told, accepted>>

RunId == 1..MaxStarts
Terminal == {"succeeded", "failed", "timed_out", "cancelled"}
TaskStates == Terminal \cup {"running"}
Terminations ==
    {"undefined", "exit", "timeout", "cancel", "output_limit", "spawn_error"}

Retained == {r \in RunId : state[r] # "absent"}
Running == {r \in RunId : state[r] = "running"}
ExpiresAt(r) == finishedAt[r] + Ttl

Init ==
    /\ state = [r \in RunId |-> "absent"]
    /\ requestedStop = [r \in RunId |-> "none"]
    /\ armed = {}
    /\ finishedAt = [r \in RunId |-> 0]
    /\ logged = [r \in RunId |-> 0]
    /\ nextRun = 1
    /\ closing = FALSE
    /\ awaited = {}
    /\ now = 0
    /\ told = [r \in RunId |-> "none"]
    /\ accepted = {}

----------------------------------------------------------------------------
(* Housekeeping: #cleanup and #makeRetentionRoom.                          *)

Expired == {r \in RunId : state[r] \in Terminal /\ ExpiresAt(r) <= now}

\* #tasks after the runs of S are deleted from it.
Without(S) == [r \in RunId |-> IF r \in S THEN "absent" ELSE state[r]]

\* The stable sort by finishedAtMs: ties are broken by insertion order.
Before(q, r) ==
    \/ finishedAt[q] < finishedAt[r]
    \/ finishedAt[q] = finishedAt[r] /\ q < r

\* The tasks #makeRetentionRoom finds once the expired ones are gone, and the
\* terminal ones among them.
Kept == Retained \ Expired
Ended == Kept \ Running

\* Mutant: room is made only once the limit is exceeded.
ExcessLate ==
    IF Cardinality(Kept) > MaxRetained THEN Cardinality(Kept) - MaxRetained ELSE 0

\* How many of them must go before one more task fits.
Excess ==
    IF Cardinality(Kept) >= MaxRetained THEN Cardinality(Kept) + 1 - MaxRetained ELSE 0

\* S are the oldest ended tasks, as many as must go.
Evicts(S) ==
    /\ Cardinality(S) = Excess
    /\ \A q \in S, r \in Ended \ S : Before(q, r)

----------------------------------------------------------------------------
(* start()                                                                 *)

Accepting == ~closing

\* #makeRetentionRoom gives up when only running tasks are left to delete.
OnlyRunningLeft == Cardinality(Running) >= MaxRetained

StartAccepted(timed) ==
    /\ Accepting
    /\ nextRun <= MaxStarts
    /\ Cardinality(Running) < MaxConcurrent
    /\ ~OnlyRunningLeft
    /\ \E S \in SUBSET Ended :
         /\ Evicts(S)
         /\ state' = [Without(Expired \cup S) EXCEPT ![nextRun] = "running"]
    /\ armed' = IF timed THEN armed \cup {nextRun} ELSE armed
    /\ nextRun' = nextRun + 1
    /\ told' = [told EXCEPT ![nextRun] = "running"]
    /\ UNCHANGED <<requestedStop, finishedAt, logged, closing, awaited, now, accepted>>

\* EXECUTION_LIMIT_REACHED, after the housekeeping that precedes the check.
StartRefused ==
    /\ Accepting
    /\ \/ /\ Cardinality(Running) >= MaxConcurrent
          /\ state' = Without(Expired)
       \/ /\ Cardinality(Running) < MaxConcurrent
          /\ OnlyRunningLeft
          /\ state' = Without(Expired \cup Ended)
    /\ UNCHANGED <<requestedStop, armed, finishedAt, logged, nextRun>>
    /\ UNCHANGED <<closing, awaited, now, told, accepted>>

----------------------------------------------------------------------------
(* The worker: what it appends, and how its promise settles.               *)

\* Mutant: append() writes to the log of a task that has ended.
WritableAlways(r) == TRUE

Writable(r) == state[r] = "running"

\* The closure outlives the task, so it may be called after the task ended.
Append(r) ==
    /\ r < nextRun
    /\ logged[r] < MaxChunks
    /\ logged' = [logged EXCEPT ![r] = IF Writable(r) THEN @ + 1 ELSE @]
    /\ UNCHANGED <<state, requestedStop, armed, finishedAt, nextRun>>
    /\ UNCHANGED <<closing, awaited, now, told, accepted>>

stateForTermination(termination, exitZero) ==
    CASE termination = "timeout" -> "timed_out"
      [] termination = "cancel" -> "cancelled"
      [] termination = "exit" /\ exitZero -> "succeeded"
      [] termination = "undefined" -> "succeeded"
      [] OTHER -> "failed"

\* Mutant: what the worker reports wins over the reason it was stopped for.
FinalStateOfWorker(r, final) == final

\* #complete and #fail: the reason a run was stopped for wins over its result.
FinalState(r, final) ==
    IF requestedStop[r] # "none" THEN requestedStop[r] ELSE final

\* #finish and the clearTimeout of the finally clause.
Finish(r, final) ==
    /\ state[r] = "running"
    /\ state' = [state EXCEPT ![r] = FinalState(r, final)]
    /\ finishedAt' = [finishedAt EXCEPT ![r] = now]
    /\ armed' = armed \ {r}
    /\ awaited' = awaited \ {r}
    /\ UNCHANGED <<requestedStop, logged, nextRun>>
    /\ UNCHANGED <<closing, now, told, accepted>>

Complete(r) ==
    \E termination \in Terminations, exitZero \in BOOLEAN :
        Finish(r, stateForTermination(termination, exitZero))

Fail(r) == Finish(r, "failed")

\* Mutant: the last reason given wins.
StopWithLast(r, why) ==
    [requestedStop EXCEPT ![r] = IF state[r] = "running" THEN why ELSE @]

\* The first reason a running task is stopped for stands; its signal is aborted.
StopWith(r, why) ==
    [requestedStop EXCEPT ![r] =
        IF state[r] = "running" /\ @ = "none" THEN why ELSE @]

\* The timer callback of start().
TimeoutFires(r) ==
    /\ r \in armed
    /\ armed' = armed \ {r}
    /\ requestedStop' = StopWith(r, "timed_out")
    /\ UNCHANGED <<state, finishedAt, logged, nextRun>>
    /\ UNCHANGED <<closing, awaited, now, told, accepted>>

----------------------------------------------------------------------------
(* Requests by runId.  #require cleans up before it looks the task up.     *)

\* status() and tail(): a caller is told the state, or that there is no task.
Query(r) ==
    /\ state' = Without(Expired)
    /\ told' = [told EXCEPT ![r] = IF state'[r] = "absent" THEN @ ELSE state'[r]]
    /\ UNCHANGED <<requestedStop, armed, finishedAt, logged, nextRun>>
    /\ UNCHANGED <<closing, awaited, now, accepted>>

Cancel(r) ==
    /\ state' = Without(Expired)
    /\ told' = [told EXCEPT ![r] = IF state'[r] = "absent" THEN @ ELSE state'[r]]
    /\ requestedStop' = StopWith(r, "cancelled")
    /\ accepted' = IF state[r] = "running" /\ requestedStop[r] = "none"
                     THEN accepted \cup {r} ELSE accepted
    /\ UNCHANGED <<armed, finishedAt, logged, nextRun, closing, awaited, now>>

----------------------------------------------------------------------------
(* shutdown()                                                              *)

\* Mutant: shutdown() waits for the running tasks without aborting them.
NoneStopped == requestedStop

AllStopped ==
    [r \in RunId |-> IF r \in Running /\ requestedStop[r] = "none"
                       THEN "cancelled" ELSE requestedStop[r]]

Shutdown ==
    /\ ~closing
    /\ closing' = TRUE
    /\ awaited' = Running
    /\ requestedStop' = AllStopped
    /\ UNCHANGED <<state, armed, finishedAt, logged, nextRun, now, told, accepted>>

\* Promise.all(completions) has resolved.
Drained == closing /\ awaited = {}

Tick ==
    /\ now < MaxNow
    /\ now' = now + 1
    /\ UNCHANGED <<taskVars, closing, awaited, told, accepted>>

----------------------------------------------------------------------------

Next ==
    \/ \E timed \in BOOLEAN : StartAccepted(timed)
    \/ StartRefused
    \/ \E r \in RunId :
         \/ Append(r) \/ Complete(r) \/ Fail(r) \/ TimeoutFires(r)
         \/ Query(r) \/ Cancel(r)
    \/ Shutdown
    \/ Tick

Spec == Init /\ [][Next]_vars

\* A worker whose signal is aborted settles: every runner reacts to the abort by
\* killing its process tree within a bounded grace period.
AbortedWorkerSettles(r) == requestedStop[r] # "none" /\ (Complete(r) \/ Fail(r))

FairSpec == Spec /\ \A r \in RunId : WF_vars(AbortedWorkerSettles(r))

----------------------------------------------------------------------------
(* Properties.                                                             *)

TypeOK ==
    /\ state \in [RunId -> TaskStates \cup {"absent"}]
    /\ requestedStop \in [RunId -> {"none", "cancelled", "timed_out"}]
    /\ armed \in SUBSET RunId
    /\ finishedAt \in [RunId -> Nat]
    /\ logged \in [RunId -> Nat]
    /\ nextRun \in 1..(MaxStarts + 1)
    /\ closing \in BOOLEAN
    /\ awaited \in SUBSET RunId
    /\ now \in Nat
    /\ told \in [RunId -> TaskStates \cup {"none"}]
    /\ accepted \in SUBSET RunId

\* A cancel that was answered accepted: true is never contradicted by what a later
\* status reports: the run may still be running, but its only ending is "cancelled",
\* whatever the worker returns or throws and however late the timeout fires.
AcceptedCancelWins ==
    \A r \in accepted :
        /\ state[r] \in {"running", "cancelled", "absent"}
        /\ told[r] \in {"none", "running", "cancelled"}

\* Retention never costs a live task its slot, and the two limits hold together:
\* start() evicts only ended tasks, and refuses when that is not enough.
WithinLimits ==
    /\ Cardinality(Running) <= MaxConcurrent
    /\ Cardinality(Retained) <= MaxRetained

\* A task is deleted from #tasks only once it has ended: neither the TTL sweep nor
\* the eviction of start() can lose a run that is still executing remotely.
RunningNeverForgotten ==
    [][\A r \in RunId : state[r] = "running" => state'[r] # "absent"]_vars

\* Once a caller was given a terminal state, no later answer says anything else, and
\* the logs it may still read do not grow.
TerminalAnswerFinal ==
    [][\A r \in RunId : told[r] \in Terminal =>
         told'[r] = told[r] /\ logged'[r] = logged[r]]_vars

\* shutdown() terminates: the runs it awaits settle because all were aborted.
ShutdownDrains == []<>(closing => Drained)

----------------------------------------------------------------------------
(* The store implements the life of a run promised to its callers.         *)

PhaseOf(r) ==
    CASE state[r] = "running" -> "running"
      [] state[r] \in Terminal -> "ended"
      [] OTHER -> IF r < nextRun THEN "gone" ELSE "fresh"

Lifecycle == INSTANCE TaskLifecycle WITH
    Runs <- RunId,
    phase <- [r \in RunId |-> PhaseOf(r)],
    stop <- requestedStop,
    outcome <- [r \in RunId |-> IF state[r] \in Terminal THEN state[r] ELSE "none"]

\* Every step of the store, with the cleanup and the eviction folded into it, is a
\* step of the abstract life cycle.
ImplementsLifecycle == Lifecycle!Spec
============================================================================
