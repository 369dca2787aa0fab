--------------------------- MODULE GatewayDaemon ---------------------------
(***************************************************************************)
(* The life of the daemon (src/daemon/service.ts): it acquires its         *)
(* resources one by one, serves requests, replaces its generation of SSH   *)
(* runners when the configuration is reloaded, removes single targets and  *)
(* stops, giving everything back.  Any acquisition, any close and the      *)
(* audit writes may fail; work of the services runs meanwhile.             *)
(*                                                                         *)
(* A generation owns a fallback runner, a runner per routed target and a   *)
(* generated wrapper configuration (RoutingSshExecutor, GeneratedSshConfig).*)
(***************************************************************************)
EXTENDS Naturals, Sequences, FiniteSets

CONSTANTS
    Targets,                \* aliases; each has a route of its own
    MaxGenerations,         \* bound: generations prepared
    MaxFailures,            \* bound: operations that fail
    MaxUpdates,             \* bound: metadata updates
    MaxWork                 \* bound: runs and transfers under way

VARIABLES
    starting,               \* resources startGatewayDaemon has still to acquire
    acquired,               \* resources held by the daemon
    stopping,               \* what stop() does next: its remaining steps
    stopped,                \* stop() has been through all of them
    active,                 \* activeGeneration, 0 before there is one
    prepared,               \* generations prepared so far
    role,                   \* role[g]: what the daemon does with generation g
    open,                   \* open[g]: resources of g that are not closed
    routes,                 \* routes[g]: aliases with a route
    retiredRunners,         \* retiredRunners[g]: removed runners not yet closed
    execUses,               \* ExecService.#generation: generation, targets, metadata
    transferUses,           \* TransferService.#generation
    reload,                 \* reloadOperation and how far it is
    work,                   \* runs and transfers under way
    stuck,                  \* history: resources whose last close failed
    failures

vars == <<starting, acquired, stopping, stopped, active, prepared, role, open, routes,
          retiredRunners, execUses, transferUses, reload, work, stuck, failures>>

Generations == 1..MaxGenerations
GenerationResources == Targets \cup {"fallback", "wrapper"}

StartOrder == <<"lease", "identity", "generation", "audit", "services", "server">>
StopOrder == <<"reload", "server", "tasks", "services", "active", "retired", "identity",
               "audit", "lease">>

Fault == failures < MaxFailures /\ failures' = failures + 1

\* Either nothing fails, or one of S does.
Failing(S, F) == \/ F = {} /\ UNCHANGED failures
                 \/ (\E x \in S : F = {x}) /\ Fault

Unused == [gen |-> 0, targets |-> {}, label |-> 0]

Init ==
    /\ starting = StartOrder
    /\ acquired = {}
    /\ stopping = <<>> /\ stopped = FALSE
    /\ active = 0 /\ prepared = 0
    /\ role = [g \in Generations |-> "none"]
    /\ open = [g \in Generations |-> {}]
    /\ routes = [g \in Generations |-> {}]
    /\ retiredRunners = [g \in Generations |-> {}]
    /\ execUses = Unused /\ transferUses = Unused
    /\ reload = "none"
    /\ work = {}
    /\ stuck = {}
    /\ failures = 0

generationVars == <<active, prepared, role, open, routes, retiredRunners, stuck>>
useVars == <<execUses, transferUses>>
stopVars == <<stopping, stopped>>

----------------------------------------------------------------------------
(* Generations.                                                            *)

\* prepareGeneration of a configuration with the targets T.
Prepared(g, T, r) ==
    /\ prepared' = g
    /\ role' = [role EXCEPT ![g] = r]
    /\ open' = [open EXCEPT ![g] = T \cup {"fallback", "wrapper"}]
    /\ routes' = [routes EXCEPT ![g] = T]
    /\ UNCHANGED <<retiredRunners, stuck>>

\* A preparation that failed, and could not close one of the resources it had opened:
\* that is only reported.
HalfPrepared(g) ==
    /\ prepared' = g
    /\ role' = [role EXCEPT ![g] = "abandoned"]
    /\ \E x \in GenerationResources :
         /\ open' = [open EXCEPT ![g] = {x}]
         /\ stuck' = stuck \cup {<<g, x>>}
    /\ UNCHANGED <<routes, retiredRunners>>

\* RoutingSshExecutor.close and GeneratedSshConfig.remove
Closes(g) == {"fallback", "wrapper"} \cup routes[g] \cup retiredRunners[g]

\* dispose() of the generations in S: all of their resources are closed, F fail.
\* Closing again what is closed does nothing.
Disposed(S, F) ==
    /\ open' = [g \in Generations |->
         IF g \in S THEN open[g] \ {x \in Closes(g) : <<g, x>> \notin F} ELSE open[g]]
    /\ stuck' = (stuck \ {<<g, x>> : g \in S, x \in GenerationResources}) \cup F
    /\ UNCHANGED <<prepared, routes, retiredRunners>>

StillOpen(S) == {y \in S \X GenerationResources : y[2] \in open[y[1]]}
Failed(g, F) == \E x \in GenerationResources : <<g, x>> \in F

Retired == {g \in Generations : role[g] = "retired"}

\* disposeRetiredGenerations: those that could not be closed stay retired.
DisposedRetired(F) ==
    /\ Disposed(Retired, F)
    /\ role' = [g \in Generations |->
         IF g \in Retired /\ ~Failed(g, F) THEN "gone" ELSE role[g]]

----------------------------------------------------------------------------
(* Start.                                                                  *)

Acquire ==
    /\ starting # <<>> /\ stopping = <<>>
    /\ starting' = Tail(starting)
    /\ acquired' = acquired \cup {Head(starting)}
    /\ IF Head(starting) = "generation"
         THEN /\ Prepared(1, Targets, "active")
              /\ active' = 1
              /\ UNCHANGED useVars
         ELSE /\ UNCHANGED generationVars
              /\ IF Head(starting) = "services"
                   THEN /\ execUses' = [gen |-> 1, targets |-> Targets, label |-> 0]
                        /\ transferUses' = [gen |-> 1, targets |-> Targets, label |-> 0]
                   ELSE UNCHANGED useVars
    /\ UNCHANGED <<stopVars, reload, work, failures>>

\* A step of the start fails; the catch awaits stop().
StartFails ==
    /\ starting # <<>> /\ stopping = <<>> /\ Fault
    /\ starting' = <<>>
    /\ stopping' = StopOrder
    /\ \/ UNCHANGED generationVars
       \/ Head(starting) = "generation" /\ HalfPrepared(1) /\ UNCHANGED active
    /\ UNCHANGED <<acquired, stopped, useVars, reload, work>>

----------------------------------------------------------------------------
(* reload(), removeTargets() and updateMetadata().                         *)

Serving == starting = <<>> /\ stopping = <<>> /\ ~stopped

\* Mutant: only runs, not transfers, make the daemon busy.
IdleOfRuns == \A w \in work : w.kind # "run"

Idle == work = {}

\* beginReload of the service; a refused reload changes nothing.
BeginReload ==
    /\ Serving /\ reload = "none" /\ Idle
    /\ reload' = "loading"
    /\ UNCHANGED <<starting, acquired, stopVars, generationVars, useVars, work, failures>>

Prepare(T) ==
    /\ reload = "loading" /\ prepared < MaxGenerations
    /\ Prepared(prepared + 1, T, "candidate")
    /\ reload' = "prepared"
    /\ UNCHANGED <<starting, acquired, stopVars, active, useVars, work, failures>>

\* An unreadable or incompatible configuration, or a failed preparation.
PrepareFails ==
    /\ reload = "loading"
    /\ reload' = "none"
    /\ \/ UNCHANGED <<generationVars, failures>>
       \/ prepared < MaxGenerations /\ Fault /\ HalfPrepared(prepared + 1) /\ UNCHANGED active
    /\ UNCHANGED <<starting, acquired, stopVars, useVars, work>>

Candidate == prepared

\* stop() has not been called and nothing started to run since the reload began.
MayCommit == stopping = <<>> /\ Idle

\* Mutant: the generation replaced is not kept for disposal.
Forgotten == "gone"

Replaced == "retired"

Commit ==
    /\ reload = "prepared" /\ MayCommit
    /\ role' = [role EXCEPT ![Candidate] = "active", ![active] = Replaced]
    /\ active' = Candidate
    /\ execUses' = [gen |-> Candidate, targets |-> routes[Candidate], label |-> 0]
    /\ transferUses' = [gen |-> Candidate, targets |-> routes[Candidate], label |-> 0]
    /\ reload' = "retiring"
    /\ UNCHANGED <<starting, acquired, stopVars, prepared, open, routes, retiredRunners, stuck>>
    /\ UNCHANGED <<work, failures>>

\* The registry.loaded audit record fails, stop() interrupts or work has started.
Interrupted ==
    /\ reload = "prepared"
    /\ \/ Fault
       \/ ~MayCommit /\ UNCHANGED failures
    /\ reload' = "abandoning"
    /\ UNCHANGED <<starting, acquired, stopVars, generationVars, useVars, work>>

\* The candidate is disposed of once; what does not close is not tried again.
Abandon ==
    /\ reload = "abandoning"
    /\ \E F \in SUBSET StillOpen({Candidate}) :
         /\ Failing(StillOpen({Candidate}), F)
         /\ Disposed({Candidate}, F)
         /\ role' = [role EXCEPT ![Candidate] = IF F = {} THEN "gone" ELSE "abandoned"]
    /\ reload' = "none"
    /\ UNCHANGED <<starting, acquired, stopVars, active, useVars, work>>

DisposeRetired ==
    /\ reload = "retiring"
    /\ \E F \in SUBSET StillOpen(Retired) :
         Failing(StillOpen(Retired), F) /\ DisposedRetired(F)
    /\ reload' = "none"
    /\ UNCHANGED <<starting, acquired, stopVars, active, useVars, work>>

\* replaceMetadataRegistry
TransferFollows(targets, label) == [transferUses EXCEPT !.targets = targets, !.label = label]

\* removeTargets up to the first await of removeRoutes.
RemoveTargets(T) ==
    /\ Serving /\ reload = "none" /\ Idle
    /\ T # {} /\ T \subseteq execUses.targets
    /\ execUses' = [execUses EXCEPT !.targets = @ \ T]
    /\ transferUses' = TransferFollows(execUses.targets \ T, execUses.label)
    /\ routes' = [routes EXCEPT ![active] = @ \ T]
    /\ retiredRunners' = [retiredRunners EXCEPT ![active] = @ \cup (T \cap routes[active])]
    /\ reload' = "removing"
    /\ UNCHANGED <<starting, acquired, stopVars, active, prepared, role, open, stuck, work, failures>>

\* removeRoutes closes the runners of the removed targets, earlier failures included.
CloseRemoved ==
    /\ reload = "removing"
    /\ \E F \in SUBSET ({active} \X retiredRunners[active]) :
         /\ Failing({active} \X retiredRunners[active], F)
         /\ open' = [open EXCEPT ![active] = @ \ {x \in retiredRunners[active] : <<active, x>> \notin F}]
         /\ retiredRunners' = [retiredRunners EXCEPT ![active] = {x \in @ : <<active, x>> \in F}]
         /\ stuck' = (stuck \ ({active} \X retiredRunners[active])) \cup F
    /\ reload' = "none"
    /\ UNCHANGED <<starting, acquired, stopVars, active, prepared, role, routes, useVars, work>>

UpdateMetadata ==
    /\ Serving /\ reload = "none"
    /\ execUses.label < MaxUpdates
    /\ execUses' = [execUses EXCEPT !.label = @ + 1]
    /\ transferUses' = TransferFollows(execUses.targets, execUses.label + 1)
    /\ UNCHANGED <<starting, acquired, stopVars, generationVars, reload, work, failures>>

----------------------------------------------------------------------------
(* Work of the services, as the daemon sees it.                            *)

WorkOnly == UNCHANGED <<starting, acquired, stopVars, generationVars, useVars, reload, stuck, failures>>
Works(kind, use, t) == work' = work \cup {[kind |-> kind, gen |-> use.gen, target |-> t]}

\* Requests come through the server; a held reload lease refuses runs, not transfers.
StartRun(t) ==
    /\ "server" \in acquired /\ Cardinality(work) < MaxWork
    /\ reload \notin {"loading", "prepared", "abandoning", "retiring"}
    /\ t \in execUses.targets
    /\ Works("run", execUses, t)
    /\ WorkOnly

StartTransfer(t) ==
    /\ "server" \in acquired /\ Cardinality(work) < MaxWork
    /\ t \in transferUses.targets
    /\ Works("transfer", transferUses, t)
    /\ WorkOnly

WorkEnds(w) ==
    /\ w \in work
    /\ work' = work \ {w}
    /\ WorkOnly

----------------------------------------------------------------------------
(* stop()                                                                  *)

Stop ==
    /\ Serving
    /\ stopping' = StopOrder
    /\ UNCHANGED <<starting, acquired, stopped, generationVars, useVars, reload, work, failures>>

\* Mutant: work is drained before the server stops accepting it.
DrainsFirst(step) ==
    /\ step = "reload" => reload = "none"
    /\ step \in {"server", "tasks", "services"} => work = {}

\* What a step of stop() awaits before it does its own part.
Awaited(step) ==
    /\ step = "reload" => reload = "none"
    /\ step \in {"tasks", "services"} => work = {}

\* One step of stop(); its failure is collected and the next one follows.  A step
\* whose resource was never acquired does nothing.
StopStep ==
    /\ stopping # <<>> /\ Awaited(Head(stopping))
    /\ stopping' = Tail(stopping)
    /\ stopped' = (Tail(stopping) = <<>>)
    /\ acquired' = acquired \ {Head(stopping)}
    /\ LET step == Head(stopping) IN
       CASE step = "active" /\ active # 0 ->
              \E F \in SUBSET StillOpen({active}) :
                /\ Failing(StillOpen({active}), F)
                /\ Disposed({active}, F)
                /\ UNCHANGED <<active, role>>
         [] step = "retired" ->
              \E F \in SUBSET StillOpen(Retired) :
                Failing(StillOpen(Retired), F) /\ DisposedRetired(F) /\ UNCHANGED active
         [] OTHER -> UNCHANGED <<generationVars, failures>>
    /\ UNCHANGED <<starting, useVars, reload, work>>

----------------------------------------------------------------------------

Next ==
    \/ Acquire \/ StartFails
    \/ BeginReload \/ PrepareFails \/ Commit \/ Interrupted \/ Abandon \/ DisposeRetired
    \/ \E T \in SUBSET Targets : Prepare(T) \/ RemoveTargets(T)
    \/ CloseRemoved \/ UpdateMetadata
    \/ \E t \in Targets : StartRun(t) \/ StartTransfer(t)
    \/ \E w \in work : WorkEnds(w)
    \/ Stop \/ StopStep

Spec == Init /\ [][Next]_vars

\* The daemon's own operations settle, and stopping aborts the work under way.
Reloading == \/ \E T \in SUBSET Targets : Prepare(T)
             \/ PrepareFails \/ Commit \/ Interrupted \/ Abandon \/ DisposeRetired \/ CloseRemoved
FairSpec ==
    /\ Spec
    /\ WF_vars(Acquire)
    /\ WF_vars(Reloading) /\ WF_vars(StopStep)
    /\ WF_vars(\E w \in work : WorkEnds(w))

----------------------------------------------------------------------------
(* Properties.                                                             *)

TypeOK ==
    /\ acquired \subseteq {StartOrder[i] : i \in 1..Len(StartOrder)}
    /\ active \in 0..MaxGenerations /\ prepared \in 0..MaxGenerations
    /\ role \in [Generations -> {"none", "candidate", "active", "retired", "gone", "abandoned"}]
    /\ open \in [Generations -> SUBSET GenerationResources]
    /\ routes \in [Generations -> SUBSET Targets]
    /\ retiredRunners \in [Generations -> SUBSET Targets]
    /\ \A use \in {execUses, transferUses} :
         use.gen \in 0..MaxGenerations /\ use.targets \subseteq Targets /\ use.label \in 0..MaxUpdates
    /\ reload \in {"none", "loading", "prepared", "abandoning", "retiring", "removing"}
    /\ stuck \subseteq Generations \X GenerationResources
    /\ failures \in 0..MaxFailures

\* Work never runs on a runner or a wrapper file that a reload, a removal or stop()
\* has taken away under it.
WorkHasItsRunner ==
    \A w \in work : {w.target, "wrapper"} \subseteq open[w.gen]

\* Outside a step both services work with the same generation, targets and metadata.
ServicesAgree == TypeOK /\ execUses = transferUses

\* Reloads, removals, metadata updates and stop() keep what is in use: the services
\* follow together and no work loses its runner (reload, removeTargets, updateMetadata).
GenerationInUse == WorkHasItsRunner /\ ServicesAgree

\* A stopped daemon has given back everything it acquired in any generation, except
\* what failed to close the last time it was tried.
NothingLeft ==
    stopped =>
        /\ acquired \subseteq {"generation"}
        /\ \A g \in Generations : \A x \in open[g] : <<g, x>> \in stuck

\* The lease on the data directory outlives everything it protects: when it is given
\* up nothing listens, nothing runs and no reload is under way.
LeaseOutlivesAll ==
    "lease" \notin acquired =>
        "server" \notin acquired /\ work = {} /\ reload = "none" /\ StillOpen(Generations) \subseteq stuck

\* stop() leaves nothing behind and gives up the lease last (the order of its steps).
StopIsComplete == NothingLeft /\ LeaseOutlivesAll

\* Whatever is under way, stop() comes to its end.
StopEnds == []<>(stopping = <<>> \/ stopped)
============================================================================
