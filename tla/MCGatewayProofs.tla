-------------------------- MODULE MCGatewayProofs --------------------------
(***************************************************************************)
(* Proofs about what MCGateway puts side by side: the life of the daemon   *)
(* (GatewayDaemon), for any set of targets and any number of generations,  *)
(* failures, updates and runs, then the capacity of the audit log          *)
(* (AuditWriter), and the rights of clients (TargetRegistry), for any      *)
(* configuration.                                                          *)
(*                                                                         *)
(* StopsLeft measures how far stop() is.  The invariant says what holds    *)
(* from each step of stop() on (DrainInv), what the daemon owes to every   *)
(* generation it ever prepared (GenerationInv), and that the services use  *)
(* the active one (UseInv).                                                *)
(***************************************************************************)
EXTENDS MCGateway, SequenceTheorems, TLAPS

\* Steps of stop() still to be taken; one more before it is called.
StopsLeft == IF stopped THEN 0 ELSE IF stopping = <<>> THEN 10 ELSE Len(stopping)

\* Steps of the start still to be taken.
StartsLeft == Len(starting)

StepNames == {"lease", "identity", "generation", "audit", "services", "server",
              "reload", "tasks", "active", "retired"}

\* What is left of the start and of the stop is the end of their order.
SequenceInv ==
    /\ starting \in Seq(StepNames) /\ Len(starting) <= 6
    /\ \A i \in 1..Len(starting) : starting[i] = Daemon!StartOrder[6 - Len(starting) + i]
    /\ stopping \in Seq(StepNames) /\ Len(stopping) <= 9
    /\ \A i \in 1..Len(stopping) : stopping[i] = Daemon!StopOrder[9 - Len(stopping) + i]
    /\ stopped \in BOOLEAN
    /\ stopped => stopping = <<>>
    /\ StopsLeft < 10 => starting = <<>>

\* How far the start is.
StartInv ==
    /\ StartsLeft \in 1..5 => "lease" \in acquired
    /\ StartsLeft >= 4 => prepared = 0 /\ active = 0
    /\ StartsLeft \in 1..3 => active = 1
    /\ StartsLeft >= 2 => execUses.gen = 0
    /\ StartsLeft = 1 => execUses.gen = active
    /\ "server" \in acquired => StartsLeft = 0

\* While the daemon serves or something is reloaded, it has all it needs.
ServeInv ==
    (StartsLeft = 0 /\ StopsLeft = 10) \/ reload # "none" =>
        StartsLeft = 0 /\ "lease" \in acquired /\ active # 0 /\ execUses.gen = active

\* What each step of stop() leaves behind for good.
DrainInv ==
    /\ StopsLeft <= 8 => reload = "none"
    /\ StopsLeft <= 7 => "server" \notin acquired
    /\ StopsLeft <= 6 => work = {}
    /\ StopsLeft <= 5 => "services" \notin acquired
    /\ StopsLeft <= 2 => "identity" \notin acquired
    /\ StopsLeft <= 1 => "audit" \notin acquired
    /\ StopsLeft = 0 => "lease" \notin acquired

\* Nothing was acquired yet, or nothing could be.
Pristine == acquired = {} /\ prepared = 0 /\ active = 0 /\ work = {} /\ reload = "none"

LeaseInv == "lease" \notin acquired => StopsLeft = 0 \/ Pristine

StuckOnly(g) == \A x \in open[g] : <<g, x>> \in stuck

\* What is open of a generation, by its role.
Kept(g) ==
    /\ g > prepared => role[g] = "none"
    /\ role[g] = "none" => open[g] = {} /\ routes[g] = {} /\ retiredRunners[g] = {}
    /\ role[g] = "active" <=> g = active
    /\ role[g] = "candidate" <=> g = prepared /\ reload \in {"prepared", "abandoning"}
    /\ role[g] \in {"candidate", "active", "retired"} => open[g] \subseteq Daemon!Closes(g)
    /\ role[g] = "gone" => open[g] = {}
    /\ role[g] = "abandoned" => StuckOnly(g)
    /\ routes[g] \cap retiredRunners[g] = {}
    /\ role[g] = "candidate" \/ (role[g] = "active" /\ StopsLeft >= 5) =>
         routes[g] \cup {"wrapper"} \subseteq open[g]
    /\ role[g] = "active" /\ StopsLeft <= 4 => StuckOnly(g)
    /\ role[g] = "retired" /\ StopsLeft <= 3 => StuckOnly(g)

\* Nothing of any generation is forgotten.
GenerationInv == \A g \in Daemon!Generations : Kept(g)

\* Both services use the active generation, or none yet.
UseInv ==
    /\ execUses \in [gen : 0..MaxGenerations, targets : SUBSET Targets, label : 0..MaxUpdates]
    /\ transferUses = execUses
    /\ execUses.gen # 0 => execUses.gen = active /\ execUses.targets = routes[active]
    /\ execUses.gen = 0 => execUses.targets = {} /\ (active # 0 => routes[active] = Targets)

WorkInv ==
    \A w \in work : w.gen # 0 /\ w.gen = execUses.gen /\ w.target \in execUses.targets

IInv ==
    /\ Daemon!TypeOK /\ SequenceInv /\ StartInv /\ ServeInv /\ DrainInv /\ LeaseInv
    /\ GenerationInv /\ UseInv /\ WorkInv

----------------------------------------------------------------------------
(* The order of the start and of the stop.                                 *)

LEMMA StopHead ==
    ASSUME SequenceInv, stopping # <<>>
    PROVE  /\ Len(stopping) \in 1..9 /\ StopsLeft = Len(stopping) /\ starting = <<>>
           /\ Head(stopping) = Daemon!StopOrder[10 - Len(stopping)]
<1>1. Len(stopping) \in 1..9
  <2>1. Len(stopping) \in Nat \ {0} /\ Len(stopping) <= 9
    BY EmptySeq DEF SequenceInv
  <2>2. \A n \in Nat \ {0} : n <= 9 => n \in 1..9
    OBVIOUS
  <2> QED BY <2>1, <2>2, Zenon
<1>2. StopsLeft = Len(stopping)
  BY DEF SequenceInv, StopsLeft
<1>3. Head(stopping) = stopping[1]
  BY <1>1 DEF SequenceInv
<1>4. stopping[1] = Daemon!StopOrder[10 - Len(stopping)]
  BY <1>1 DEF SequenceInv
<1>5. starting = <<>>
  BY <1>1, <1>2 DEF SequenceInv
<1> QED BY <1>1, <1>2, <1>3, <1>4, <1>5

LEMMA StopsLeftType == SequenceInv => StopsLeft \in 0..10
<1> SUFFICES ASSUME SequenceInv PROVE StopsLeft \in 0..10
  OBVIOUS
<1>1. CASE stopping # <<>>
  <2>1. StopsLeft = Len(stopping) /\ Len(stopping) \in 1..9
    BY <1>1, StopHead
  <2>2. \A n \in 1..9 : n \in 0..10
    OBVIOUS
  <2> QED BY <2>1, <2>2
<1>2. CASE stopping = <<>>
  BY <1>2 DEF StopsLeft
<1> QED BY <1>1, <1>2

LEMMA StartHead ==
    ASSUME SequenceInv, starting # <<>>
    PROVE  /\ Len(starting) \in 1..6 /\ StopsLeft = 10
           /\ Head(starting) = Daemon!StartOrder[7 - Len(starting)]
<1>1. Len(starting) \in 1..6
  <2>1. Len(starting) \in Nat \ {0} /\ Len(starting) <= 6
    BY EmptySeq DEF SequenceInv
  <2>2. \A n \in Nat \ {0} : n <= 6 => n \in 1..6
    OBVIOUS
  <2> QED BY <2>1, <2>2, Zenon
<1>2. StopsLeft = 10
  BY DEF SequenceInv, StopsLeft
<1>3. Head(starting) = starting[1]
  BY <1>1 DEF SequenceInv
<1>4. starting[1] = Daemon!StartOrder[7 - Len(starting)]
  BY <1>1 DEF SequenceInv
<1> QED BY <1>1, <1>2, <1>3, <1>4

\* A step of stop() takes one from what is left.
LEMMA StopsOn ==
    ASSUME SequenceInv, Daemon!StopStep
    PROVE  SequenceInv' /\ StopsLeft' = StopsLeft - 1
<1>1. stopping # <<>> /\ stopping' = Tail(stopping) /\ stopped' = (Tail(stopping) = <<>>) /\ starting' = starting
  BY DEF Daemon!StopStep
<1>2. Len(stopping) \in 1..9 /\ StopsLeft = Len(stopping) /\ starting = <<>>
  BY <1>1, StopHead
<1>3. /\ Tail(stopping) \in Seq(StepNames) /\ Len(Tail(stopping)) = Len(stopping) - 1
      /\ \A i \in 1..Len(Tail(stopping)) : Tail(stopping)[i] = stopping[i + 1]
  BY <1>1, <1>2 DEF SequenceInv
<1>4. \A i \in 1..Len(stopping') : stopping'[i] = Daemon!StopOrder[9 - Len(stopping') + i]
  <2> SUFFICES ASSUME NEW i \in 1..Len(stopping') PROVE stopping'[i] = Daemon!StopOrder[9 - Len(stopping') + i]
    OBVIOUS
  <2>1. i + 1 \in 1..Len(stopping) /\ 9 - Len(stopping) + (i + 1) = 9 - Len(stopping') + i
    BY <1>1, <1>2, <1>3
  <2> QED BY <1>1, <1>3, <2>1 DEF SequenceInv
<1>5. StopsLeft' = StopsLeft - 1
  BY <1>1, <1>2, <1>3 DEF StopsLeft
<1> QED BY <1>1, <1>2, <1>3, <1>4, <1>5 DEF SequenceInv

\* A step of the start likewise.
LEMMA StartsOn ==
    ASSUME SequenceInv, Daemon!Acquire
    PROVE  SequenceInv' /\ StopsLeft' = 10 /\ StartsLeft \in 1..6 /\ StartsLeft' = StartsLeft - 1
<1>1. starting # <<>> /\ stopping = <<>> /\ starting' = Tail(starting) /\ UNCHANGED <<stopping, stopped>>
  BY DEF Daemon!Acquire, Daemon!stopVars
<1>2. Len(starting) \in 1..6 /\ StopsLeft = 10
  BY <1>1, StartHead
<1>3. /\ Tail(starting) \in Seq(StepNames) /\ Len(Tail(starting)) = Len(starting) - 1
      /\ \A i \in 1..Len(Tail(starting)) : Tail(starting)[i] = starting[i + 1]
  BY <1>1, <1>2 DEF SequenceInv
<1>4. \A i \in 1..Len(starting') : starting'[i] = Daemon!StartOrder[6 - Len(starting') + i]
  <2> SUFFICES ASSUME NEW i \in 1..Len(starting') PROVE starting'[i] = Daemon!StartOrder[6 - Len(starting') + i]
    OBVIOUS
  <2>1. i + 1 \in 1..Len(starting) /\ 6 - Len(starting) + (i + 1) = 6 - Len(starting') + i
    BY <1>1, <1>2, <1>3
  <2> QED BY <1>1, <1>3, <2>1 DEF SequenceInv
<1>5. StopsLeft' = 10
  BY <1>1, <1>2 DEF StopsLeft
<1>6. StartsLeft \in 1..6 /\ StartsLeft' = StartsLeft - 1
  BY <1>1, <1>2, <1>3 DEF StartsLeft
<1> QED BY <1>1, <1>2, <1>3, <1>4, <1>5, <1>6 DEF SequenceInv

\* The call of stop(), by a failed start or by its caller, has all of its steps to take.
LEMMA StopBegins ==
    ASSUME SequenceInv, Daemon!Stop \/ Daemon!StartFails
    PROVE  SequenceInv' /\ StopsLeft' = 9 /\ StopsLeft = 10 /\ StartsLeft' = 0
<1>1. /\ stopping = <<>> /\ stopping' = Daemon!StopOrder /\ stopped' = stopped /\ starting' = <<>>
      /\ ~stopped \/ starting # <<>>
  BY DEF Daemon!Stop, Daemon!StartFails, Daemon!Serving, Daemon!stopVars
<1>2. StopsLeft = 10 /\ ~stopped
  BY <1>1 DEF SequenceInv, StopsLeft
<1>3. /\ Daemon!StopOrder \in Seq(StepNames) /\ Len(Daemon!StopOrder) = 9 /\ Daemon!StopOrder # <<>>
  BY DEF Daemon!StopOrder, StepNames
<1>4. StopsLeft' = 9
  BY <1>1, <1>2, <1>3 DEF StopsLeft
<1>5. StartsLeft' = 0
  BY <1>1 DEF StartsLeft
<1> QED BY <1>1, <1>2, <1>3, <1>4, <1>5 DEF SequenceInv

----------------------------------------------------------------------------
(* Types, and what is disposed of.                                         *)

Generated ==
    /\ role \in [Daemon!Generations -> {"none", "candidate", "active", "retired", "gone", "abandoned"}]
    /\ open \in [Daemon!Generations -> SUBSET Daemon!GenerationResources]
    /\ routes \in [Daemon!Generations -> SUBSET Targets]
    /\ retiredRunners \in [Daemon!Generations -> SUBSET Targets]
    /\ stuck \subseteq Daemon!Generations \X Daemon!GenerationResources

\* Closing the resources of the generations in S leaves open what failed, and only there.
LEMMA DisposedEffect ==
    ASSUME Generated, NEW S \in SUBSET Daemon!Generations,
           NEW F \in SUBSET Daemon!StillOpen(S), Daemon!Disposed(S, F)
    PROVE  /\ open' \in [Daemon!Generations -> SUBSET Daemon!GenerationResources]
           /\ stuck' \subseteq Daemon!Generations \X Daemon!GenerationResources
           /\ \A g \in S : open[g] \subseteq Daemon!Closes(g) =>
                open'[g] = {x \in open[g] : <<g, x>> \in F} /\ StuckOnly(g)'
           /\ \A g \in Daemon!Generations \ S : open'[g] = open[g] /\ (StuckOnly(g) => StuckOnly(g)')
<1>1. F \subseteq S \X Daemon!GenerationResources
  BY DEF Daemon!StillOpen
<1>2. \A g \in Daemon!Generations :
        open'[g] = IF g \in S THEN open[g] \ {x \in Daemon!Closes(g) : <<g, x>> \notin F} ELSE open[g]
  BY DEF Daemon!Disposed
<1>3. stuck' = (stuck \ {<<g, x>> : g \in S, x \in Daemon!GenerationResources}) \cup F
  BY DEF Daemon!Disposed
<1>4. open' \in [Daemon!Generations -> SUBSET Daemon!GenerationResources]
  BY DEF Daemon!Disposed, Generated
<1>5. stuck' \subseteq Daemon!Generations \X Daemon!GenerationResources
  BY <1>1, <1>3 DEF Generated
<1>6. ASSUME NEW g \in S, open[g] \subseteq Daemon!Closes(g)
      PROVE  open'[g] = {x \in open[g] : <<g, x>> \in F} /\ StuckOnly(g)'
  <2>1. open'[g] = {x \in open[g] : <<g, x>> \in F}
    BY <1>2, <1>6
  <2> QED BY <1>3, <2>1 DEF StuckOnly
<1>7. ASSUME NEW g \in Daemon!Generations \ S
      PROVE  open'[g] = open[g] /\ (StuckOnly(g) => StuckOnly(g)')
  <2>1. open'[g] = open[g]
    BY <1>2
  <2>2. \A x \in open[g] : <<g, x>> \in stuck => <<g, x>> \in stuck'
    BY <1>3
  <2> QED BY <2>1, <2>2 DEF StuckOnly
<1> QED BY <1>4, <1>5, <1>6, <1>7

LEMMA PreparedTypes ==
    ASSUME Generated, NEW g \in Daemon!Generations, NEW T \in SUBSET Targets,
           NEW r \in {"candidate", "active"}, Daemon!Prepared(g, T, r)
    PROVE  Generated'
BY DEF Generated, Daemon!Prepared, Daemon!GenerationResources

LEMMA HalfPreparedTypes ==
    ASSUME Generated, NEW g \in Daemon!Generations, Daemon!HalfPrepared(g)
    PROVE  Generated'
BY DEF Generated, Daemon!HalfPrepared, Daemon!GenerationResources

\* The first generation is the daemon's first; there is room for a next one as checked.
LEMMA GenerationsAre ==
    /\ 1 \in Daemon!Generations /\ 1 \in 0..MaxGenerations
    /\ \A g \in Daemon!Generations : g \in 0..MaxGenerations
    /\ Daemon!Generations \subseteq Nat
    /\ \A g \in 0..MaxGenerations : g < MaxGenerations => g + 1 \in Daemon!Generations /\ g + 1 \in 0..MaxGenerations
    /\ \A g \in 0..MaxGenerations : g # 0 => g \in Daemon!Generations
BY DaemonAssumption DEF Daemon!Generations

LEMMA StepGenerated ==
    ASSUME IInv, Daemon!Next
    PROVE  Generated'
<1> USE DEF Daemon!generationVars, Daemon!useVars, Daemon!stopVars
<1>0. Generated /\ prepared \in 0..MaxGenerations /\ active \in 0..MaxGenerations
  BY DEF IInv, Daemon!TypeOK, Generated
<1>1. CASE Daemon!Acquire
  <2>1. Daemon!Prepared(1, Targets, "active") \/ UNCHANGED <<role, open, routes, retiredRunners, stuck>>
    BY <1>1 DEF Daemon!Acquire
  <2>2. CASE Daemon!Prepared(1, Targets, "active")
    BY <1>0, <2>2, PreparedTypes, GenerationsAre
  <2> QED BY <1>0, <2>1, <2>2 DEF Generated
<1>2. CASE Daemon!StartFails
  <2>1. Daemon!HalfPrepared(1) \/ UNCHANGED <<role, open, routes, retiredRunners, stuck>>
    BY <1>2 DEF Daemon!StartFails
  <2> QED BY <1>0, <2>1, HalfPreparedTypes, GenerationsAre DEF Generated
<1>3. ASSUME NEW T \in SUBSET Targets, Daemon!Prepare(T) PROVE Generated'
  <2>1. prepared + 1 \in Daemon!Generations
    BY <1>0, <1>3, GenerationsAre DEF Daemon!Prepare
  <2>2. Daemon!Prepared(prepared + 1, T, "candidate")
    BY <1>3 DEF Daemon!Prepare
  <2> QED BY <1>0, <2>1, <2>2, PreparedTypes
<1>4. CASE Daemon!PrepareFails
  <2>1. CASE UNCHANGED Daemon!generationVars
    BY <1>0, <2>1 DEF Generated
  <2>2. CASE prepared < MaxGenerations /\ Daemon!HalfPrepared(prepared + 1)
    BY <1>0, <2>2, HalfPreparedTypes, GenerationsAre
  <2> QED BY <1>4, <2>1, <2>2 DEF Daemon!PrepareFails
<1>5. CASE Daemon!Commit
  <2>1. role' = [role EXCEPT ![prepared] = "active", ![active] = "retired"]
    BY <1>5 DEF Daemon!Commit, Daemon!Candidate, Daemon!Replaced
  <2> QED BY <1>0, <1>5, <2>1 DEF Daemon!Commit, Generated
<1>6. CASE Daemon!Abandon
  <2>1. prepared \in Daemon!Generations
    <3>1. execUses.gen = active /\ active # 0
      BY <1>6 DEF Daemon!Abandon, IInv, ServeInv
    <3>2. prepared # 0
      BY <1>0, <3>1, GenerationsAre, DaemonAssumption DEF IInv, GenerationInv, Kept, Daemon!TypeOK
    <3> QED BY <1>0, <3>2, GenerationsAre
  <2>2. PICK F \in SUBSET Daemon!StillOpen({prepared}) :
          /\ Daemon!Disposed({prepared}, F)
          /\ role' = [role EXCEPT ![prepared] = IF F = {} THEN "gone" ELSE "abandoned"]
    BY <1>6 DEF Daemon!Abandon, Daemon!Candidate
  <2>3. /\ open' \in [Daemon!Generations -> SUBSET Daemon!GenerationResources]
        /\ stuck' \subseteq Daemon!Generations \X Daemon!GenerationResources
    BY <1>0, <2>1, <2>2, DisposedEffect
  <2> QED BY <1>0, <2>1, <2>2, <2>3 DEF Generated, Daemon!Disposed
<1>7. ASSUME NEW F \in SUBSET Daemon!StillOpen(Daemon!Retired), Daemon!DisposedRetired(F) PROVE Generated'
  <2>1. Daemon!Retired \in SUBSET Daemon!Generations /\ Daemon!Disposed(Daemon!Retired, F)
    BY <1>7 DEF Daemon!Retired, Daemon!DisposedRetired
  <2>2. /\ open' \in [Daemon!Generations -> SUBSET Daemon!GenerationResources]
        /\ stuck' \subseteq Daemon!Generations \X Daemon!GenerationResources
    BY <1>0, <2>1, DisposedEffect
  <2> QED BY <1>0, <1>7, <2>1, <2>2 DEF Generated, Daemon!Disposed, Daemon!DisposedRetired
<1>8. ASSUME NEW T \in SUBSET Targets, Daemon!RemoveTargets(T) PROVE Generated'
  <2>1. /\ routes' = [routes EXCEPT ![active] = @ \ T]
        /\ retiredRunners' = [retiredRunners EXCEPT ![active] = @ \cup (T \cap routes[active])]
        /\ UNCHANGED <<role, open, stuck>>
    BY <1>8 DEF Daemon!RemoveTargets
  <2> QED BY <1>0, <2>1 DEF Generated
<1>9. CASE Daemon!CloseRemoved
  <2>1. active \in Daemon!Generations
    BY <1>0, <1>9, GenerationsAre DEF Daemon!CloseRemoved, IInv, ServeInv
  <2>2. PICK F \in SUBSET ({active} \X retiredRunners[active]) :
          /\ open' = [open EXCEPT ![active] = @ \ {x \in retiredRunners[active] : <<active, x>> \notin F}]
          /\ retiredRunners' = [retiredRunners EXCEPT ![active] = {x \in @ : <<active, x>> \in F}]
          /\ stuck' = (stuck \ ({active} \X retiredRunners[active])) \cup F
    BY <1>9 DEF Daemon!CloseRemoved
  <2>3. stuck' \subseteq Daemon!Generations \X Daemon!GenerationResources
    BY <1>0, <2>1, <2>2 DEF Generated, Daemon!GenerationResources
  <2>4. UNCHANGED <<role, routes>>
    BY <1>9 DEF Daemon!CloseRemoved
  <2> QED BY <1>0, <2>1, <2>2, <2>3, <2>4 DEF Generated
<1>10. CASE Daemon!DisposeRetired
  BY <1>7, <1>10 DEF Daemon!DisposeRetired
<1>11. CASE Daemon!StopStep
  <2>1. CASE Head(stopping) = "active" /\ active # 0
    <3>1. PICK F \in SUBSET Daemon!StillOpen({active}) : Daemon!Disposed({active}, F) /\ UNCHANGED role
      BY <1>11, <2>1 DEF Daemon!StopStep
    <3>2. active \in Daemon!Generations
      BY <1>0, <2>1, GenerationsAre
    <3>3. /\ open' \in [Daemon!Generations -> SUBSET Daemon!GenerationResources]
          /\ stuck' \subseteq Daemon!Generations \X Daemon!GenerationResources
      BY <1>0, <3>1, <3>2, DisposedEffect
    <3> QED BY <1>0, <3>1, <3>3 DEF Generated, Daemon!Disposed
  <2>2. CASE Head(stopping) = "retired"
    BY <1>7, <1>11, <2>2 DEF Daemon!StopStep
  <2>3. CASE ~(Head(stopping) = "active" /\ active # 0) /\ Head(stopping) # "retired"
    BY <1>0, <1>11, <2>3 DEF Daemon!StopStep, Generated
  <2> QED BY <2>1, <2>2, <2>3
<1>12. CASE UNCHANGED <<role, open, routes, retiredRunners, stuck>>
  BY <1>0, <1>12 DEF Generated
<1>13. CASE \/ Daemon!BeginReload \/ Daemon!Interrupted \/ Daemon!UpdateMetadata \/ Daemon!Stop
            \/ \E t \in Targets : Daemon!StartRun(t) \/ Daemon!StartTransfer(t)
            \/ \E w \in work : Daemon!WorkEnds(w)
  BY <1>12, <1>13 DEF Daemon!BeginReload, Daemon!Interrupted, Daemon!UpdateMetadata, Daemon!Stop,
       Daemon!StartRun, Daemon!StartTransfer, Daemon!WorkEnds, Daemon!WorkOnly
<1> QED
  BY <1>1, <1>2, <1>3, <1>4, <1>5, <1>6, <1>8, <1>9, <1>10, <1>11, <1>13 DEF Daemon!Next

----------------------------------------------------------------------------
(* The control of the daemon.                                              *)

LEMMA OrderNames ==
    /\ Daemon!StartOrder[1] = "lease" /\ Daemon!StartOrder[2] = "identity" /\ Daemon!StartOrder[3] = "generation"
    /\ Daemon!StartOrder[4] = "audit" /\ Daemon!StartOrder[5] = "services" /\ Daemon!StartOrder[6] = "server"
    /\ Daemon!StopOrder[1] = "reload" /\ Daemon!StopOrder[2] = "server" /\ Daemon!StopOrder[3] = "tasks"
    /\ Daemon!StopOrder[4] = "services" /\ Daemon!StopOrder[5] = "active" /\ Daemon!StopOrder[6] = "retired"
    /\ Daemon!StopOrder[7] = "identity" /\ Daemon!StopOrder[8] = "audit" /\ Daemon!StopOrder[9] = "lease"
BY DEF Daemon!StartOrder, Daemon!StopOrder

\* The step of stop() that is next, by how many are left.
LEMMA StopNow ==
    ASSUME SequenceInv, Daemon!StopStep
    PROVE  /\ StopsLeft \in 1..9 /\ StartsLeft = 0 /\ StartsLeft' = 0
           /\ acquired' = acquired \ {Head(stopping)} /\ Daemon!Awaited(Head(stopping))
           /\ StopsLeft = 9 <=> Head(stopping) = "reload"
           /\ StopsLeft = 8 <=> Head(stopping) = "server"
           /\ StopsLeft = 7 <=> Head(stopping) = "tasks"
           /\ StopsLeft = 6 <=> Head(stopping) = "services"
           /\ StopsLeft = 5 <=> Head(stopping) = "active"
           /\ StopsLeft = 4 <=> Head(stopping) = "retired"
           /\ StopsLeft = 3 <=> Head(stopping) = "identity"
           /\ StopsLeft = 2 <=> Head(stopping) = "audit"
           /\ StopsLeft = 1 <=> Head(stopping) = "lease"
           /\ UNCHANGED <<execUses, transferUses, reload, work, active, prepared>>
<1>1. /\ stopping # <<>> /\ acquired' = acquired \ {Head(stopping)} /\ Daemon!Awaited(Head(stopping))
      /\ UNCHANGED <<starting, execUses, transferUses, reload, work>>
  BY DEF Daemon!StopStep, Daemon!useVars
<1>2. /\ Len(stopping) \in 1..9 /\ StopsLeft = Len(stopping) /\ starting = <<>>
      /\ Head(stopping) = Daemon!StopOrder[10 - Len(stopping)]
  BY <1>1, StopHead
<1>3. UNCHANGED <<active, prepared>>
  BY DEF Daemon!StopStep, Daemon!Disposed, Daemon!DisposedRetired, Daemon!generationVars
<1>4. \A n \in 1..9 : n = 9 \/ n = 8 \/ n = 7 \/ n = 6 \/ n = 5 \/ n = 4 \/ n = 3 \/ n = 2 \/ n = 1
  OBVIOUS
<1>5. StopsLeft \in 1..9 /\ Head(stopping) = Daemon!StopOrder[10 - StopsLeft]
  BY <1>2
<1>6. /\ StopsLeft = 9 => Head(stopping) = "reload"
      /\ StopsLeft = 8 => Head(stopping) = "server"
      /\ StopsLeft = 7 => Head(stopping) = "tasks"
      /\ StopsLeft = 6 => Head(stopping) = "services"
      /\ StopsLeft = 5 => Head(stopping) = "active"
      /\ StopsLeft = 4 => Head(stopping) = "retired"
      /\ StopsLeft = 3 => Head(stopping) = "identity"
      /\ StopsLeft = 2 => Head(stopping) = "audit"
      /\ StopsLeft = 1 => Head(stopping) = "lease"
  BY <1>5, OrderNames
<1>7. StartsLeft = 0 /\ StartsLeft' = 0
  BY <1>1, <1>2 DEF StartsLeft
<1> QED BY <1>1, <1>2, <1>3, <1>4, <1>5, <1>6, <1>7

\* The step of the start that is next.
LEMMA StartNow ==
    ASSUME SequenceInv
    PROVE  /\ StartsLeft \in 0..6
           /\ starting = <<>> <=> StartsLeft = 0
           /\ starting # <<>> =>
                /\ StopsLeft = 10
                /\ StartsLeft = 6 <=> Head(starting) = "lease"
                /\ StartsLeft = 5 <=> Head(starting) = "identity"
                /\ StartsLeft = 4 <=> Head(starting) = "generation"
                /\ StartsLeft = 3 <=> Head(starting) = "audit"
                /\ StartsLeft = 2 <=> Head(starting) = "services"
                /\ StartsLeft = 1 <=> Head(starting) = "server"
<1>1. CASE starting = <<>>
  BY <1>1 DEF StartsLeft
<1>2. CASE starting # <<>>
  <2>1. Len(starting) \in 1..6 /\ StopsLeft = 10 /\ Head(starting) = Daemon!StartOrder[7 - Len(starting)]
    BY <1>2, StartHead
  <2>2. \A n \in 1..6 : (n = 6 \/ n = 5 \/ n = 4 \/ n = 3 \/ n = 2 \/ n = 1) /\ n \in 0..6 /\ n # 0
    OBVIOUS
  <2>3. PICK n \in 1..6 : n = StartsLeft
    BY <2>1 DEF StartsLeft
  <2>4. Head(starting) = Daemon!StartOrder[7 - n]
    BY <2>1, <2>3 DEF StartsLeft
  <2>5. /\ n = 6 => Head(starting) = "lease"
        /\ n = 5 => Head(starting) = "identity"
        /\ n = 4 => Head(starting) = "generation"
        /\ n = 3 => Head(starting) = "audit"
        /\ n = 2 => Head(starting) = "services"
        /\ n = 1 => Head(starting) = "server"
    BY <2>4, OrderNames
  <2> QED BY <1>2, <2>1, <2>2, <2>3, <2>5
<1> QED BY <1>1, <1>2

ControlInv == SequenceInv /\ StartInv /\ ServeInv /\ DrainInv /\ LeaseInv

\* A step of something under way, while the daemon keeps its place in the start or the stop.
LEMMA ControlKept ==
    ASSUME ControlInv, UNCHANGED <<starting, acquired, stopping, stopped>>,
           StopsLeft \in {9, 10} /\ StartsLeft = 0 /\ "lease" \in acquired /\ active # 0 /\ execUses.gen = active,
           active' # 0, execUses'.gen = active'
    PROVE  ControlInv'
<1>1. StopsLeft' = StopsLeft /\ SequenceInv'
  BY DEF ControlInv, SequenceInv, StopsLeft
<1>2. StartsLeft' = 0
  BY DEF StartsLeft
<1>3. StartInv' /\ ServeInv'
  BY <1>2 DEF ControlInv, StartInv, ServeInv
<1> QED BY <1>1, <1>3 DEF ControlInv, DrainInv, LeaseInv

LEMMA ReloadUnderway ==
    ASSUME ControlInv, reload # "none"
    PROVE  StopsLeft \in {9, 10} /\ StartsLeft = 0 /\ "lease" \in acquired /\ active # 0 /\ execUses.gen = active
<1>1. StopsLeft \in 0..10
  BY StopsLeftType DEF ControlInv
<1>2. \A n \in 0..10 : n <= 8 \/ n \in {9, 10}
  OBVIOUS
<1> QED BY <1>1, <1>2 DEF ControlInv, DrainInv, ServeInv

LEMMA ServingNow ==
    ASSUME ControlInv, Daemon!Serving
    PROVE  StopsLeft = 10 /\ StartsLeft = 0 /\ "lease" \in acquired /\ active # 0 /\ execUses.gen = active
<1>1. StopsLeft = 10 /\ StartsLeft = 0
  BY DEF Daemon!Serving, StopsLeft, StartsLeft
<1> QED BY <1>1 DEF ControlInv, ServeInv

\* A candidate is the generation prepared last.
LEMMA CandidateIs ==
    ASSUME IInv, reload \in {"prepared", "abandoning"}
    PROVE  /\ prepared \in Daemon!Generations /\ role[prepared] = "candidate"
           /\ active \in Daemon!Generations /\ role[active] = "active" /\ active # prepared
           /\ active \in Nat /\ prepared # 0
<1>1. active # 0 /\ active \in 0..MaxGenerations /\ prepared \in 0..MaxGenerations
  BY DEF IInv, ServeInv, Daemon!TypeOK
<1>2. active \in Daemon!Generations /\ role[active] = "active"
  BY <1>1, GenerationsAre DEF IInv, GenerationInv, Kept
<1>3. ~(active > prepared)
  BY <1>2 DEF IInv, GenerationInv, Kept
<1>4. prepared # 0
  BY <1>1, <1>3, DaemonAssumption
<1>5. prepared \in Daemon!Generations
  BY <1>1, <1>4, GenerationsAre
<1>6. role[prepared] = "candidate"
  BY <1>5 DEF IInv, GenerationInv, Kept
<1> QED BY <1>1, <1>2, <1>4, <1>5, <1>6, GenerationsAre

LEMMA StepControl ==
    ASSUME IInv, Daemon!Next
    PROVE  ControlInv'
<1> USE DEF Daemon!generationVars, Daemon!useVars, Daemon!stopVars
<1>0. ControlInv /\ SequenceInv /\ StartInv /\ ServeInv /\ DrainInv /\ LeaseInv
  BY DEF IInv, ControlInv
<1>a. StopsLeft \in 0..10 /\ StartsLeft \in 0..6
  BY <1>0, StopsLeftType, StartNow
<1>b. ASSUME UNCHANGED <<starting, acquired, stopping, stopped, active>>, execUses'.gen = execUses.gen,
             reload # "none" \/ Daemon!Serving
      PROVE  ControlInv'
  BY <1>0, <1>b, ControlKept, ReloadUnderway, ServingNow
<1>1. CASE Daemon!Acquire
  <2>1. /\ starting # <<>> /\ acquired' = acquired \cup {Head(starting)}
        /\ UNCHANGED <<reload, work>>
    BY <1>1 DEF Daemon!Acquire
  <2>2. SequenceInv' /\ StopsLeft' = 10 /\ StartsLeft \in 1..6 /\ StartsLeft' = StartsLeft - 1
    BY <1>0, <1>1, StartsOn
  <2>3. reload = "none"
    BY <1>0, <2>2, ReloadUnderway
  <2>4. LeaseInv' /\ DrainInv'
    <3>1. "lease" \in acquired'
      BY <1>0, <2>1, <2>2, StartNow DEF StartInv
    <3> QED BY <2>2, <3>1 DEF LeaseInv, DrainInv
  <2>5. StartInv' /\ ServeInv'
    <3>1. /\ StartsLeft = 4 => active' = 1
          /\ StartsLeft # 4 => UNCHANGED <<active, prepared>>
          /\ StartsLeft = 2 => execUses'.gen = 1
          /\ StartsLeft # 2 => UNCHANGED execUses
      BY <1>0, <1>1, <2>1, StartNow DEF Daemon!Acquire
    <3>2. \A x : x \in acquired' => x \in acquired \/ x = Head(starting)
      BY <2>1
    <3>3. "lease" \in acquired'
      BY <1>0, <2>1, <2>2, StartNow DEF StartInv
    <3>4. "server" \in acquired' => StartsLeft = 1
      BY <1>0, <2>1, <2>2, <3>2, StartNow DEF StartInv
    <3>5. StartInv'
      BY <1>0, <2>2, <3>1, <3>3, <3>4 DEF StartInv
    <3>6. StartsLeft' = 0 => active' # 0 /\ execUses'.gen = active'
      BY <1>0, <2>2, <3>1 DEF StartInv
    <3> QED BY <2>1, <2>2, <2>3, <3>3, <3>5, <3>6 DEF ServeInv
  <2> QED BY <2>2, <2>4, <2>5 DEF ControlInv
<1>2. CASE Daemon!StartFails
  <2>1. starting # <<>> /\ UNCHANGED <<acquired, execUses, reload, work, active>>
    BY <1>2 DEF Daemon!StartFails
  <2>2. SequenceInv' /\ StopsLeft' = 9 /\ StopsLeft = 10 /\ StartsLeft' = 0 /\ StartsLeft \in 1..6
    BY <1>0, <1>2, <2>1, StopBegins, StartNow
  <2>3. reload = "none" /\ "server" \notin acquired
    BY <1>0, <2>2, ReloadUnderway DEF StartInv
  <2>4. "lease" \notin acquired => Pristine'
    <3> SUFFICES ASSUME "lease" \notin acquired PROVE Pristine'
      OBVIOUS
    <3>1. Pristine /\ StartsLeft = 6
      BY <1>0, <2>2 DEF StartInv, LeaseInv
    <3>2. prepared' = prepared
      BY <1>0, <1>2, <2>1, <3>1, StartNow DEF Daemon!StartFails
    <3> QED BY <2>1, <3>1, <3>2 DEF Pristine
  <2>5. LeaseInv'
    BY <2>1, <2>4 DEF LeaseInv
  <2> QED BY <2>1, <2>2, <2>3, <2>5 DEF ControlInv, StartInv, ServeInv, DrainInv
<1>3. CASE Daemon!BeginReload \/ Daemon!UpdateMetadata \/ \E T \in SUBSET Targets : Daemon!RemoveTargets(T)
  <2>1. UNCHANGED <<starting, acquired, stopping, stopped, active>> /\ Daemon!Serving
    BY <1>3 DEF Daemon!BeginReload, Daemon!UpdateMetadata, Daemon!RemoveTargets
  <2>2. execUses'.gen = execUses.gen
    BY <1>3 DEF Daemon!BeginReload, Daemon!UpdateMetadata, Daemon!RemoveTargets, IInv, UseInv
  <2> QED BY <1>b, <2>1, <2>2
<1>4. CASE \/ Daemon!PrepareFails \/ Daemon!Interrupted \/ Daemon!Abandon \/ Daemon!DisposeRetired
           \/ Daemon!CloseRemoved \/ \E T \in SUBSET Targets : Daemon!Prepare(T)
  <2>1. UNCHANGED <<starting, acquired, stopping, stopped, execUses>> /\ reload # "none"
    BY <1>4 DEF Daemon!PrepareFails, Daemon!Interrupted, Daemon!Abandon, Daemon!DisposeRetired,
         Daemon!CloseRemoved, Daemon!Prepare
  <2>2. active' = active
    BY <1>4 DEF Daemon!PrepareFails, Daemon!Interrupted, Daemon!Abandon, Daemon!DisposeRetired,
         Daemon!CloseRemoved, Daemon!Prepare
  <2> QED BY <1>b, <2>1, <2>2
<1>5. CASE Daemon!Commit
  <2>1. UNCHANGED <<starting, acquired, stopping, stopped>> /\ reload # "none"
    BY <1>5 DEF Daemon!Commit
  <2>2. active' = prepared /\ execUses'.gen = prepared
    BY <1>5 DEF Daemon!Commit, Daemon!Candidate
  <2>3. prepared # 0
    BY CandidateIs, <1>5 DEF Daemon!Commit
  <2> QED BY <1>0, <2>1, <2>2, <2>3, ControlKept, ReloadUnderway
<1>6. CASE Daemon!Stop
  <2>1. SequenceInv' /\ StopsLeft' = 9 /\ StopsLeft = 10 /\ StartsLeft' = 0
    BY <1>0, <1>6, StopBegins
  <2>2. UNCHANGED <<acquired, execUses, reload, work, active, prepared>> /\ Daemon!Serving
    BY <1>6 DEF Daemon!Stop
  <2>3. StartsLeft = 0 /\ "lease" \in acquired /\ active # 0 /\ execUses.gen = active
    BY <1>0, <2>2, ServingNow
  <2> QED BY <2>1, <2>2, <2>3 DEF ControlInv, StartInv, ServeInv, DrainInv, LeaseInv
<1>7. CASE \E t \in Targets : Daemon!StartRun(t) \/ Daemon!StartTransfer(t)
  <2>1. UNCHANGED <<starting, acquired, stopping, stopped, execUses, reload, active, prepared>> /\ "server" \in acquired
    BY <1>7 DEF Daemon!StartRun, Daemon!StartTransfer, Daemon!WorkOnly
  <2>2. UNCHANGED <<StopsLeft, StartsLeft>> /\ SequenceInv'
    BY <1>0, <2>1 DEF StopsLeft, StartsLeft, SequenceInv
  <2>3. ~(StopsLeft <= 7) /\ ~(StopsLeft <= 6) /\ StopsLeft # 0
    BY <1>0, <1>a, <2>1 DEF DrainInv
  <2>4. "lease" \in acquired
    BY <1>0, <2>1, <2>3 DEF LeaseInv, Pristine
  <2> QED BY <1>0, <2>1, <2>2, <2>3, <2>4 DEF ControlInv, StartInv, ServeInv, DrainInv, LeaseInv
<1>8. ASSUME NEW w \in work, Daemon!WorkEnds(w) PROVE ControlInv'
  <2>1. /\ UNCHANGED <<starting, acquired, stopping, stopped, execUses, reload, active, prepared>>
        /\ work' \subseteq work
    BY <1>8 DEF Daemon!WorkEnds, Daemon!WorkOnly
  <2>2. UNCHANGED <<StopsLeft, StartsLeft>> /\ SequenceInv'
    BY <1>0, <2>1 DEF StopsLeft, StartsLeft, SequenceInv
  <2>3. (StopsLeft <= 6 => work' = {}) /\ (work = {} => work' = {})
    BY <1>0, <2>1 DEF DrainInv
  <2> QED BY <1>0, <2>1, <2>2, <2>3 DEF ControlInv, StartInv, ServeInv, DrainInv, LeaseInv, Pristine
<1>9. CASE Daemon!StopStep
  <2>1. /\ StopsLeft \in 1..9 /\ StartsLeft = 0 /\ StartsLeft' = 0
        /\ acquired' = acquired \ {Head(stopping)} /\ Daemon!Awaited(Head(stopping))
        /\ UNCHANGED <<execUses, reload, work, active, prepared>>
    BY <1>0, <1>9, StopNow
  <2>2. SequenceInv' /\ StopsLeft' = StopsLeft - 1
    BY <1>0, <1>9, StopsOn
  <2>3. (StopsLeft = 9 => reload = "none") /\ (StopsLeft = 7 => work = {})
    BY <1>0, <1>9, <2>1, StopNow DEF Daemon!Awaited
  <2>4. /\ StopsLeft = 8 => "server" \notin acquired'
        /\ StopsLeft = 6 => "services" \notin acquired'
        /\ StopsLeft = 3 => "identity" \notin acquired'
        /\ StopsLeft = 2 => "audit" \notin acquired'
        /\ StopsLeft = 1 => "lease" \notin acquired'
    BY <1>0, <1>9, <2>1, StopNow
  <2>5. DrainInv'
    BY <1>0, <2>1, <2>2, <2>3, <2>4 DEF DrainInv
  <2>6. StopsLeft > 1 => ("lease" \in acquired' <=> "lease" \in acquired)
    BY <1>0, <1>9, <2>1, StopNow
  <2>7. LeaseInv'
    BY <1>0, <2>1, <2>2, <2>6 DEF LeaseInv, Pristine
  <2>8. ServeInv'
    BY <1>0, <2>1, <2>2, <2>3, <2>6 DEF ServeInv, DrainInv
  <2> QED BY <1>0, <2>1, <2>2, <2>5, <2>7, <2>8 DEF ControlInv, StartInv
<1> QED BY <1>1, <1>2, <1>3, <1>4, <1>5, <1>6, <1>7, <1>8, <1>9 DEF Daemon!Next

----------------------------------------------------------------------------
(* What the services use.                                                  *)

LEMMA StepUse ==
    ASSUME IInv, Daemon!Next
    PROVE  UseInv' /\ WorkInv'
<1> USE DEF Daemon!generationVars, Daemon!useVars, Daemon!stopVars
<1>0. /\ UseInv /\ WorkInv /\ ControlInv /\ Generated /\ SequenceInv
      /\ active \in 0..MaxGenerations /\ prepared \in 0..MaxGenerations
  BY DEF IInv, ControlInv, Daemon!TypeOK, Generated
\* Most steps leave alone what is used.
<1>a. ASSUME UNCHANGED <<execUses, transferUses, active>>, active # 0 => routes'[active] = routes[active],
             work' \subseteq work
      PROVE  UseInv' /\ WorkInv'
  BY <1>0, <1>a DEF UseInv, WorkInv
<1>1. CASE Daemon!Acquire
  <2>1. starting # <<>> /\ work' = work
    BY <1>1 DEF Daemon!Acquire
  <2>2. CASE Head(starting) = "services"
    <3>1. active = 1 /\ execUses.gen = 0 /\ work = {}
      BY <1>0, <2>1, <2>2, StartNow DEF IInv, StartInv, WorkInv
    <3>2. /\ execUses' = [gen |-> 1, targets |-> Targets, label |-> 0] /\ transferUses' = execUses'
          /\ UNCHANGED <<active, routes>>
      BY <1>1, <2>2 DEF Daemon!Acquire
    <3>3. routes[1] = Targets
      BY <1>0, <3>1 DEF UseInv
    <3>4. 1 \in 0..MaxGenerations /\ 0 \in 0..MaxUpdates
      BY GenerationsAre, DaemonAssumption
    <3> QED BY <2>1, <3>1, <3>2, <3>3, <3>4 DEF UseInv, WorkInv
  <2>3. CASE Head(starting) = "generation"
    <3>1. execUses.gen = 0
      BY <1>0, <2>1, <2>3, StartNow DEF IInv, StartInv
    <3>2. UNCHANGED <<execUses, transferUses>> /\ active' = 1 /\ routes' = [routes EXCEPT ![1] = Targets]
      BY <1>1, <2>3 DEF Daemon!Acquire, Daemon!Prepared
    <3>3. routes'[1] = Targets
      BY <1>0, <3>2, GenerationsAre DEF Generated
    <3> QED BY <1>0, <2>1, <3>1, <3>2, <3>3 DEF UseInv, WorkInv
  <2>4. CASE Head(starting) \notin {"services", "generation"}
    <3>1. UNCHANGED <<execUses, transferUses, active, routes>>
      BY <1>1, <2>4 DEF Daemon!Acquire
    <3> QED BY <1>a, <2>1, <3>1
  <2> QED BY <2>2, <2>3, <2>4
<1>2. ASSUME NEW T \in SUBSET Targets, Daemon!Prepare(T) PROVE UseInv' /\ WorkInv'
  <2>1. /\ UNCHANGED <<execUses, transferUses, active, work>> /\ routes' = [routes EXCEPT ![prepared + 1] = T]
        /\ prepared < MaxGenerations /\ reload = "loading"
    BY <1>2 DEF Daemon!Prepare, Daemon!Prepared
  <2>2. active # 0 => active # prepared + 1 /\ active \in Daemon!Generations
    <3>1. active # 0 => active \in Daemon!Generations /\ role[active] = "active"
      BY <1>0, GenerationsAre DEF IInv, GenerationInv, Kept
    <3>2. active # 0 => ~(active > prepared)
      BY <3>1 DEF IInv, GenerationInv, Kept
    <3>3. prepared \in Nat
      BY <1>0, DaemonAssumption
    <3> QED BY <3>1, <3>2, <3>3
  <2> QED BY <1>0, <1>a, <2>1, <2>2 DEF Generated
<1>3. CASE Daemon!Commit
  <2>1. /\ execUses' = [gen |-> prepared, targets |-> routes[prepared], label |-> 0] /\ transferUses' = execUses'
        /\ active' = prepared /\ routes' = routes /\ work = {} /\ work' = work /\ reload = "prepared"
    BY <1>3 DEF Daemon!Commit, Daemon!Candidate, Daemon!MayCommit, Daemon!Idle
  <2>2. prepared \in Daemon!Generations /\ prepared # 0 /\ routes[prepared] \subseteq Targets
    BY <1>0, <2>1, CandidateIs DEF Generated
  <2>3. 0 \in 0..MaxUpdates
    BY DaemonAssumption
  <2> QED BY <1>0, <2>1, <2>2, <2>3 DEF UseInv, WorkInv
<1>4. ASSUME NEW T \in SUBSET Targets, Daemon!RemoveTargets(T) PROVE UseInv' /\ WorkInv'
  <2>1. /\ execUses' = [execUses EXCEPT !.targets = @ \ T]
        /\ transferUses' = [transferUses EXCEPT !.targets = execUses.targets \ T, !.label = execUses.label]
        /\ routes' = [routes EXCEPT ![active] = @ \ T]
        /\ work = {} /\ UNCHANGED <<active, work>> /\ Daemon!Serving
    BY <1>4 DEF Daemon!RemoveTargets, Daemon!TransferFollows, Daemon!Idle
  <2>2. active # 0 /\ execUses.gen = active /\ active \in Daemon!Generations
    BY <1>0, <2>1, ServingNow, GenerationsAre
  <2>3. routes'[active] = routes[active] \ T
    BY <1>0, <2>1, <2>2 DEF Generated
  <2>4. transferUses' = execUses' /\ execUses'.gen = execUses.gen /\ execUses'.targets = execUses.targets \ T
    BY <1>0, <2>1 DEF UseInv
  <2>5. execUses' \in [gen : 0..MaxGenerations, targets : SUBSET Targets, label : 0..MaxUpdates]
    BY <1>0, <2>1 DEF UseInv
  <2> QED BY <1>0, <2>1, <2>2, <2>3, <2>4, <2>5 DEF UseInv, WorkInv
<1>5. CASE Daemon!UpdateMetadata
  <2>1. /\ execUses' = [execUses EXCEPT !.label = @ + 1] /\ execUses.label < MaxUpdates
        /\ transferUses' = [transferUses EXCEPT !.targets = execUses.targets, !.label = execUses.label + 1]
        /\ UNCHANGED <<active, routes, work>>
    BY <1>5 DEF Daemon!UpdateMetadata, Daemon!TransferFollows
  <2>2. execUses.label + 1 \in 0..MaxUpdates
    BY <1>0, <2>1, DaemonAssumption DEF UseInv
  <2>3. /\ execUses' \in [gen : 0..MaxGenerations, targets : SUBSET Targets, label : 0..MaxUpdates]
        /\ transferUses' = execUses' /\ execUses'.gen = execUses.gen /\ execUses'.targets = execUses.targets
    BY <1>0, <2>1, <2>2 DEF UseInv
  <2> QED BY <1>0, <2>1, <2>3 DEF UseInv, WorkInv
<1>6. ASSUME NEW t \in Targets, Daemon!StartRun(t) \/ Daemon!StartTransfer(t) PROVE UseInv' /\ WorkInv'
  <2>1. /\ UNCHANGED <<execUses, transferUses, active, routes>> /\ t \in execUses.targets
    BY <1>0, <1>6 DEF Daemon!StartRun, Daemon!StartTransfer, Daemon!WorkOnly, UseInv
  <2>2. PICK k \in {"run", "transfer"} : work' = work \cup {[kind |-> k, gen |-> execUses.gen, target |-> t]}
    BY <1>0, <1>6 DEF Daemon!StartRun, Daemon!StartTransfer, Daemon!Works, UseInv
  <2>3. UseInv' /\ execUses.gen # 0
    BY <1>0, <2>1 DEF UseInv
  <2> QED BY <1>0, <2>1, <2>2, <2>3 DEF WorkInv
<1>7. CASE Daemon!StopStep
  <2>1. UNCHANGED <<execUses, transferUses, active, work, routes>>
    BY <1>7 DEF Daemon!StopStep, Daemon!Disposed, Daemon!DisposedRetired
  <2> QED BY <1>a, <2>1
<1>8. CASE Daemon!StartFails \/ Daemon!PrepareFails
  BY <1>a, <1>8 DEF Daemon!StartFails, Daemon!PrepareFails, Daemon!HalfPrepared
<1>9. CASE Daemon!BeginReload \/ Daemon!Interrupted \/ Daemon!Stop \/ \E w \in work : Daemon!WorkEnds(w)
  BY <1>a, <1>9 DEF Daemon!BeginReload, Daemon!Interrupted, Daemon!Stop, Daemon!WorkEnds, Daemon!WorkOnly
<1>10. CASE Daemon!Abandon \/ Daemon!DisposeRetired \/ Daemon!CloseRemoved
  <2>1. UNCHANGED <<execUses, transferUses, active, work, routes>>
    BY <1>10 DEF Daemon!Abandon, Daemon!DisposeRetired, Daemon!CloseRemoved, Daemon!Disposed, Daemon!DisposedRetired
  <2> QED BY <1>a, <2>1
<1> QED
  BY <1>1, <1>2, <1>3, <1>4, <1>5, <1>6, <1>7, <1>8, <1>9, <1>10 DEF Daemon!Next

----------------------------------------------------------------------------
(* What becomes of the generations.                                        *)

\* A generation nothing happens to, while stop() does not close it.
LEMMA KeptCalm ==
    ASSUME NEW g \in Daemon!Generations, Kept(g), StopsLeft \in 0..10, StopsLeft' \in 0..10,
           UNCHANGED <<role[g], open[g], routes[g], retiredRunners[g]>>, StuckOnly(g) => StuckOnly(g)',
           prepared' >= prepared /\ prepared \in Nat /\ prepared' \in Nat,
           g = active <=> g = active',
           g = prepared /\ reload \in {"prepared", "abandoning"}
             <=> g = prepared' /\ reload' \in {"prepared", "abandoning"},
           role[g] = "active" => (StopsLeft' >= 5 => StopsLeft >= 5) /\ (StopsLeft' <= 4 => StopsLeft <= 4),
           role[g] = "retired" => (StopsLeft' <= 3 => StopsLeft <= 3)
    PROVE  Kept(g)'
<1>1. g \in Nat
  BY GenerationsAre
<1>2. g > prepared' => g > prepared
  BY <1>1
<1>3. Daemon!Closes(g)' = Daemon!Closes(g)
  BY DEF Daemon!Closes
<1> QED BY <1>1, <1>2, <1>3 DEF Kept

\* A generation that could be prepared only in part.
LEMMA KeptHalf ==
    ASSUME NEW g \in Daemon!Generations, Kept(g), Generated, prepared \in Nat, prepared' = g, role[g] = "none",
           Daemon!HalfPrepared(g), active' # g, reload' = "none"
    PROVE  Kept(g)'
<1>1. PICK x \in Daemon!GenerationResources :
        open' = [open EXCEPT ![g] = {x}] /\ stuck' = stuck \cup {<<g, x>>}
  BY DEF Daemon!HalfPrepared
<1>2. open'[g] = {x} /\ role'[g] = "abandoned" /\ UNCHANGED <<routes, retiredRunners>>
  BY <1>1 DEF Daemon!HalfPrepared, Generated
<1>3. StuckOnly(g)'
  BY <1>1, <1>2 DEF StuckOnly
<1>4. ~(g > prepared')
  BY GenerationsAre
<1> QED BY <1>2, <1>3, <1>4 DEF Kept

\* Those a failed preparation leaves alone.
LEMMA KeptBesideHalf ==
    ASSUME NEW g \in Daemon!Generations, NEW h \in Daemon!Generations, g # h, Generated, Daemon!HalfPrepared(h)
    PROVE  UNCHANGED <<role[g], open[g], routes[g], retiredRunners[g]>> /\ (StuckOnly(g) => StuckOnly(g)')
<1>1. PICK x \in Daemon!GenerationResources :
        open' = [open EXCEPT ![h] = {x}] /\ stuck' = stuck \cup {<<h, x>>}
  BY DEF Daemon!HalfPrepared
<1>2. UNCHANGED <<role[g], open[g], routes[g], retiredRunners[g]>>
  BY <1>1 DEF Daemon!HalfPrepared, Generated
<1> QED BY <1>1, <1>2 DEF StuckOnly

\* The retired generations are disposed of, by a reload or by stop().
LEMMA KeptDisposed ==
    ASSUME NEW g \in Daemon!Generations, Kept(g), Generated, NEW F \in SUBSET Daemon!StillOpen(Daemon!Retired),
           Daemon!DisposedRetired(F), active' = active, prepared \in Nat, StopsLeft \in 0..10, StopsLeft' \in 0..10,
           reload \notin {"prepared", "abandoning"}, reload' \notin {"prepared", "abandoning"},
           StopsLeft' >= 5 => StopsLeft >= 5,
           StopsLeft' <= 4 => StopsLeft <= 4
    PROVE  Kept(g)'
<1>1. Daemon!Retired \in SUBSET Daemon!Generations /\ Daemon!Disposed(Daemon!Retired, F)
  BY DEF Daemon!Retired, Daemon!DisposedRetired
<1>2. /\ role'[g] = IF g \in Daemon!Retired /\ ~Daemon!Failed(g, F) THEN "gone" ELSE role[g]
      /\ UNCHANGED <<routes, retiredRunners, prepared>>
  BY <1>1 DEF Daemon!DisposedRetired, Daemon!Disposed
<1>3. CASE g \in Daemon!Retired
  <2>1. role[g] = "retired" /\ open[g] \subseteq Daemon!Closes(g)
    BY <1>3 DEF Daemon!Retired, Kept
  <2>2. open'[g] = {x \in open[g] : <<g, x>> \in F} /\ StuckOnly(g)'
    BY <1>1, <1>3, <2>1, DisposedEffect
  <2>3. ~Daemon!Failed(g, F) => open'[g] = {}
    BY <2>2 DEF Daemon!Failed, Generated
  <2>4. open'[g] \subseteq Daemon!Closes(g)'
    BY <1>2, <2>1, <2>2 DEF Daemon!Closes
  <2> QED BY <1>2, <1>3, <2>1, <2>2, <2>3, <2>4 DEF Kept
<1>4. CASE g \notin Daemon!Retired
  <2>1. UNCHANGED <<role[g], open[g], routes[g], retiredRunners[g]>> /\ (StuckOnly(g) => StuckOnly(g)')
    BY <1>1, <1>2, <1>4, DisposedEffect
  <2>2. role[g] # "retired"
    BY <1>4 DEF Daemon!Retired
  <2> QED BY <1>2, <2>1, <2>2, KeptCalm
<1> QED BY <1>3, <1>4
LEMMA StepGenerations ==
    ASSUME IInv, Daemon!Next
    PROVE  GenerationInv'
<1> USE DEF Daemon!generationVars, Daemon!useVars, Daemon!stopVars
<1>0. /\ ControlInv /\ SequenceInv /\ Generated /\ Generated' /\ ControlInv' /\ SequenceInv' /\ GenerationInv
      /\ active \in 0..MaxGenerations /\ prepared \in 0..MaxGenerations
  BY StepGenerated, StepControl DEF IInv, ControlInv, Daemon!TypeOK, Generated
<1>a. /\ StopsLeft \in 0..10 /\ StopsLeft' \in 0..10 /\ StartsLeft \in 0..6
      /\ prepared \in Nat /\ active \in Nat
  <2>1. (SequenceInv => StopsLeft \in 0..10)'
    BY StopsLeftType, PTL
  <2>2. StopsLeft \in 0..10 /\ StopsLeft' \in 0..10
    BY <1>0, <2>1, StopsLeftType
  <2>3. StartsLeft \in 0..6
    BY <1>0, StartNow
  <2> QED BY <1>0, <2>2, <2>3, DaemonAssumption
<1>b. ASSUME UNCHANGED <<stopping, stopped>> PROVE StopsLeft' = StopsLeft
  BY <1>b DEF StopsLeft
<1>c. \A n \in 0..10 : n \in {9, 10} => n >= 5 /\ ~(n <= 4) /\ ~(n <= 3)
  OBVIOUS
<1> SUFFICES ASSUME NEW g \in Daemon!Generations PROVE Kept(g)'
  BY DEF GenerationInv
<1>d. Kept(g) /\ g \in Nat /\ g # 0
  BY <1>0, GenerationsAre DEF GenerationInv, Daemon!Generations
\* Most steps do nothing to any generation.
<1>e. ASSUME UNCHANGED <<active, prepared, role, open, routes, retiredRunners, stuck>>,
             reload \in {"prepared", "abandoning"} <=> reload' \in {"prepared", "abandoning"},
             StopsLeft' >= 5 => StopsLeft >= 5,
             StopsLeft' <= 4 => StopsLeft <= 4 \/ active = 0,
             StopsLeft' <= 3 => StopsLeft <= 3
      PROVE  Kept(g)'
  <2>1. role[g] = "active" => active # 0
    BY <1>d DEF Kept
  <2>2. StuckOnly(g) => StuckOnly(g)'
    BY <1>e DEF StuckOnly
  <2> QED BY <1>a, <1>d, <1>e, <2>1, <2>2, KeptCalm
<1>1. CASE Daemon!Acquire
  <2>1. starting # <<>> /\ StopsLeft = 10 /\ StopsLeft' = 10 /\ UNCHANGED reload
    BY <1>0, <1>1, StartNow, StartsOn DEF Daemon!Acquire
  <2>2. CASE Head(starting) = "generation"
    <3>1. prepared = 0 /\ active = 0 /\ reload = "none"
      BY <1>0, <2>1, <2>2, StartNow, ReloadUnderway DEF ControlInv, StartInv
    <3>2. /\ prepared' = 1 /\ active' = 1 /\ role' = [role EXCEPT ![1] = "active"]
          /\ open' = [open EXCEPT ![1] = Targets \cup {"fallback", "wrapper"}]
          /\ routes' = [routes EXCEPT ![1] = Targets] /\ UNCHANGED <<retiredRunners, stuck>>
      BY <1>1, <2>2 DEF Daemon!Acquire, Daemon!Prepared
    <3>3. role[g] = "none" /\ retiredRunners[g] = {} /\ (g # 1 => g > 1)
      BY <1>d, <3>1 DEF Kept
    <3>4. CASE g = 1
      <4>1. /\ role'[g] = "active" /\ routes'[g] = Targets /\ retiredRunners'[g] = {}
            /\ open'[g] = Targets \cup {"fallback", "wrapper"}
        BY <1>0, <3>2, <3>3, <3>4 DEF Generated
      <4>2. Daemon!Closes(g)' = open'[g]
        BY <4>1 DEF Daemon!Closes
      <4> QED BY <2>1, <3>1, <3>2, <3>4, <4>1, <4>2 DEF Kept
    <3>5. CASE g # 1
      <4>1. UNCHANGED <<role[g], open[g], routes[g], retiredRunners[g]>>
        BY <1>0, <3>2, <3>5 DEF Generated
      <4> QED BY <1>d, <2>1, <3>1, <3>2, <3>3, <3>5, <4>1 DEF Kept
    <3> QED BY <3>4, <3>5
  <2>3. CASE Head(starting) # "generation"
    BY <1>1, <1>e, <2>1, <2>3 DEF Daemon!Acquire
  <2> QED BY <2>2, <2>3
<1>2. CASE Daemon!StartFails
  <2>1. starting # <<>> /\ StopsLeft = 10 /\ StopsLeft' = 9 /\ UNCHANGED <<reload, active>>
    BY <1>0, <1>2, StopBegins DEF Daemon!StartFails
  <2>2. reload = "none" /\ StartsLeft # 0
    BY <1>0, <1>a, <2>1, ReloadUnderway, StartNow
  <2>3. CASE UNCHANGED Daemon!generationVars
    BY <1>e, <2>1, <2>2, <2>3
  <2>4. CASE Head(starting) = "generation" /\ Daemon!HalfPrepared(1)
    <3>1. prepared = 0 /\ active = 0 /\ prepared' = 1
      BY <1>0, <2>1, <2>4, StartNow DEF ControlInv, StartInv, Daemon!HalfPrepared
    <3>2. role[g] = "none"
      BY <1>d, <3>1 DEF Kept
    <3>3. CASE g = 1
      BY <1>0, <1>a, <1>d, <2>1, <2>2, <2>4, <3>1, <3>2, <3>3, KeptHalf
    <3>4. CASE g # 1
      <4>1. UNCHANGED <<role[g], open[g], routes[g], retiredRunners[g]>> /\ (StuckOnly(g) => StuckOnly(g)')
        BY <1>0, <2>4, <3>4, GenerationsAre, KeptBesideHalf
      <4> QED BY <1>a, <1>d, <2>1, <2>2, <3>1, <3>2, <4>1, KeptCalm
    <3> QED BY <3>3, <3>4
  <2> QED BY <1>2, <2>3, <2>4 DEF Daemon!StartFails
<1>3. ASSUME NEW T \in SUBSET Targets, Daemon!Prepare(T) PROVE Kept(g)'
  <2> DEFINE n == prepared + 1
  <2>1. /\ reload = "loading" /\ reload' = "prepared" /\ prepared' = n /\ UNCHANGED <<active, stuck, retiredRunners>>
        /\ role' = [role EXCEPT ![n] = "candidate"]
        /\ open' = [open EXCEPT ![n] = T \cup {"fallback", "wrapper"}]
        /\ routes' = [routes EXCEPT ![n] = T]
        /\ n \in Daemon!Generations /\ n \in Nat
    BY <1>0, <1>a, <1>3, GenerationsAre DEF Daemon!Prepare, Daemon!Prepared
  <2>2. StopsLeft' = StopsLeft
    BY <1>3, <1>b DEF Daemon!Prepare
  <2>3. CASE g = n
    <3>1. role[g] = "none" /\ retiredRunners[g] = {} /\ g # active
      BY <1>a, <1>d, <2>3 DEF Kept
    <3>2. /\ role'[g] = "candidate" /\ routes'[g] = T /\ retiredRunners'[g] = {}
          /\ open'[g] = T \cup {"fallback", "wrapper"}
      BY <1>0, <2>1, <2>3, <3>1 DEF Generated
    <3>3. Daemon!Closes(g)' = open'[g]
      BY <3>2 DEF Daemon!Closes
    <3>4. ~(g > prepared') /\ g = prepared' /\ g # active'
      BY <1>a, <2>1, <2>3, <3>1
    <3> QED BY <2>1, <3>2, <3>3, <3>4 DEF Kept
  <2>4. CASE g # n
    <3>1. UNCHANGED <<role[g], open[g], routes[g], retiredRunners[g]>>
      BY <1>0, <2>1, <2>4 DEF Generated
    <3>2. prepared' >= prepared /\ g # prepared' /\ (StuckOnly(g) => StuckOnly(g)') /\ prepared' \in Nat
      BY <1>a, <2>1, <2>4, <3>1 DEF StuckOnly
    <3> HIDE DEF n
    <3> QED BY <1>a, <1>d, <2>1, <2>2, <3>1, <3>2, KeptCalm
  <2> QED BY <2>3, <2>4
<1>4. CASE Daemon!PrepareFails
  <2>1. reload = "loading" /\ reload' = "none" /\ UNCHANGED active /\ StopsLeft' = StopsLeft
    BY <1>4, <1>b DEF Daemon!PrepareFails
  <2>2. CASE UNCHANGED Daemon!generationVars
    BY <1>e, <2>1, <2>2
  <2>3. CASE prepared < MaxGenerations /\ Daemon!HalfPrepared(prepared + 1)
    <3>1. prepared + 1 \in Daemon!Generations /\ prepared' = prepared + 1
      BY <1>0, <2>3, GenerationsAre DEF Daemon!HalfPrepared
    <3>2. CASE g = prepared + 1
      <4>1. role[g] = "none" /\ g # active
        BY <1>a, <1>d, <3>2 DEF Kept
      <4> QED BY <1>0, <1>a, <1>d, <2>1, <2>3, <3>1, <3>2, <4>1, KeptHalf
    <3>3. CASE g # prepared + 1
      <4>1. UNCHANGED <<role[g], open[g], routes[g], retiredRunners[g]>> /\ (StuckOnly(g) => StuckOnly(g)')
        BY <1>0, <2>3, <3>1, <3>3, KeptBesideHalf
      <4>2. prepared' >= prepared /\ prepared' \in Nat
        BY <1>a, <3>1
      <4> QED BY <1>a, <1>d, <2>1, <4>1, <4>2, KeptCalm
    <3> QED BY <3>2, <3>3
  <2> QED BY <1>4, <2>2, <2>3 DEF Daemon!PrepareFails
<1>5. CASE Daemon!Commit
  <2>1. /\ reload = "prepared" /\ reload' = "retiring" /\ active' = prepared
        /\ role' = [role EXCEPT ![prepared] = "active", ![active] = "retired"]
        /\ UNCHANGED <<prepared, open, routes, retiredRunners, stuck, stopping, stopped>>
    BY <1>5 DEF Daemon!Commit, Daemon!Candidate, Daemon!Replaced
  <2>2. /\ prepared \in Daemon!Generations /\ role[prepared] = "candidate"
        /\ active \in Daemon!Generations /\ role[active] = "active" /\ active # prepared
    BY <2>1, CandidateIs
  <2>3. StopsLeft' = StopsLeft /\ StopsLeft >= 5 /\ ~(StopsLeft <= 4) /\ ~(StopsLeft <= 3)
    BY <1>0, <1>b, <1>c, <1>a, <2>1, ReloadUnderway
  <2>4. Daemon!Closes(g)' = Daemon!Closes(g) /\ UNCHANGED <<open[g], routes[g], retiredRunners[g]>>
    BY <2>1 DEF Daemon!Closes
  <2>5. CASE g = prepared
    <3>1. role'[g] = "active" /\ role[g] = "candidate"
      BY <1>0, <2>1, <2>2, <2>5 DEF Generated
    <3> QED BY <1>d, <2>1, <2>2, <2>3, <2>4, <2>5, <3>1 DEF Kept
  <2>6. CASE g = active
    <3>1. role'[g] = "retired" /\ role[g] = "active"
      BY <1>0, <2>1, <2>2, <2>6 DEF Generated
    <3> QED BY <1>d, <2>1, <2>2, <2>3, <2>4, <2>6, <3>1 DEF Kept
  <2>7. CASE g # prepared /\ g # active
    <3>1. role'[g] = role[g] /\ (StuckOnly(g) => StuckOnly(g)')
      BY <1>0, <2>1, <2>7 DEF Generated, StuckOnly
    <3>2. prepared' >= prepared /\ prepared' \in Nat /\ g # prepared' /\ g # active'
      BY <1>a, <2>1, <2>7
    <3> QED BY <3>2, <1>a, <1>d, <2>1, <2>3, <2>4, <2>7, <3>1, KeptCalm
  <2> QED BY <2>5, <2>6, <2>7
<1>6. CASE Daemon!Interrupted
  <2>1. StopsLeft' = StopsLeft /\ reload = "prepared" /\ reload' = "abandoning" /\ UNCHANGED Daemon!generationVars
    BY <1>6, <1>b DEF Daemon!Interrupted
  <2> QED BY <1>e, <2>1
<1>7. CASE Daemon!Abandon
  <2>1. /\ reload = "abandoning" /\ reload' = "none" /\ UNCHANGED active /\ StopsLeft' = StopsLeft
    BY <1>7, <1>b DEF Daemon!Abandon
  <2>2. /\ prepared \in Daemon!Generations /\ role[prepared] = "candidate"
        /\ active \in Daemon!Generations /\ role[active] = "active" /\ active # prepared
    BY <2>1, CandidateIs
  <2>3. PICK F \in SUBSET Daemon!StillOpen({prepared}) :
          /\ Daemon!Disposed({prepared}, F)
          /\ role' = [role EXCEPT ![prepared] = IF F = {} THEN "gone" ELSE "abandoned"]
    BY <1>7 DEF Daemon!Abandon, Daemon!Candidate
  <2>4. UNCHANGED <<prepared, routes, retiredRunners>>
    BY <2>3 DEF Daemon!Disposed
  <2>5. CASE g = prepared
    <3>1. open'[g] = {x \in open[g] : <<g, x>> \in F} /\ StuckOnly(g)'
      BY <1>0, <1>d, <2>2, <2>3, <2>5, DisposedEffect DEF Kept
    <3>2. role'[g] = IF F = {} THEN "gone" ELSE "abandoned"
      BY <1>0, <2>2, <2>3, <2>5 DEF Generated
    <3>3. F = {} => open'[g] = {}
      BY <3>1
    <3> QED BY <1>d, <2>1, <2>2, <2>4, <2>5, <3>1, <3>2, <3>3 DEF Kept
  <2>6. CASE g # prepared
    <3>1. open'[g] = open[g] /\ (StuckOnly(g) => StuckOnly(g)')
      BY <1>0, <2>2, <2>3, <2>6, DisposedEffect
    <3>2. role'[g] = role[g]
      BY <1>0, <2>2, <2>3, <2>6 DEF Generated
    <3> QED BY <1>a, <1>d, <2>1, <2>4, <2>6, <3>1, <3>2, KeptCalm
  <2> QED BY <2>5, <2>6
<1>8. CASE Daemon!DisposeRetired
  <2>1. reload = "retiring" /\ reload' = "none" /\ UNCHANGED active /\ StopsLeft' = StopsLeft
    BY <1>8, <1>b DEF Daemon!DisposeRetired
  <2>2. PICK F \in SUBSET Daemon!StillOpen(Daemon!Retired) : Daemon!DisposedRetired(F)
    BY <1>8 DEF Daemon!DisposeRetired
  <2> QED BY <1>0, <1>a, <1>d, <2>1, <2>2, KeptDisposed
<1>9. ASSUME NEW T \in SUBSET Targets, Daemon!RemoveTargets(T) PROVE Kept(g)'
  <2>1. /\ routes' = [routes EXCEPT ![active] = @ \ T]
        /\ retiredRunners' = [retiredRunners EXCEPT ![active] = @ \cup (T \cap routes[active])]
        /\ UNCHANGED <<role, open, active, prepared, stuck>> /\ reload = "none" /\ reload' = "removing"
        /\ StopsLeft' = StopsLeft
    BY <1>9, <1>b DEF Daemon!RemoveTargets
  <2>2. active # 0 /\ StopsLeft = 10
    BY <1>0, <1>9, ServingNow DEF Daemon!RemoveTargets
  <2>3. CASE g = active
    <3>1. routes'[g] = routes[g] \ T /\ retiredRunners'[g] = retiredRunners[g] \cup (T \cap routes[g])
      BY <1>0, <2>1, <2>3 DEF Generated
    <3>2. Daemon!Closes(g)' = Daemon!Closes(g)
      BY <3>1 DEF Daemon!Closes
    <3>3. routes'[g] \cap retiredRunners'[g] = {}
      BY <1>d, <3>1 DEF Kept
    <3>4. role[g] = "active" /\ routes'[g] \cup {"wrapper"} \subseteq open[g] /\ open[g] \subseteq Daemon!Closes(g)
      BY <1>d, <2>2, <2>3, <3>1 DEF Kept
    <3> QED BY <1>d, <2>1, <2>2, <2>3, <3>2, <3>3, <3>4 DEF Kept
  <2>4. CASE g # active
    <3>1. UNCHANGED <<role[g], open[g], routes[g], retiredRunners[g]>> /\ (StuckOnly(g) => StuckOnly(g)')
      BY <1>0, <2>1, <2>4 DEF Generated, StuckOnly
    <3>2. prepared' >= prepared /\ prepared' \in Nat
      BY <1>a, <2>1
    <3> QED BY <1>a, <1>d, <2>1, <3>1, <3>2, KeptCalm
  <2> QED BY <2>3, <2>4
<1>10. CASE Daemon!CloseRemoved
  <2>1. /\ UNCHANGED <<active, prepared, role, routes>> /\ reload = "removing" /\ reload' = "none"
        /\ StopsLeft' = StopsLeft
    BY <1>10, <1>b DEF Daemon!CloseRemoved
  <2>2. active # 0 /\ active \in Daemon!Generations /\ StopsLeft \in {9, 10}
    BY <1>0, <2>1, ReloadUnderway, GenerationsAre
  <2>3. PICK F \in SUBSET ({active} \X retiredRunners[active]) :
          /\ open' = [open EXCEPT ![active] = @ \ {x \in retiredRunners[active] : <<active, x>> \notin F}]
          /\ retiredRunners' = [retiredRunners EXCEPT ![active] = {x \in @ : <<active, x>> \in F}]
          /\ stuck' = (stuck \ ({active} \X retiredRunners[active])) \cup F
    BY <1>10 DEF Daemon!CloseRemoved
  <2>4. CASE g = active
    <3>1. /\ open'[g] = open[g] \ {x \in retiredRunners[g] : <<g, x>> \notin F}
          /\ retiredRunners'[g] = {x \in retiredRunners[g] : <<g, x>> \in F}
      BY <1>0, <2>2, <2>3, <2>4 DEF Generated
    <3>2. /\ role[g] = "active" /\ routes[g] \cup {"wrapper"} \subseteq open[g]
          /\ open[g] \subseteq Daemon!Closes(g) /\ routes[g] \cap retiredRunners[g] = {}
      BY <1>d, <1>c, <1>a, <2>2, <2>4 DEF Kept
    <3>3. "wrapper" \notin retiredRunners[g]
      BY <1>0, DaemonAssumption DEF Generated
    <3>4. routes'[g] \cup {"wrapper"} \subseteq open'[g] /\ routes'[g] \cap retiredRunners'[g] = {}
      BY <2>1, <3>1, <3>2, <3>3
    <3>5. open'[g] \subseteq Daemon!Closes(g)'
      BY <2>1, <3>1, <3>2 DEF Daemon!Closes
    <3> QED BY <1>d, <1>c, <1>a, <2>1, <2>2, <2>4, <3>2, <3>4, <3>5 DEF Kept
  <2>5. CASE g # active
    <3>1. UNCHANGED <<role[g], open[g], routes[g], retiredRunners[g]>>
      BY <1>0, <2>1, <2>3, <2>5 DEF Generated
    <3>2. StuckOnly(g) => StuckOnly(g)'
      BY <2>3, <2>5, <3>1 DEF StuckOnly
    <3> QED BY <1>a, <1>d, <2>1, <3>1, <3>2, KeptCalm
  <2> QED BY <2>4, <2>5
<1>11. CASE Daemon!BeginReload \/ Daemon!UpdateMetadata
  <2>1. StopsLeft' = StopsLeft /\ UNCHANGED Daemon!generationVars
    BY <1>11, <1>b DEF Daemon!BeginReload, Daemon!UpdateMetadata
  <2>2. reload \in {"prepared", "abandoning"} <=> reload' \in {"prepared", "abandoning"}
    BY <1>11 DEF Daemon!BeginReload, Daemon!UpdateMetadata
  <2> QED BY <1>e, <2>1, <2>2
<1>12. CASE Daemon!Stop
  <2>1. StopsLeft = 10 /\ StopsLeft' = 9 /\ UNCHANGED <<Daemon!generationVars, reload>>
    BY <1>0, <1>12, StopBegins DEF Daemon!Stop
  <2> QED BY <1>e, <2>1
<1>13. CASE \/ \E t \in Targets : Daemon!StartRun(t) \/ Daemon!StartTransfer(t)
            \/ \E w \in work : Daemon!WorkEnds(w)
  <2>1. StopsLeft' = StopsLeft /\ UNCHANGED <<Daemon!generationVars, reload>>
    BY <1>13, <1>b DEF Daemon!StartRun, Daemon!StartTransfer, Daemon!WorkEnds, Daemon!WorkOnly
  <2> QED BY <1>e, <2>1
<1>14. CASE Daemon!StopStep
  <2>1. /\ StopsLeft \in 1..9 /\ StopsLeft' = StopsLeft - 1 /\ UNCHANGED <<reload, active, prepared>>
        /\ StopsLeft = 9 => reload = "none"
        /\ StopsLeft = 5 <=> Head(stopping) = "active"
        /\ StopsLeft = 4 <=> Head(stopping) = "retired"
    BY <1>0, <1>14, StopNow, StopsOn DEF Daemon!Awaited
  <2>2. reload = "none"
    BY <1>0, <2>1, ReloadUnderway
  <2>3. CASE Head(stopping) = "active" /\ active # 0
    <3>1. PICK F \in SUBSET Daemon!StillOpen({active}) : Daemon!Disposed({active}, F) /\ UNCHANGED role
      BY <1>14, <2>3 DEF Daemon!StopStep
    <3>2. active \in Daemon!Generations /\ UNCHANGED <<routes, retiredRunners>>
      BY <1>0, <2>3, <3>1, GenerationsAre DEF Daemon!Disposed
    <3>3. StopsLeft = 5 /\ StopsLeft' = 4
      BY <2>1, <2>3
    <3>4. CASE g = active
      <4>1. role[g] = "active" /\ open[g] \subseteq Daemon!Closes(g)
        BY <1>d, <3>4 DEF Kept
      <4>2. open'[g] = {x \in open[g] : <<g, x>> \in F} /\ StuckOnly(g)'
        BY <1>0, <3>1, <3>2, <3>4, <4>1, DisposedEffect
      <4>3. open'[g] \subseteq Daemon!Closes(g)'
        BY <3>2, <4>1, <4>2 DEF Daemon!Closes
      <4> QED BY <1>d, <2>1, <2>2, <3>1, <3>2, <3>3, <3>4, <4>1, <4>2, <4>3 DEF Kept
    <3>5. CASE g # active
      <4>1. open'[g] = open[g] /\ (StuckOnly(g) => StuckOnly(g)')
        <5>1. {active} \in SUBSET Daemon!Generations /\ g \in Daemon!Generations \ {active}
          BY <3>2, <3>5
        <5> QED BY <1>0, <3>1, <5>1, DisposedEffect
      <4>2. role[g] # "active"
        BY <1>d, <3>5 DEF Kept
      <4> QED BY <1>a, <1>d, <2>1, <2>2, <3>1, <3>2, <3>3, <4>1, <4>2, KeptCalm
    <3> QED BY <3>4, <3>5
  <2>4. CASE Head(stopping) = "retired"
    <3>1. PICK F \in SUBSET Daemon!StillOpen(Daemon!Retired) : Daemon!DisposedRetired(F)
      BY <1>14, <2>4 DEF Daemon!StopStep
    <3>2. StopsLeft = 4 /\ StopsLeft' = 3
      BY <2>1, <2>4
    <3> QED BY <1>0, <1>a, <1>d, <2>1, <2>2, <3>1, <3>2, KeptDisposed
  <2>5. CASE ~(Head(stopping) = "active" /\ active # 0) /\ Head(stopping) # "retired"
    <3>1. UNCHANGED <<active, prepared, role, open, routes, retiredRunners, stuck>>
      BY <1>14, <2>5 DEF Daemon!StopStep
    <3>2. /\ StopsLeft' >= 5 => StopsLeft >= 5
          /\ StopsLeft' <= 4 => StopsLeft <= 4 \/ active = 0
          /\ StopsLeft' <= 3 => StopsLeft <= 3
      BY <2>1, <2>5
    <3> QED BY <1>e, <2>1, <3>1, <3>2
  <2> QED BY <2>3, <2>4, <2>5
<1> QED
  BY <1>1, <1>2, <1>3, <1>4, <1>5, <1>6, <1>7, <1>8, <1>9, <1>10, <1>11, <1>12, <1>13, <1>14 DEF Daemon!Next

----------------------------------------------------------------------------
(* Every step keeps the invariant.                                         *)

LEMMA StepTypes ==
    ASSUME IInv, Daemon!Next
    PROVE  Daemon!TypeOK'
<1> USE DEF Daemon!generationVars, Daemon!useVars, Daemon!stopVars
<1>0. /\ Daemon!TypeOK /\ SequenceInv /\ ControlInv
      /\ active \in 0..MaxGenerations /\ prepared \in 0..MaxGenerations /\ dFailures \in 0..DaemonFailures
  BY DEF IInv, ControlInv, Daemon!TypeOK
<1>1. Generated' /\ UseInv'
  BY StepGenerated, StepUse
<1>2. acquired' \subseteq {Daemon!StartOrder[i] : i \in 1..Len(Daemon!StartOrder)}
  <2>1. CASE Daemon!Acquire
    <3>1. acquired' = acquired \cup {Head(starting)} /\ starting # <<>>
      BY <2>1 DEF Daemon!Acquire
    <3>2. Len(starting) \in 1..6 /\ Head(starting) = Daemon!StartOrder[7 - Len(starting)]
      BY <1>0, <3>1, StartHead
    <3>3. 7 - Len(starting) \in 1..6 /\ Len(Daemon!StartOrder) = 6
      <4>1. \A n \in 1..6 : 7 - n \in 1..6
        OBVIOUS
      <4> QED BY <3>2, <4>1 DEF Daemon!StartOrder
    <3>4. Head(starting) \in {Daemon!StartOrder[i] : i \in 1..Len(Daemon!StartOrder)}
      BY <3>2, <3>3, Zenon
    <3>5. acquired \subseteq {Daemon!StartOrder[i] : i \in 1..Len(Daemon!StartOrder)}
      BY <1>0 DEF Daemon!TypeOK
    <3> QED BY <3>1, <3>4, <3>5, Zenon
  <2>2. CASE acquired' \subseteq acquired
    BY <1>0, <2>2 DEF Daemon!TypeOK
  <2>3. CASE Daemon!StopStep
    BY <2>2, <2>3 DEF Daemon!StopStep
  <2>4. CASE ~Daemon!Acquire /\ ~Daemon!StopStep
    BY <2>2, <2>4 DEF Daemon!Next, Daemon!StartFails, Daemon!BeginReload, Daemon!PrepareFails, Daemon!Commit,
         Daemon!Interrupted, Daemon!Abandon, Daemon!DisposeRetired, Daemon!Prepare, Daemon!RemoveTargets,
         Daemon!CloseRemoved, Daemon!UpdateMetadata, Daemon!StartRun, Daemon!StartTransfer, Daemon!WorkEnds,
         Daemon!WorkOnly, Daemon!Stop
  <2> QED BY <2>1, <2>3, <2>4
<1>3. reload' \in {"none", "loading", "prepared", "abandoning", "retiring", "removing"}
  BY <1>0 DEF Daemon!TypeOK, Daemon!Next, Daemon!Acquire, Daemon!StopStep, Daemon!StartFails, Daemon!BeginReload,
       Daemon!PrepareFails, Daemon!Commit, Daemon!Interrupted, Daemon!Abandon, Daemon!DisposeRetired, Daemon!Prepare,
       Daemon!RemoveTargets, Daemon!CloseRemoved, Daemon!UpdateMetadata, Daemon!StartRun, Daemon!StartTransfer,
       Daemon!WorkEnds, Daemon!WorkOnly, Daemon!Stop
<1>4. dFailures' \in 0..DaemonFailures
  <2>1. dFailures' = dFailures \/ Daemon!Fault
    BY DEF Daemon!Next, Daemon!Acquire, Daemon!StopStep, Daemon!StartFails, Daemon!BeginReload, Daemon!Failing,
         Daemon!PrepareFails, Daemon!Commit, Daemon!Interrupted, Daemon!Abandon, Daemon!DisposeRetired, Daemon!Prepare,
         Daemon!RemoveTargets, Daemon!CloseRemoved, Daemon!UpdateMetadata, Daemon!StartRun, Daemon!StartTransfer,
         Daemon!WorkEnds, Daemon!WorkOnly, Daemon!Stop
  <2> QED BY <1>0, <2>1, DaemonAssumption DEF Daemon!Fault
<1>5. active' \in 0..MaxGenerations /\ prepared' \in 0..MaxGenerations
  <2>1. CASE Daemon!Acquire
    BY <1>0, <2>1, GenerationsAre DEF Daemon!Acquire, Daemon!Prepared
  <2>2. CASE Daemon!StartFails
    BY <1>0, <2>2, GenerationsAre DEF Daemon!StartFails, Daemon!HalfPrepared
  <2>3. CASE Daemon!PrepareFails \/ \E T \in SUBSET Targets : Daemon!Prepare(T)
    <3>1. prepared' = prepared \/ (prepared < MaxGenerations /\ prepared' = prepared + 1)
      BY <2>3 DEF Daemon!PrepareFails, Daemon!Prepare, Daemon!HalfPrepared, Daemon!Prepared
    <3>2. active' = active
      BY <2>3 DEF Daemon!PrepareFails, Daemon!Prepare
    <3> QED BY <1>0, <3>1, <3>2, GenerationsAre
  <2>4. CASE Daemon!Commit
    BY <1>0, <2>4 DEF Daemon!Commit, Daemon!Candidate
  <2>5. CASE Daemon!StopStep
    <3>1. UNCHANGED <<active, prepared>>
      BY <1>0, <2>5, StopNow
    <3> QED BY <1>0, <3>1
  <2>6. CASE \/ Daemon!Abandon \/ Daemon!DisposeRetired \/ Daemon!CloseRemoved
             \/ \E T \in SUBSET Targets : Daemon!RemoveTargets(T)
    <3>1. active' = active
      BY <2>6 DEF Daemon!Abandon, Daemon!DisposeRetired, Daemon!CloseRemoved, Daemon!RemoveTargets
    <3>2. prepared' = prepared
      <4>1. CASE Daemon!Abandon
        BY <4>1 DEF Daemon!Abandon, Daemon!Disposed
      <4>2. CASE Daemon!DisposeRetired
        BY <4>2 DEF Daemon!DisposeRetired, Daemon!DisposedRetired, Daemon!Disposed
      <4>3. CASE Daemon!CloseRemoved \/ \E T \in SUBSET Targets : Daemon!RemoveTargets(T)
        BY <4>3 DEF Daemon!CloseRemoved, Daemon!RemoveTargets
      <4> QED BY <2>6, <4>1, <4>2, <4>3
    <3> QED BY <1>0, <3>1, <3>2
  <2>7. CASE \/ Daemon!BeginReload \/ Daemon!Interrupted \/ Daemon!UpdateMetadata \/ Daemon!Stop
             \/ \E t \in Targets : Daemon!StartRun(t) \/ Daemon!StartTransfer(t)
             \/ \E w \in work : Daemon!WorkEnds(w)
    BY <1>0, <2>7 DEF Daemon!BeginReload, Daemon!Interrupted, Daemon!UpdateMetadata, Daemon!Stop, Daemon!StartRun,
         Daemon!StartTransfer, Daemon!WorkEnds, Daemon!WorkOnly
  <2> QED BY <2>1, <2>2, <2>3, <2>4, <2>5, <2>6, <2>7 DEF Daemon!Next
<1>6. \A use \in {execUses', transferUses'} :
        use.gen \in 0..MaxGenerations /\ use.targets \subseteq Targets /\ use.label \in 0..MaxUpdates
  BY <1>1 DEF UseInv
<1> QED BY <1>1, <1>2, <1>3, <1>4, <1>5, <1>6 DEF Daemon!TypeOK, Generated

LEMMA InitInv == AllInit => IInv
<1> SUFFICES ASSUME AllInit PROVE IInv
  OBVIOUS
<1>1. Daemon!Init
  BY DEF AllInit
<1>2. StopsLeft = 10 /\ StartsLeft = 6
  BY <1>1 DEF Daemon!Init, StopsLeft, StartsLeft, Daemon!StartOrder
<1>3. SequenceInv
  <2>1. starting \in Seq(StepNames) /\ Len(starting) = 6
    BY <1>1 DEF Daemon!Init, Daemon!StartOrder, StepNames
  <2>2. stopping = <<>> /\ stopping \in Seq(StepNames) /\ Len(stopping) = 0
    BY <1>1 DEF Daemon!Init
  <2>3. \A i \in 1..Len(starting) : starting[i] = Daemon!StartOrder[6 - Len(starting) + i]
    <3>1. starting = Daemon!StartOrder /\ \A i \in 1..6 : 6 - 6 + i = i
      BY <1>1 DEF Daemon!Init
    <3> QED BY <2>1, <3>1
  <2>4. stopped = FALSE /\ ~(StopsLeft < 10) /\ 1..Len(stopping) = {} /\ Len(stopping) <= 9 /\ Len(starting) <= 6
    BY <1>1, <1>2, <2>1, <2>2 DEF Daemon!Init
  <2> QED BY <2>1, <2>2, <2>3, <2>4 DEF SequenceInv
<1>4. StartInv /\ ServeInv /\ DrainInv /\ LeaseInv
  BY <1>1, <1>2 DEF Daemon!Init, Daemon!Unused, StartInv, ServeInv, DrainInv, LeaseInv, Pristine
<1>5. GenerationInv
  <2>1. \A g \in Daemon!Generations : g # 0
    BY DEF Daemon!Generations
  <2> QED BY <1>1, <1>2, <2>1 DEF Daemon!Init, GenerationInv, Kept
<1>6. UseInv /\ WorkInv /\ Daemon!TypeOK
  BY <1>1, DaemonAssumption DEF Daemon!Init, Daemon!Unused, UseInv, WorkInv, Daemon!TypeOK
<1> QED BY <1>3, <1>4, <1>5, <1>6 DEF IInv

\* A step of another part leaves the daemon alone.
LEMMA StepInv == IInv /\ [AllNext]_allVars => IInv'
<1> SUFFICES ASSUME IInv, [AllNext]_allVars PROVE IInv'
  OBVIOUS
<1>1. CASE Daemon!Next
  BY <1>1, StepGenerated, StepControl, StepUse, StepGenerations, StepTypes DEF IInv, ControlInv
<1>2. CASE UNCHANGED daemonVars
  <2>1. UNCHANGED <<StopsLeft, StartsLeft>>
    BY <1>2 DEF daemonVars, StopsLeft, StartsLeft
  <2>2. SequenceInv' /\ StartInv' /\ ServeInv' /\ DrainInv' /\ LeaseInv'
    BY <1>2, <2>1 DEF daemonVars, IInv, SequenceInv, StartInv, ServeInv, DrainInv, LeaseInv, Pristine
  <2>3. GenerationInv'
    BY <1>2, <2>1 DEF daemonVars, IInv, GenerationInv, Kept, StuckOnly, Daemon!Closes
  <2>4. UseInv' /\ WorkInv' /\ Daemon!TypeOK'
    BY <1>2 DEF daemonVars, IInv, UseInv, WorkInv, Daemon!TypeOK
  <2> QED BY <2>2, <2>3, <2>4 DEF IInv
<1> QED BY <1>1, <1>2 DEF AllNext, allVars

LEMMA Invariance == AllSpec => []IInv
BY InitInv, StepInv, PTL DEF AllSpec

----------------------------------------------------------------------------
(* What the daemon promises.                                               *)

\* Whatever is reloaded, removed, updated or stopped, and whatever fails on the way, a run or
\* a transfer keeps the runner and the wrapper file it was started with, and the exec and the
\* transfer service work with the same generation, targets and metadata (reload, removeTargets,
\* updateMetadata and stop of daemon/service.ts).
THEOREM DaemonKeepsGeneration == AllSpec => []GenerationInUse
<1>1. IInv => GenerationInUse
  <2> SUFFICES ASSUME IInv PROVE GenerationInUse
    OBVIOUS
  <2>1. ASSUME NEW w \in work PROVE {w.target, "wrapper"} \subseteq open[w.gen]
    <3>1. w.gen = active /\ active # 0 /\ w.target \in routes[active]
      BY DEF IInv, WorkInv, UseInv
    <3>2. active \in Daemon!Generations
      BY <3>1, GenerationsAre DEF IInv, Daemon!TypeOK
    <3>3. StopsLeft \in 0..10 /\ ~(StopsLeft <= 6)
      BY StopsLeftType DEF IInv, DrainInv
    <3>4. StopsLeft >= 5
      BY <3>3
    <3> QED BY <3>1, <3>2, <3>4 DEF IInv, GenerationInv, Kept
  <2>2. Daemon!TypeOK /\ execUses = transferUses
    BY DEF IInv, UseInv
  <2> QED BY <2>1, <2>2 DEF GenerationInUse, Daemon!GenerationInUse, Daemon!WorkHasItsRunner, Daemon!ServicesAgree
<1> QED BY <1>1, Invariance, PTL

\* However far the start came, and whatever stop() could not close on its way, a stopped daemon
\* has given back all it acquired in any of its generations but what failed when it was last
\* closed; and the lease on the data directory is given up only when nothing listens, runs or is
\* reloaded any more (startGatewayDaemon and stop of daemon/service.ts).
THEOREM DaemonStopComplete == AllSpec => []StopIsComplete
<1>1. IInv => StopIsComplete
  <2> SUFFICES ASSUME IInv PROVE StopIsComplete
    OBVIOUS
  <2>1. StopsLeft = 0 => \A g \in Daemon!Generations : StuckOnly(g)
    <3> SUFFICES ASSUME StopsLeft = 0, NEW g \in Daemon!Generations PROVE StuckOnly(g)
      OBVIOUS
    <3>1. Kept(g) /\ reload = "none"
      BY DEF IInv, GenerationInv, DrainInv
    <3>2. role[g] \in {"none", "candidate", "active", "retired", "gone", "abandoned"}
      BY DEF IInv, Daemon!TypeOK
    <3> QED BY <3>1, <3>2 DEF Kept, StuckOnly
  <2>2. Daemon!NothingLeft
    <3> SUFFICES ASSUME stopped
                 PROVE  acquired \subseteq {"generation"} /\ \A g \in Daemon!Generations : StuckOnly(g)
      BY DEF Daemon!NothingLeft, StuckOnly
    <3>1. StopsLeft = 0
      BY DEF StopsLeft
    <3>2. acquired \subseteq {"lease", "identity", "generation", "audit", "services", "server"}
      BY OrderNames DEF IInv, Daemon!TypeOK, Daemon!StartOrder
    <3>3. acquired \cap {"lease", "identity", "audit", "services", "server"} = {}
      BY <3>1 DEF IInv, DrainInv
    <3> QED BY <2>1, <3>1, <3>2, <3>3
  <2>3. Daemon!LeaseOutlivesAll
    <3> SUFFICES ASSUME "lease" \notin acquired
                 PROVE  /\ "server" \notin acquired /\ work = {} /\ reload = "none"
                        /\ \A g \in Daemon!Generations : StuckOnly(g)
      BY DEF Daemon!LeaseOutlivesAll, Daemon!StillOpen, StuckOnly
    <3>1. CASE StopsLeft = 0
      BY <2>1, <3>1 DEF IInv, DrainInv
    <3>2. CASE Pristine
      <4>1. \A g \in Daemon!Generations : open[g] = {}
        BY <3>2, GenerationsAre DEF IInv, GenerationInv, Kept, Pristine, Daemon!Generations
      <4> QED BY <3>2, <4>1 DEF Pristine, StuckOnly
    <3> QED BY <3>1, <3>2 DEF IInv, LeaseInv
  <2> QED BY <2>2, <2>3 DEF StopIsComplete, Daemon!StopIsComplete
<1> QED BY <1>1, Invariance, PTL

----------------------------------------------------------------------------
(***************************************************************************)
(* The audit log, AuditWriter, for every capacity, every concurrency and   *)
(* every sequence of failures.  The argument: what started work may still  *)
(* have to write never exceeds what is left of the file.                   *)
(***************************************************************************)

\* The closing records that what is under way may still write, a failed transfer's
\* second attempt included.
TwoSum == count["running"] + count["cancelling"] + count["probe_running"]
          + count["probe_completing"] + count["transferring"] + count["transfer_completing"]
OneSum == count["completing"] + count["probe_waiting"] + count["reporting"]
          + count["transfer_failing"]

OwedByWork == 2 * TwoSum + OneSum

OwedByDaemon ==
    IF began THEN 2 * count["loading"] + 2 * count["serving"] + 2 * count["stopping"]
                  + count["draining"] + count["ending"]
             ELSE 0

Owed == OwedByWork + OwedByDaemon

\* What the daemon can owe at most.
MaxOwed == 2 * MaxExecutions + 2 * MaxTransfers + MaxProbing + 2

Daemons == count["new"] + count["beginning"] + count["loading"] + count["serving"]
           + count["stopping"] + count["draining"] + count["ending"]
           + count["closing"] + count["stopped"]

\* The types that do not depend on the capacity.
Typed ==
    /\ size \in Nat
    /\ handle \in {"none", "open", "failed"}
    /\ closed \in BOOLEAN
    /\ count \in [Phases -> Nat]
    /\ began \in BOOLEAN
    /\ failures \in 0..MaxFailures

\* Admission keeps each kind of work within its limit, and there is one daemon.
Bounded ==
    /\ InSlot <= MaxExecutions
    /\ Transferring <= MaxTransfers
    /\ Probing <= MaxProbing
    /\ Daemons = 1

\* Before the daemon's first record there is no work; afterwards it is not begun again.
Begun ==
    /\ began => count["new"] + count["beginning"] = 0
    /\ ~began => OwedByWork = 0 /\ InSlot = 0 /\ Transferring = 0 /\ Probing = 0

\* Room is left for everything that is owed.
Room == size + RecordBytes * Owed <= MaxBytes

CapacityInv == Typed /\ Bounded /\ Begun /\ Room

----------------------------------------------------------------------------

\* Multiplication is monotonic.
LEMMA Scaling ==
    ASSUME NEW r \in Nat, NEW a \in Nat, NEW b \in Nat
    PROVE  /\ r * a \in Nat
           /\ a <= b => r * a <= r * b
           /\ a + 1 <= b => r * a + r <= r * b
PROOF
<1>1. \A x, y \in Nat : x * y \in Nat
  BY SMT
<1>2. ASSUME NEW d \in Nat, b = a + d PROVE r * b = r * a + r * d
  BY <1>2, SMT
<1>3. ASSUME a <= b PROVE r * a <= r * b
  <2>1. b - a \in Nat /\ b = a + (b - a)
    BY <1>3, SMT
  <2> QED BY <2>1, <1>1, <1>2, SMT
<1>4. ASSUME a + 1 <= b PROVE r * a + r <= r * b
  <2> DEFINE d == b - (a + 1)
  <2>1. d \in Nat /\ b = a + (d + 1)
    BY <1>4, SMT
  <2>2. r * b = r * a + r * (d + 1)
    BY <2>1, <1>2, SMT
  <2>3. r * (d + 1) = r * d + r /\ r * d \in Nat
    BY <2>1, <1>1, SMT
  <2> QED BY <2>2, <2>3, <1>1, SMT
<1> QED BY <1>1, <1>3, <1>4

\* The reservation covers everything that can be owed.
LEMMA ReservationCovers ==
    /\ Reserved \in Nat /\ RecordBytes \in Nat \ {0} /\ MaxOwed \in Nat /\ MaxBytes \in Nat
    /\ RecordBytes * MaxOwed <= Reserved
    /\ NormalWriteLimit + Reserved = MaxBytes /\ NormalWriteLimit \in Nat
PROOF
<1>1. (MaxExecutions * 2 + MaxTransfers) * MaxRecord \in Nat
  <2>1. MaxExecutions * 2 + MaxTransfers \in Nat /\ MaxRecord \in Nat
    BY AuditWriterAssumption
  <2> QED BY <2>1, Scaling
<1>2. Reserved \in Nat
  BY <1>1, AuditWriterAssumption DEF Reserved
<1>3. MaxOwed \in Nat /\ RecordBytes \in Nat \ {0} /\ MaxBytes \in Nat
  BY AuditWriterAssumption DEF MaxOwed
<1>4. RecordBytes * MaxOwed <= Reserved
  BY AuditWriterAssumption DEF MaxOwed
<1>5. NormalWriteLimit + Reserved = MaxBytes /\ NormalWriteLimit \in Nat
  <2>1. MaxRecord \in Nat /\ MaxRecord + Reserved <= MaxBytes
    BY AuditWriterAssumption
  <2> QED BY <2>1, <1>2, <1>3 DEF NormalWriteLimit
<1> QED BY <1>2, <1>3, <1>4, <1>5

\* What is owed is a number, and never more than the reservation counts on.
LEMMA OwedIsBounded ==
    ASSUME Typed, Bounded
    PROVE  Owed \in Nat /\ Owed <= MaxOwed
PROOF
<1>1. \A p \in Phases : count[p] \in Nat
  BY DEF Typed
<1>2. MaxExecutions \in Nat /\ MaxTransfers \in Nat /\ MaxProbing \in Nat
  BY AuditWriterAssumption
<1>3. OwedByWork \in Nat /\ OwedByWork <= 2 * InSlot + 2 * Transferring + Probing
  BY <1>1 DEF Phases, Writing, FollowUps, Normals, OwedByWork, TwoSum, OneSum,
     InSlot, Transferring, Probing
<1>4. OwedByDaemon \in Nat /\ OwedByDaemon <= 2
  BY <1>1 DEF Bounded, Daemons, Phases, Writing, FollowUps, Normals, OwedByDaemon
<1>5. InSlot \in Nat /\ Transferring \in Nat /\ Probing \in Nat
  BY <1>1 DEF Phases, Writing, FollowUps, Normals, InSlot, Transferring, Probing
<1> QED BY <1>2, <1>3, <1>4, <1>5 DEF Bounded, Owed, MaxOwed

----------------------------------------------------------------------------
(* How the counts change.                                                  *)

\* A member that moves takes one from its phase and adds one to its next.
LEMMA MoveKeepsType ==
    ASSUME Typed, NEW p \in Phases \cup {"none"}, NEW q \in Phases \cup {"none"},
           p # "none" => count[p] > 0,
           count' = Moved(p, q)
    PROVE  /\ count' \in [Phases -> Nat]
           /\ \A x \in Phases : count'[x] =
                IF x = p THEN count[x] - 1 ELSE IF x = q THEN count[x] + 1 ELSE count[x]
PROOF
<1>1. "none" \notin Phases
  BY DEF Phases, Writing, FollowUps, Normals
<1>2. \A x \in Phases : count[x] \in Nat
  BY DEF Typed
<1>3. \A x \in Phases : count'[x] =
         IF x = p THEN count[x] - 1 ELSE IF x = q THEN count[x] + 1 ELSE count[x]
  BY DEF Moved
<1>4. \A x \in Phases : count'[x] \in Nat
  BY <1>1, <1>2, <1>3
<1>5. count' \in [Phases -> Nat]
  BY <1>4 DEF Moved
<1> QED BY <1>3, <1>5

\* The sums above change by the weights of the two phases.
One(x, S) == IF x \in S THEN 1 ELSE 0
SlotPhases == {"starting", "running", "cancelling", "completing", "probe_starting",
    "probe_running", "probe_completing"}
TransferPhases == {"transfer_starting", "transferring", "transfer_completing",
    "transfer_failing"}
ProbePhases == {"probe_starting", "probe_running", "probe_completing", "probe_waiting",
    "reporting"}
DaemonPhases == {"new", "beginning", "loading", "serving", "stopping", "draining",
    "ending", "closing", "stopped"}
TwoOwed == {"running", "cancelling", "probe_running", "probe_completing",
    "transferring", "transfer_completing"}
OneOwed == {"completing", "probe_waiting", "reporting", "transfer_failing"}
DaemonTwo == {"loading", "serving", "stopping"}
DaemonOne == {"draining", "ending"}

\* What the daemon owes once it has begun.
DaemonSum == 2 * count["loading"] + 2 * count["serving"] + 2 * count["stopping"]
             + count["draining"] + count["ending"]

\* 1 when two phases are the same, so that a set of phases is a sum.
Is(x, y) == IF x = y THEN 1 ELSE 0

\* Membership in a set of phases as a sum.
LEMMA OneIsSum ==
    ASSUME NEW y
    PROVE  /\ One(y, SlotPhases) = Is("starting", y) + Is("running", y) + Is("cancelling", y) +
                Is("completing", y) + Is("probe_starting", y) + Is("probe_running", y)
                + Is("probe_completing", y)
           /\ One(y, TransferPhases) = Is("transfer_starting", y) + Is("transferring", y) +
                Is("transfer_completing", y) + Is("transfer_failing", y)
           /\ One(y, ProbePhases) = Is("probe_starting", y) + Is("probe_running", y) +
                Is("probe_completing", y) + Is("probe_waiting", y) + Is("reporting",
                y)
           /\ One(y, DaemonPhases) = Is("new", y) + Is("beginning", y) + Is("loading", y) + Is("serving",
                y) + Is("stopping", y) + Is("draining", y) + Is("ending", y) +
                Is("closing", y) + Is("stopped", y)
           /\ One(y, TwoOwed) = Is("running", y) + Is("cancelling", y) + Is("probe_running", y) +
                Is("probe_completing", y) + Is("transferring", y) +
                Is("transfer_completing", y)
           /\ One(y, OneOwed) = Is("completing", y) + Is("probe_waiting", y) + Is("reporting", y) +
                Is("transfer_failing", y)
           /\ One(y, DaemonTwo) = Is("loading", y) + Is("serving", y) + Is("stopping", y)
           /\ One(y, DaemonOne) = Is("draining", y) + Is("ending", y)
PROOF
<1> USE DEF One, Is
<1>1. One(y, SlotPhases) = Is("starting", y) + Is("running", y) + Is("cancelling", y) +
          Is("completing", y) + Is("probe_starting", y) + Is("probe_running", y) +
          Is("probe_completing", y)
  BY DEF SlotPhases
<1>2. One(y, TransferPhases) = Is("transfer_starting", y) + Is("transferring", y) +
          Is("transfer_completing", y) + Is("transfer_failing", y)
  BY DEF TransferPhases
<1>3. One(y, ProbePhases) = Is("probe_starting", y) + Is("probe_running", y) + Is("probe_completing", y)
          + Is("probe_waiting", y) + Is("reporting", y)
  BY DEF ProbePhases
<1>4. One(y, DaemonPhases) = Is("new", y) + Is("beginning", y) + Is("loading", y) + Is("serving", y) +
          Is("stopping", y) + Is("draining", y) + Is("ending", y) + Is("closing", y) +
          Is("stopped", y)
  BY DEF DaemonPhases
<1>5. One(y, TwoOwed) = Is("running", y) + Is("cancelling", y) + Is("probe_running", y) +
          Is("probe_completing", y) + Is("transferring", y) +
          Is("transfer_completing", y)
  BY DEF TwoOwed
<1>6. One(y, OneOwed) = Is("completing", y) + Is("probe_waiting", y) + Is("reporting", y) +
          Is("transfer_failing", y)
  BY DEF OneOwed
<1>7. One(y, DaemonTwo) = Is("loading", y) + Is("serving", y) + Is("stopping", y)
  BY DEF DaemonTwo
<1>8. One(y, DaemonOne) = Is("draining", y) + Is("ending", y)
  BY DEF DaemonOne
<1> QED BY <1>1, <1>2, <1>3, <1>4, <1>5, <1>6, <1>7, <1>8

\* A move changes each sum by the weights of the phases it joins.
LEMMA SumsMove ==
    ASSUME Typed, NEW p \in Phases \cup {"none"}, NEW q \in Phases \cup {"none"}, p # q,
           p # "none" => count[p] > 0,
           count' = Moved(p, q)
    PROVE  /\ InSlot' = InSlot - One(p, SlotPhases) + One(q, SlotPhases)
           /\ Transferring' = Transferring - One(p, TransferPhases) + One(q, TransferPhases)
           /\ Probing' = Probing - One(p, ProbePhases) + One(q, ProbePhases)
           /\ Daemons' = Daemons - One(p, DaemonPhases) + One(q, DaemonPhases)
           /\ OwedByWork' = OwedByWork - 2 * One(p, TwoOwed) - One(p, OneOwed)
                            + 2 * One(q, TwoOwed) + One(q, OneOwed)
           /\ DaemonSum' = DaemonSum - 2 * One(p, DaemonTwo) - One(p, DaemonOne)
                           + 2 * One(q, DaemonTwo) + One(q, DaemonOne)
PROOF
<1>1. \A x \in Phases : /\ count'[x] = count[x] - Is(x, p) + Is(x, q)
                        /\ count[x] \in Nat /\ Is(x, p) \in Nat /\ Is(x, q) \in Nat
  BY MoveKeepsType DEF Typed, Is
<1>2. InSlot' = InSlot - One(p, SlotPhases) + One(q, SlotPhases)
  <2>1. \A x \in SlotPhases : /\ count'[x] = count[x] - Is(x, p) + Is(x, q)
                       /\ count[x] \in Nat /\ Is(x, p) \in Nat /\ Is(x, q) \in Nat
    BY <1>1 DEF Phases, Writing, FollowUps, Normals, SlotPhases
  <2>2. \A y \in {p, q} :
         /\ One(y, SlotPhases) = Is("starting", y) + Is("running", y) + Is("cancelling", y) +
              Is("completing", y) + Is("probe_starting", y) + Is("probe_running", y) +
              Is("probe_completing", y)
    BY OneIsSum
  <2> QED BY <2>1, <2>2 DEF InSlot, SlotPhases
<1>3. Transferring' = Transferring - One(p, TransferPhases) + One(q, TransferPhases)
  <2>1. \A x \in TransferPhases : /\ count'[x] = count[x] - Is(x, p) + Is(x, q)
                       /\ count[x] \in Nat /\ Is(x, p) \in Nat /\ Is(x, q) \in Nat
    BY <1>1 DEF Phases, Writing, FollowUps, Normals, TransferPhases
  <2> QED BY <2>1, OneIsSum DEF Transferring, TransferPhases
<1>4. Probing' = Probing - One(p, ProbePhases) + One(q, ProbePhases)
  <2>1. \A x \in ProbePhases : /\ count'[x] = count[x] - Is(x, p) + Is(x, q)
                       /\ count[x] \in Nat /\ Is(x, p) \in Nat /\ Is(x, q) \in Nat
    BY <1>1 DEF Phases, Writing, FollowUps, Normals, ProbePhases
  <2> QED BY <2>1, OneIsSum DEF Probing, ProbePhases
<1>5. Daemons' = Daemons - One(p, DaemonPhases) + One(q, DaemonPhases)
  <2>1. \A x \in DaemonPhases : /\ count'[x] = count[x] - Is(x, p) + Is(x, q)
                       /\ count[x] \in Nat /\ Is(x, p) \in Nat /\ Is(x, q) \in Nat
    BY <1>1 DEF Phases, Writing, FollowUps, Normals, DaemonPhases
  <2> QED BY <2>1, OneIsSum DEF Daemons, DaemonPhases
<1>6. OwedByWork' = OwedByWork - 2 * One(p, TwoOwed) - One(p, OneOwed)
                          + 2 * One(q, TwoOwed) + One(q, OneOwed)
  <2>1. TwoSum' = TwoSum - One(p, TwoOwed) + One(q, TwoOwed) /\ TwoSum \in Nat
    <3>1. \A x \in TwoOwed : /\ count'[x] = count[x] - Is(x, p) + Is(x, q)
                          /\ count[x] \in Nat /\ Is(x, p) \in Nat /\ Is(x, q) \in Nat
      BY <1>1 DEF Phases, Writing, FollowUps, Normals, TwoOwed
    <3>2. \A y \in {p, q} : One(y, TwoOwed) = Is("running", y) + Is("cancelling", y) + Is("probe_running", y) +
              Is("probe_completing", y) + Is("transferring", y) +
              Is("transfer_completing", y)
      BY OneIsSum
    <3> QED BY <3>1, <3>2 DEF TwoOwed, TwoSum
  <2>2. OneSum' = OneSum - One(p, OneOwed) + One(q, OneOwed) /\ OneSum \in Nat
    <3>1. \A x \in OneOwed : /\ count'[x] = count[x] - Is(x, p) + Is(x, q)
                          /\ count[x] \in Nat /\ Is(x, p) \in Nat /\ Is(x, q) \in Nat
      BY <1>1 DEF Phases, Writing, FollowUps, Normals, OneOwed
    <3>2. \A y \in {p, q} : One(y, OneOwed) = Is("completing", y) + Is("probe_waiting", y) + Is("reporting", y) +
              Is("transfer_failing", y)
      BY OneIsSum
    <3> QED BY <3>1, <3>2 DEF OneOwed, OneSum
  <2>3. \A y : One(y, TwoOwed) \in Nat /\ One(y, OneOwed) \in Nat
    BY DEF One
  <2> QED BY <2>1, <2>2, <2>3 DEF OwedByWork
<1>7. DaemonSum' = DaemonSum - 2 * One(p, DaemonTwo) - One(p, DaemonOne)
                         + 2 * One(q, DaemonTwo) + One(q, DaemonOne)
  <2>1. \A x \in DaemonTwo \cup DaemonOne : /\ count'[x] = count[x] - Is(x, p) + Is(x, q)
                       /\ count[x] \in Nat /\ Is(x, p) \in Nat /\ Is(x, q) \in Nat
    BY <1>1 DEF Phases, Writing, FollowUps, Normals, DaemonTwo, DaemonOne
  <2> QED BY <2>1, OneIsSum DEF DaemonSum, DaemonTwo, DaemonOne
<1> QED BY <1>2, <1>3, <1>4, <1>5, <1>6, <1>7

----------------------------------------------------------------------------
(* Moves that add nothing.                                                 *)

\* The closing records owed in a phase, by work and by a daemon that has begun.
WorkOwes(x) == 2 * One(x, TwoOwed) + One(x, OneOwed)
DaemonOwes(x) == 2 * One(x, DaemonTwo) + One(x, DaemonOne)

\* A move from p to q takes no slot and owes nothing more.
Down(p, q) ==
    /\ p # q
    /\ q \in (Phases \ {"new", "beginning"}) \cup {"none"}
    /\ One(q, SlotPhases) <= One(p, SlotPhases)
    /\ One(q, TransferPhases) <= One(p, TransferPhases)
    /\ One(q, ProbePhases) <= One(p, ProbePhases)
    /\ One(q, DaemonPhases) = One(p, DaemonPhases)
    /\ WorkOwes(q) <= WorkOwes(p)
    /\ DaemonOwes(q) <= DaemonOwes(p)

\* It also pays one of them.
Pays(p, q) == WorkOwes(q) + DaemonOwes(q) + 1 <= WorkOwes(p) + DaemonOwes(p)

\* The sums are numbers.
LEMMA SumsAreNat ==
    ASSUME Typed
    PROVE  /\ InSlot \in Nat /\ Transferring \in Nat /\ Probing \in Nat /\ Daemons \in Nat
           /\ OwedByWork \in Nat /\ DaemonSum \in Nat
PROOF
<1>1. \A x \in Phases : count[x] \in Nat
  BY DEF Typed
<1>2. InSlot \in Nat /\ Transferring \in Nat /\ Probing \in Nat
  BY <1>1 DEF Phases, Writing, FollowUps, Normals, InSlot, Transferring, Probing
<1>3. Daemons \in Nat /\ DaemonSum \in Nat
  BY <1>1 DEF Phases, Writing, FollowUps, Normals, Daemons, DaemonSum
<1>4. OwedByWork \in Nat
  <2>1. \A x \in TwoOwed \cup OneOwed : count[x] \in Nat
    BY <1>1 DEF Phases, Writing, FollowUps, Normals, TwoOwed, OneOwed
  <2>2. TwoSum \in Nat /\ OneSum \in Nat
    BY <2>1 DEF TwoSum, OneSum, TwoOwed, OneOwed
  <2> QED BY <2>2 DEF OwedByWork
<1> QED BY <1>2, <1>3, <1>4

\* A move that adds nothing keeps the bounds and what is owed.
LEMMA DownMoves ==
    ASSUME Typed, Bounded, Begun, NEW p \in Phases \cup {"none"}, NEW q,
           p # "none" => count[p] > 0, Down(p, q), count' = Moved(p, q), began' = began
    PROVE  /\ count' \in [Phases -> Nat] /\ Bounded' /\ Begun'
           /\ Owed \in Nat /\ Owed' \in Nat /\ Owed' <= Owed
           /\ Pays(p, q) => Owed' + 1 <= Owed \/ (Owed = 0 /\ Owed' = 0)
PROOF
<1>1. q \in Phases \cup {"none"} /\ p # q /\ p \in Phases \cup {"none"}
  BY DEF Down
<1>2. count' \in [Phases -> Nat]
  BY <1>1, MoveKeepsType
<1>3. /\ InSlot' = InSlot - One(p, SlotPhases) + One(q, SlotPhases)
      /\ Transferring' = Transferring - One(p, TransferPhases) + One(q, TransferPhases)
      /\ Probing' = Probing - One(p, ProbePhases) + One(q, ProbePhases)
      /\ Daemons' = Daemons - One(p, DaemonPhases) + One(q, DaemonPhases)
      /\ OwedByWork' = OwedByWork - 2 * One(p, TwoOwed) - One(p, OneOwed)
                       + 2 * One(q, TwoOwed) + One(q, OneOwed)
      /\ DaemonSum' = DaemonSum - 2 * One(p, DaemonTwo) - One(p, DaemonOne)
                      + 2 * One(q, DaemonTwo) + One(q, DaemonOne)
  BY <1>1, SumsMove
<1>4. \A x, S : One(x, S) \in {0, 1}
  BY DEF One
<1>5. \A x \in Phases : count[x] \in Nat /\ count'[x] \in Nat
  BY <1>2 DEF Typed
<1>6. /\ InSlot \in Nat /\ Transferring \in Nat /\ Probing \in Nat /\ Daemons \in Nat
      /\ OwedByWork \in Nat /\ DaemonSum \in Nat
  BY SumsAreNat
<1>7. InSlot' \in Nat /\ Transferring' \in Nat /\ Probing' \in Nat
  BY <1>5 DEF Phases, Writing, FollowUps, Normals, InSlot, Transferring, Probing
<1>8. OwedByWork' \in Nat /\ DaemonSum' \in Nat
  <2>1. \A x \in TwoOwed \cup OneOwed : count'[x] \in Nat
    BY <1>5 DEF Phases, Writing, FollowUps, Normals, TwoOwed, OneOwed
  <2>2. OwedByWork' \in Nat
    <3>1. TwoSum' \in Nat /\ OneSum' \in Nat
      BY <2>1 DEF TwoSum, OneSum, TwoOwed, OneOwed
    <3>2. \A a, b \in Nat : 2 * a + b \in Nat
      OBVIOUS
    <3> QED BY <3>1, <3>2, Zenon DEF OwedByWork
  <2>3. DaemonSum' \in Nat
    BY <1>5 DEF Phases, Writing, FollowUps, Normals, DaemonSum
  <2> QED BY <2>2, <2>3
<1>9. InSlot' <= InSlot /\ Transferring' <= Transferring /\ Probing' <= Probing
  BY <1>3, <1>4, <1>6, <1>7 DEF Down
<1>10. Daemons' = Daemons
  BY <1>3, <1>4, <1>6 DEF Down
<1>11. Bounded'
  BY <1>6, <1>7, <1>9, <1>10, AuditWriterAssumption DEF Bounded
<1>12. OwedByWork' = OwedByWork - WorkOwes(p) + WorkOwes(q)
  BY <1>3, <1>4, <1>6 DEF WorkOwes
<1>13. DaemonSum' = DaemonSum - DaemonOwes(p) + DaemonOwes(q)
  BY <1>3, <1>4, <1>6 DEF DaemonOwes
<1>14. \A x : WorkOwes(x) \in Nat /\ DaemonOwes(x) \in Nat
  BY <1>4 DEF WorkOwes, DaemonOwes
<1>15. OwedByWork' <= OwedByWork /\ DaemonSum' <= DaemonSum
  BY <1>6, <1>12, <1>13, <1>14 DEF Down
<1>16. Begun'
  <2>1. began => count'["new"] + count'["beginning"] = 0
    <3>1. "new" \in Phases /\ "beginning" \in Phases
      BY DEF Phases, Writing, FollowUps, Normals
    <3>2. q # "new" /\ q # "beginning"
      BY DEF Down
    <3>3. count'["new"] <= count["new"] /\ count'["beginning"] <= count["beginning"]
      BY <1>1, <1>5, <3>1, <3>2, MoveKeepsType
    <3> QED BY <3>1, <3>3, <1>5 DEF Begun
  <2>2. ~began => OwedByWork' = 0 /\ InSlot' = 0 /\ Transferring' = 0 /\ Probing' = 0
    BY <1>6, <1>7, <1>8, <1>9, <1>15 DEF Begun
  <2> QED BY <2>1, <2>2 DEF Begun
<1>17. OwedByDaemon = (IF began THEN DaemonSum ELSE 0)
       /\ OwedByDaemon' = (IF began THEN DaemonSum' ELSE 0)
  BY DEF OwedByDaemon, DaemonSum
<1>18. Owed \in Nat /\ Owed' \in Nat /\ Owed' <= Owed
  <2>1. CASE began
    <3>1. OwedByDaemon = DaemonSum /\ OwedByDaemon' = DaemonSum'
      BY <2>1, <1>17
    <3>2. \A a, b, c, d \in Nat : c <= a /\ d <= b =>
             a + b \in Nat /\ c + d \in Nat /\ c + d <= a + b
      OBVIOUS
    <3> QED BY <3>1, <3>2, <1>6, <1>8, <1>15, Zenon DEF Owed
  <2>2. CASE ~began
    <3>1. OwedByDaemon = 0 /\ OwedByDaemon' = 0
      BY <2>2, <1>17
    <3>2. \A a, c \in Nat : c <= a => a + 0 \in Nat /\ c + 0 \in Nat /\ c + 0 <= a + 0
      OBVIOUS
    <3> QED BY <3>1, <3>2, <1>6, <1>8, <1>15, Zenon DEF Owed
  <2> QED BY <2>1, <2>2
<1>19. ASSUME Pays(p, q) PROVE Owed' + 1 <= Owed \/ (Owed = 0 /\ Owed' = 0)
  <2>1. CASE began
    BY <2>1, <1>6, <1>8, <1>12, <1>13, <1>14, <1>17, <1>19 DEF Owed, Pays
  <2>2. CASE ~began
    <3>1. OwedByDaemon = 0 /\ OwedByWork = 0
      BY <2>2, <1>17 DEF Begun
    <3>2. Owed = 0
      BY <3>1 DEF Owed
    <3>3. \A a, c \in Nat : c <= a /\ a = 0 => c = 0
      OBVIOUS
    <3> QED BY <3>2, <3>3, <1>18, Zenon
  <2> QED BY <2>1, <2>2
<1> QED BY <1>2, <1>11, <1>16, <1>18, <1>19

\* Outside the writes: the process ends, the daemon goes on.
LEMMA WorkGoesDown ==
    /\ Down("running", "cancelling") /\ Down("running", "completing") /\ Down("running", "none")
    /\ Down("probe_running", "probe_completing") /\ Down("probe_running", "none")
    /\ Down("transferring", "transfer_completing") /\ Down("transferring", "transfer_failing")
    /\ Down("probe_waiting", "reporting") /\ Down("probe_waiting", "none")
    /\ Down("serving", "stopping") /\ Down("draining", "ending") /\ Down("closing", "stopped")
    /\ Down("none", "noticing")
PROOF
  BY DEF Down, WorkOwes, DaemonOwes, One, SlotPhases, TransferPhases, ProbePhases,
         DaemonPhases, TwoOwed, OneOwed, DaemonTwo, DaemonOne, Phases, Writing, FollowUps, Normals

\* A closing record pays, whether it is durable or rejected.
LEMMA ClosingPays ==
    ASSUME NEW p \in FollowUps
    PROVE  /\ Down(p, AfterDurable(p)) /\ Pays(p, AfterDurable(p))
           /\ Down(p, AfterFailure(p)) /\ Pays(p, AfterFailure(p))
PROOF
<1>1. CASE p = "cancelling"
  <2>1. AfterDurable("cancelling") = "completing" /\ AfterFailure("cancelling") = "none"
    BY DEF AfterDurable, AfterFailure
  <2>2. Down("cancelling", "completing") /\ Pays("cancelling", "completing")
    BY DEF Down, Pays, WorkOwes, DaemonOwes, One, SlotPhases, TransferPhases, ProbePhases,
           DaemonPhases, TwoOwed, OneOwed, DaemonTwo, DaemonOne, Phases, Writing, FollowUps, Normals
  <2>3. Down("cancelling", "none") /\ Pays("cancelling", "none")
    BY DEF Down, Pays, WorkOwes, DaemonOwes, One, SlotPhases, TransferPhases, ProbePhases,
           DaemonPhases, TwoOwed, OneOwed, DaemonTwo, DaemonOne, Phases, Writing, FollowUps, Normals
  <2> QED BY <1>1, <2>1, <2>2, <2>3
<1>2. CASE p = "completing"
  <2>1. AfterDurable("completing") = "none" /\ AfterFailure("completing") = "none"
    BY DEF AfterDurable, AfterFailure
  <2>2. Down("completing", "none") /\ Pays("completing", "none")
    BY DEF Down, Pays, WorkOwes, DaemonOwes, One, SlotPhases, TransferPhases, ProbePhases,
           DaemonPhases, TwoOwed, OneOwed, DaemonTwo, DaemonOne, Phases, Writing, FollowUps, Normals
  <2> QED BY <1>2, <2>1, <2>2
<1>3. CASE p = "probe_completing"
  <2>1. AfterDurable("probe_completing") = "probe_waiting" /\ AfterFailure("probe_completing") = "none"
    BY DEF AfterDurable, AfterFailure
  <2>2. Down("probe_completing", "probe_waiting") /\ Pays("probe_completing", "probe_waiting")
    BY DEF Down, Pays, WorkOwes, DaemonOwes, One, SlotPhases, TransferPhases, ProbePhases,
           DaemonPhases, TwoOwed, OneOwed, DaemonTwo, DaemonOne, Phases, Writing, FollowUps, Normals
  <2>3. Down("probe_completing", "none") /\ Pays("probe_completing", "none")
    BY DEF Down, Pays, WorkOwes, DaemonOwes, One, SlotPhases, TransferPhases, ProbePhases,
           DaemonPhases, TwoOwed, OneOwed, DaemonTwo, DaemonOne, Phases, Writing, FollowUps, Normals
  <2> QED BY <1>3, <2>1, <2>2, <2>3
<1>4. CASE p = "reporting"
  <2>1. AfterDurable("reporting") = "none" /\ AfterFailure("reporting") = "none"
    BY DEF AfterDurable, AfterFailure
  <2>2. Down("reporting", "none") /\ Pays("reporting", "none")
    BY DEF Down, Pays, WorkOwes, DaemonOwes, One, SlotPhases, TransferPhases, ProbePhases,
           DaemonPhases, TwoOwed, OneOwed, DaemonTwo, DaemonOne, Phases, Writing, FollowUps, Normals
  <2> QED BY <1>4, <2>1, <2>2
<1>5. CASE p = "transfer_completing"
  <2>1. AfterDurable("transfer_completing") = "none" /\ AfterFailure("transfer_completing") = "transfer_failing"
    BY DEF AfterDurable, AfterFailure
  <2>2. Down("transfer_completing", "none") /\ Pays("transfer_completing", "none")
    BY DEF Down, Pays, WorkOwes, DaemonOwes, One, SlotPhases, TransferPhases, ProbePhases,
           DaemonPhases, TwoOwed, OneOwed, DaemonTwo, DaemonOne, Phases, Writing, FollowUps, Normals
  <2>3. Down("transfer_completing", "transfer_failing") /\ Pays("transfer_completing", "transfer_failing")
    BY DEF Down, Pays, WorkOwes, DaemonOwes, One, SlotPhases, TransferPhases, ProbePhases,
           DaemonPhases, TwoOwed, OneOwed, DaemonTwo, DaemonOne, Phases, Writing, FollowUps, Normals
  <2> QED BY <1>5, <2>1, <2>2, <2>3
<1>6. CASE p = "transfer_failing"
  <2>1. AfterDurable("transfer_failing") = "none" /\ AfterFailure("transfer_failing") = "none"
    BY DEF AfterDurable, AfterFailure
  <2>2. Down("transfer_failing", "none") /\ Pays("transfer_failing", "none")
    BY DEF Down, Pays, WorkOwes, DaemonOwes, One, SlotPhases, TransferPhases, ProbePhases,
           DaemonPhases, TwoOwed, OneOwed, DaemonTwo, DaemonOne, Phases, Writing, FollowUps, Normals
  <2> QED BY <1>6, <2>1, <2>2
<1>7. CASE p = "stopping"
  <2>1. AfterDurable("stopping") = "draining" /\ AfterFailure("stopping") = "draining"
    BY DEF AfterDurable, AfterFailure
  <2>2. Down("stopping", "draining") /\ Pays("stopping", "draining")
    BY DEF Down, Pays, WorkOwes, DaemonOwes, One, SlotPhases, TransferPhases, ProbePhases,
           DaemonPhases, TwoOwed, OneOwed, DaemonTwo, DaemonOne, Phases, Writing, FollowUps, Normals
  <2> QED BY <1>7, <2>1, <2>2
<1>8. CASE p = "ending"
  <2>1. AfterDurable("ending") = "closing" /\ AfterFailure("ending") = "closing"
    BY DEF AfterDurable, AfterFailure
  <2>2. Down("ending", "closing") /\ Pays("ending", "closing")
    BY DEF Down, Pays, WorkOwes, DaemonOwes, One, SlotPhases, TransferPhases, ProbePhases,
           DaemonPhases, TwoOwed, OneOwed, DaemonTwo, DaemonOne, Phases, Writing, FollowUps, Normals
  <2> QED BY <1>8, <2>1, <2>2
<1> QED BY <1>1, <1>2, <1>3, <1>4, <1>5, <1>6, <1>7, <1>8 DEF FollowUps

\* A rejected record of another kind gives its place up; a daemon that cannot load its
\* registry owes its last two records as before.
LEMMA RejectedGoesDown ==
    ASSUME NEW p \in Normals \ {"beginning"}
    PROVE  Down(p, AfterFailure(p))
PROOF
<1>1. CASE p = "starting"
  <2>1. AfterFailure("starting") = "none"
    BY DEF AfterFailure
  <2>2. Down("starting", "none")
    BY DEF Down, WorkOwes, DaemonOwes, One, SlotPhases, TransferPhases, ProbePhases,
           DaemonPhases, TwoOwed, OneOwed, DaemonTwo, DaemonOne, Phases, Writing, FollowUps, Normals
  <2> QED BY <1>1, <2>1, <2>2
<1>2. CASE p = "probe_starting"
  <2>1. AfterFailure("probe_starting") = "none"
    BY DEF AfterFailure
  <2>2. Down("probe_starting", "none")
    BY DEF Down, WorkOwes, DaemonOwes, One, SlotPhases, TransferPhases, ProbePhases,
           DaemonPhases, TwoOwed, OneOwed, DaemonTwo, DaemonOne, Phases, Writing, FollowUps, Normals
  <2> QED BY <1>2, <2>1, <2>2
<1>3. CASE p = "transfer_starting"
  <2>1. AfterFailure("transfer_starting") = "none"
    BY DEF AfterFailure
  <2>2. Down("transfer_starting", "none")
    BY DEF Down, WorkOwes, DaemonOwes, One, SlotPhases, TransferPhases, ProbePhases,
           DaemonPhases, TwoOwed, OneOwed, DaemonTwo, DaemonOne, Phases, Writing, FollowUps, Normals
  <2> QED BY <1>3, <2>1, <2>2
<1>4. CASE p = "loading"
  <2>1. AfterFailure("loading") = "stopping"
    BY DEF AfterFailure
  <2>2. Down("loading", "stopping")
    BY DEF Down, WorkOwes, DaemonOwes, One, SlotPhases, TransferPhases, ProbePhases,
           DaemonPhases, TwoOwed, OneOwed, DaemonTwo, DaemonOne, Phases, Writing, FollowUps, Normals
  <2> QED BY <1>4, <2>1, <2>2
<1>5. CASE p = "noticing"
  <2>1. AfterFailure("noticing") = "none"
    BY DEF AfterFailure
  <2>2. Down("noticing", "none")
    BY DEF Down, WorkOwes, DaemonOwes, One, SlotPhases, TransferPhases, ProbePhases,
           DaemonPhases, TwoOwed, OneOwed, DaemonTwo, DaemonOne, Phases, Writing, FollowUps, Normals
  <2> QED BY <1>5, <2>1, <2>2
<1> QED BY <1>1, <1>2, <1>3, <1>4, <1>5 DEF Normals

----------------------------------------------------------------------------
(* Moves that take a slot or begin to owe.                                 *)

\* A move into a free slot keeps the bounds.
LEMMA UpMoves ==
    ASSUME Typed, Bounded, Begun, began, began' = began,
           NEW p \in Phases \cup {"none"}, NEW q \in Phases \ {"new", "beginning"}, p # q,
           p # "none" => count[p] > 0, count' = Moved(p, q),
           InSlot - One(p, SlotPhases) + One(q, SlotPhases) <= MaxExecutions,
           Transferring - One(p, TransferPhases) + One(q, TransferPhases) <= MaxTransfers,
           Probing - One(p, ProbePhases) + One(q, ProbePhases) <= MaxProbing,
           One(p, DaemonPhases) = One(q, DaemonPhases)
    PROVE  count' \in [Phases -> Nat] /\ Bounded' /\ Begun'
PROOF
<1>1. count' \in [Phases -> Nat]
  BY MoveKeepsType
<1>2. /\ InSlot' = InSlot - One(p, SlotPhases) + One(q, SlotPhases)
      /\ Transferring' = Transferring - One(p, TransferPhases) + One(q, TransferPhases)
      /\ Probing' = Probing - One(p, ProbePhases) + One(q, ProbePhases)
      /\ Daemons' = Daemons - One(p, DaemonPhases) + One(q, DaemonPhases)
  BY SumsMove
<1>3. One(p, DaemonPhases) \in Nat /\ Daemons = 1
  BY DEF One, Bounded
<1>4. Daemons' = 1
  BY <1>2, <1>3
<1>5. Bounded'
  BY <1>2, <1>4 DEF Bounded
<1>6. Begun'
  <2>1. "new" \in Phases /\ "beginning" \in Phases
    BY DEF Phases, Writing, FollowUps, Normals
  <2>2. /\ count["new"] \in Nat /\ count["beginning"] \in Nat
        /\ count'["new"] \in Nat /\ count'["beginning"] \in Nat
    BY <1>1, <2>1 DEF Typed
  <2>3. count'["new"] <= count["new"] /\ count'["beginning"] <= count["beginning"]
    BY <2>1, <2>2, MoveKeepsType
  <2>4. count["new"] + count["beginning"] = 0
    BY DEF Begun
  <2>5. count'["new"] + count'["beginning"] = 0
    BY <2>2, <2>3, <2>4
  <2> QED BY <2>5 DEF Begun
<1> QED BY <1>1, <1>5, <1>6

\* Work that has taken a slot shows that the daemon has begun.
LEMMA WorkMeansBegun ==
    ASSUME Typed, Begun, NEW p \in {"starting", "probe_starting", "transfer_starting"}, count[p] > 0
    PROVE  began
PROOF
<1>1. SUFFICES ASSUME ~began PROVE FALSE
  OBVIOUS
<1>2. InSlot = 0 /\ Transferring = 0
  BY <1>1 DEF Begun
<1>3. \A x \in Phases : count[x] \in Nat
  BY DEF Typed
<1>4. \A x \in SlotPhases \cup TransferPhases : count[x] = 0
  BY <1>2, <1>3 DEF InSlot, Transferring, SlotPhases, TransferPhases, Phases, Writing, FollowUps, Normals
<1> QED BY <1>4 DEF SlotPhases, TransferPhases

\* A record that lets work begin.
LEMMA StartedMoves ==
    ASSUME Typed, Bounded, Begun,
           NEW p \in {"starting", "probe_starting", "transfer_starting"}, count[p] > 0,
           count' = Moved(p, AfterDurable(p)), began' = began
    PROVE  count' \in [Phases -> Nat] /\ Bounded' /\ Begun'
PROOF
<1>1. began
  BY WorkMeansBegun
<1>2. /\ InSlot \in Nat /\ Transferring \in Nat /\ Probing \in Nat
      /\ InSlot <= MaxExecutions /\ Transferring <= MaxTransfers /\ Probing <= MaxProbing
  BY SumsAreNat DEF Bounded
<1> DEFINE q == AfterDurable(p)
<1>3. q \in Phases \ {"new", "beginning"} /\ p # q /\ p \in Phases
  BY DEF AfterDurable, Phases, Writing, FollowUps, Normals
<1>4. /\ One(p, SlotPhases) = One(q, SlotPhases) /\ One(p, TransferPhases) = One(q, TransferPhases)
      /\ One(p, ProbePhases) = One(q, ProbePhases) /\ One(p, DaemonPhases) = One(q, DaemonPhases)
  BY DEF AfterDurable, One, SlotPhases, TransferPhases, ProbePhases, DaemonPhases
<1>5. \A x, S : One(x, S) \in Nat
  BY DEF One
<1> HIDE DEF q
<1>6. /\ InSlot - One(p, SlotPhases) + One(q, SlotPhases) <= MaxExecutions
      /\ Transferring - One(p, TransferPhases) + One(q, TransferPhases) <= MaxTransfers
      /\ Probing - One(p, ProbePhases) + One(q, ProbePhases) <= MaxProbing
  BY <1>2, <1>4, <1>5, AuditWriterAssumption
<1>7. count' = Moved(p, q)
  BY DEF q
<1> QED BY <1>1, <1>3, <1>4, <1>6, <1>7, UpMoves

\* A daemon before its first record: it owes nothing, and neither does anything else.
LEMMA DaemonMoves ==
    ASSUME Typed, Bounded, Begun,
           NEW p \in {"new", "beginning"}, NEW q \in {"beginning", "loading", "stopping"}, p # q,
           count[p] > 0, count' = Moved(p, q),
           began' = (began \/ q = "loading"), q = "loading" => p = "beginning"
    PROVE  /\ count' \in [Phases -> Nat] /\ Bounded' /\ Begun'
           /\ q # "loading" => Owed' = 0
PROOF
<1>1. p \in Phases /\ q \in Phases /\ "new" \in Phases /\ "beginning" \in Phases
  BY DEF Phases, Writing, FollowUps, Normals
<1>2. /\ count' \in [Phases -> Nat]
      /\ \A x \in Phases : count'[x] =
           IF x = p THEN count[x] - 1 ELSE IF x = q THEN count[x] + 1 ELSE count[x]
  BY <1>1, MoveKeepsType
<1>3. count["new"] \in Nat /\ count["beginning"] \in Nat
  BY <1>1 DEF Typed
<1>4. ~began
  BY <1>3 DEF Begun
<1>5. /\ InSlot' = InSlot - One(p, SlotPhases) + One(q, SlotPhases)
      /\ Transferring' = Transferring - One(p, TransferPhases) + One(q, TransferPhases)
      /\ Probing' = Probing - One(p, ProbePhases) + One(q, ProbePhases)
      /\ Daemons' = Daemons - One(p, DaemonPhases) + One(q, DaemonPhases)
      /\ OwedByWork' = OwedByWork - 2 * One(p, TwoOwed) - One(p, OneOwed)
                       + 2 * One(q, TwoOwed) + One(q, OneOwed)
  BY <1>1, SumsMove
<1>6. /\ One(p, SlotPhases) = 0 /\ One(q, SlotPhases) = 0
      /\ One(p, TransferPhases) = 0 /\ One(q, TransferPhases) = 0
      /\ One(p, ProbePhases) = 0 /\ One(q, ProbePhases) = 0
      /\ One(p, DaemonPhases) = 1 /\ One(q, DaemonPhases) = 1
      /\ One(p, TwoOwed) = 0 /\ One(q, TwoOwed) = 0 /\ One(p, OneOwed) = 0 /\ One(q, OneOwed) = 0
  BY DEF One, SlotPhases, TransferPhases, ProbePhases, DaemonPhases, TwoOwed, OneOwed
<1>7. InSlot = 0 /\ Transferring = 0 /\ Probing = 0 /\ Daemons = 1 /\ OwedByWork = 0
  BY <1>4 DEF Begun, Bounded
<1>8. InSlot' = 0 /\ Transferring' = 0 /\ Probing' = 0 /\ Daemons' = 1 /\ OwedByWork' = 0
  BY <1>5, <1>6, <1>7
<1>9. Bounded'
  <2>1. 0 <= MaxExecutions /\ 0 <= MaxTransfers /\ 0 <= MaxProbing
    BY AuditWriterAssumption
  <2> QED BY <1>8, <2>1 DEF Bounded
<1>10. Begun'
  <2>1. CASE q = "loading"
    <3>1. count["new"] + count["beginning"] <= 1
      <4>1. \A x \in DaemonPhases : count[x] \in Nat
        BY DEF Typed, DaemonPhases, Phases, Writing, FollowUps, Normals
      <4> QED BY <4>1, <1>7 DEF Daemons, DaemonPhases
    <3>2. count'["new"] = count["new"] /\ count'["beginning"] = count["beginning"] - 1
      BY <1>1, <1>2, <2>1
    <3>3. count'["new"] + count'["beginning"] = 0
      BY <3>1, <3>2, <1>3, <2>1
    <3> QED BY <3>3, <2>1, <1>8 DEF Begun
  <2>2. CASE q # "loading"
    BY <2>2, <1>4, <1>8 DEF Begun
  <2> QED BY <2>1, <2>2
<1>11. ASSUME q # "loading" PROVE Owed' = 0
  <2>1. OwedByDaemon' = 0
    BY <1>4, <1>11 DEF OwedByDaemon
  <2>2. Owed' = OwedByWork' + OwedByDaemon'
    BY DEF Owed
  <2> QED BY <1>8, <2>1, <2>2
<1> QED BY <1>2, <1>9, <1>10, <1>11

----------------------------------------------------------------------------
(* The room that is left.                                                  *)

\* Nothing written, nothing more owed.
LEMMA RoomKept ==
    ASSUME Room, Owed \in Nat, Owed' \in Nat, Owed' <= Owed, size \in Nat, size' = size
    PROVE  Room'
PROOF
<1>1. RecordBytes \in Nat /\ MaxBytes \in Nat
  BY ReservationCovers
<1>2. RecordBytes * Owed \in Nat /\ RecordBytes * Owed' \in Nat
      /\ RecordBytes * Owed' <= RecordBytes * Owed
  BY <1>1, Scaling
<1>3. \A x, y, z, m \in Nat : y <= z /\ x + z <= m => x + y <= m
  OBVIOUS
<1> QED BY <1>1, <1>2, <1>3, Zenon DEF Room

\* A record written by someone who owed it.
LEMMA RoomSpent ==
    ASSUME Room, Owed \in Nat, Owed' \in Nat, Owed' + 1 <= Owed,
           size \in Nat, NEW k \in 0..RecordBytes, size' = size + k
    PROVE  Room'
PROOF
<1>1. RecordBytes \in Nat /\ MaxBytes \in Nat /\ k \in Nat /\ k <= RecordBytes
  BY ReservationCovers
<1>2. RecordBytes * Owed \in Nat /\ RecordBytes * Owed' \in Nat
      /\ RecordBytes * Owed' + RecordBytes <= RecordBytes * Owed
  BY <1>1, Scaling
<1>3. \A x, j, y, z, r, m \in Nat : j <= r /\ y + r <= z /\ x + z <= m => (x + j) + y <= m
  OBVIOUS
<1> QED BY <1>1, <1>2, <1>3, Zenon DEF Room

\* Below the normal limit, all that can be owed has room.
LEMMA RoomReserved ==
    ASSUME Owed' \in Nat, Owed' <= MaxOwed, size' \in Nat, size' <= NormalWriteLimit
    PROVE  Room'
PROOF
<1>1. /\ RecordBytes \in Nat /\ MaxBytes \in Nat /\ MaxOwed \in Nat /\ Reserved \in Nat
      /\ NormalWriteLimit \in Nat /\ NormalWriteLimit + Reserved = MaxBytes
      /\ RecordBytes * MaxOwed <= Reserved
  BY ReservationCovers
<1>2. RecordBytes * Owed' \in Nat /\ RecordBytes * Owed' <= RecordBytes * MaxOwed
      /\ RecordBytes * MaxOwed \in Nat
  BY <1>1, Scaling
<1>3. \A x, y, z \in Nat : x <= y /\ y <= z => x <= z
  OBVIOUS
<1>4. RecordBytes * Owed' <= Reserved
  BY <1>1, <1>2, <1>3, Zenon
<1>5. \A x, y, r, n \in Nat : x <= n /\ y <= r => x + y <= n + r
  OBVIOUS
<1>6. size' + RecordBytes * Owed' <= NormalWriteLimit + Reserved
  BY <1>1, <1>2, <1>4, <1>5, Zenon
<1> QED BY <1>1, <1>6, Zenon DEF Room

\* Nothing owed.
LEMMA RoomOfNothing ==
    ASSUME Owed' = 0, size' \in Nat, size' <= MaxBytes
    PROVE  Room'
PROOF
<1>1. RecordBytes * 0 = 0
  BY ReservationCovers
<1>2. \A x \in Nat : x + 0 = x
  OBVIOUS
<1> QED BY <1>1, <1>2, Zenon DEF Room

\* OwedIsBounded of the next state.
LEMMA OwedIsBoundedNext ==
    (Typed' /\ Bounded') => (Owed' \in Nat /\ Owed' <= MaxOwed)
PROOF
<1> DEFINE InBounds == Owed \in Nat /\ Owed <= MaxOwed
<1>1. (Typed /\ Bounded) => InBounds
  BY OwedIsBounded
<1> HIDE DEF InBounds
<1>2. (Typed' /\ Bounded') => InBounds'
  BY <1>1, PTL
<1> QED BY <1>2 DEF InBounds, MaxOwed

----------------------------------------------------------------------------
(* The steps.                                                              *)

\* A durable record keeps the invariant (write(), its successful end).
LEMMA DurableKeeps ==
    ASSUME CapacityInv, NEW p \in Writing, NEW n \in 1..RecordBytes, Durable(p, n)
    PROVE  CapacityInv'
PROOF
<1> USE DEF CapacityInv
<1>1. n \in 0..RecordBytes /\ n \in Nat /\ RecordBytes \in Nat /\ MaxBytes \in Nat
  BY ReservationCovers
<1>2. size' = size + n /\ size \in Nat /\ size' \in Nat /\ count[p] > 0
  BY <1>1 DEF Durable, Typed
<1>3. count' = Moved(p, AfterDurable(p)) /\ began' = (began \/ p = "beginning") /\ began \in BOOLEAN
  BY DEF Durable, Typed
<1>4. ASSUME count' \in [Phases -> Nat] PROVE Typed'
  BY <1>2, <1>3, <1>4 DEF Durable, Typed
<1>5. p \in Phases /\ p # "none"
  BY DEF Phases, Writing, FollowUps, Normals
<1>6. CASE p \in FollowUps
  <2>1. Down(p, AfterDurable(p)) /\ Pays(p, AfterDurable(p))
    BY <1>6, ClosingPays
  <2>2. began' = began
    BY <1>3, <1>6 DEF FollowUps
  <2>3. /\ count' \in [Phases -> Nat] /\ Bounded' /\ Begun' /\ Owed \in Nat /\ Owed' \in Nat
        /\ Owed' + 1 <= Owed \/ (Owed = 0 /\ Owed' = 0)
    BY <1>2, <1>3, <1>5, <2>1, <2>2, DownMoves
  <2>4. size' <= MaxBytes
    BY <1>2, <1>6 DEF Durable, Fits, WriteLimit
  <2>5. Room'
    BY <1>1, <1>2, <2>3, <2>4, RoomSpent, RoomOfNothing
  <2> QED BY <1>4, <2>3, <2>5
<1>7. CASE p \in Normals
  <2>1. size' <= NormalWriteLimit
    <3>1. p \notin FollowUps
      BY <1>7 DEF FollowUps, Normals
    <3> QED BY <3>1, <1>2 DEF Durable, Fits, WriteLimit
  <2>2. count' \in [Phases -> Nat] /\ Bounded' /\ Begun'
    <3>1. CASE p \in {"starting", "probe_starting", "transfer_starting"}
      BY <3>1, <1>2, <1>3, StartedMoves
    <3>2. CASE p = "beginning"
      <4>1. AfterDurable(p) = "loading"
        BY <3>2 DEF AfterDurable
      <4> QED BY <3>2, <4>1, <1>2, <1>3, DaemonMoves
    <3>3. CASE p \in {"loading", "noticing"}
      <4>1. Down(p, AfterDurable(p))
        BY <3>3 DEF AfterDurable, Down, WorkOwes, DaemonOwes, One, SlotPhases,
           TransferPhases, ProbePhases, DaemonPhases, TwoOwed, OneOwed, DaemonTwo, DaemonOne,
           Phases, Writing, FollowUps, Normals
      <4>2. began' = began
        BY <3>3, <1>3
      <4> QED BY <1>2, <1>3, <1>5, <4>1, <4>2, DownMoves
    <3> QED BY <1>7, <3>1, <3>2, <3>3 DEF Normals
  <2>3. Room'
    BY <1>2, <1>4, <2>1, <2>2, OwedIsBoundedNext, RoomReserved
  <2> QED BY <1>4, <2>2, <2>3
<1> QED BY <1>6, <1>7 DEF Writing

\* Rejections: what a record has left in the file is paid for by giving it up.
LEMMA RejectedKeeps ==
    ASSUME CapacityInv, NEW p \in Writing, NEW k \in 0..RecordBytes, count[p] > 0,
           k = 0 \/ size + k <= WriteLimit(p),
           size' = size + k, count' = Moved(p, AfterFailure(p)), began' = began
    PROVE  (count' \in [Phases -> Nat] /\ Bounded' /\ Begun' /\ Room' /\ size' \in Nat)
PROOF
<1> USE DEF CapacityInv
<1>1. k \in Nat /\ RecordBytes \in Nat /\ MaxBytes \in Nat
  BY ReservationCovers
<1>2. size \in Nat /\ size' \in Nat /\ began \in BOOLEAN
  BY <1>1 DEF Typed
<1>3. p \in Phases /\ p # "none"
  BY DEF Phases, Writing, FollowUps, Normals
<1>4. CASE p \in FollowUps
  <2>1. Down(p, AfterFailure(p)) /\ Pays(p, AfterFailure(p))
    BY <1>4, ClosingPays
  <2>2. /\ count' \in [Phases -> Nat] /\ Bounded' /\ Begun' /\ Owed \in Nat /\ Owed' \in Nat
        /\ Owed' <= Owed /\ (Owed' + 1 <= Owed \/ (Owed = 0 /\ Owed' = 0))
    BY <1>3, <2>1, DownMoves
  <2>3. CASE k = 0
    <3>1. size' = size
      BY <2>3, <1>2
    <3>2. Room'
      BY <3>1, <1>2, <2>2, RoomKept
    <3> QED BY <1>2, <2>2, <3>2
  <2>4. CASE k # 0
    <3>1. size' <= MaxBytes
      BY <2>4, <1>4 DEF WriteLimit
    <3>2. Room'
      BY <1>2, <2>2, <3>1, RoomSpent, RoomOfNothing
    <3> QED BY <1>2, <2>2, <3>2
  <2> QED BY <2>3, <2>4
<1>5. CASE p \in Normals \ {"beginning"}
  <2>1. Down(p, AfterFailure(p))
    BY <1>5, RejectedGoesDown
  <2>2. /\ count' \in [Phases -> Nat] /\ Bounded' /\ Begun' /\ Owed \in Nat /\ Owed' \in Nat
        /\ Owed' <= Owed
    BY <1>3, <2>1, DownMoves
  <2>3. CASE k = 0
    <3>1. size' = size
      BY <2>3, <1>2
    <3>2. Room'
      BY <3>1, <1>2, <2>2, RoomKept
    <3> QED BY <1>2, <2>2, <3>2
  <2>4. CASE k # 0
    <3>1. size' <= NormalWriteLimit
      BY <2>4, <1>5 DEF WriteLimit, FollowUps, Normals
    <3>2. Owed <= MaxOwed /\ MaxOwed \in Nat
      BY OwedIsBounded, ReservationCovers
    <3>3. \A a, b, c \in Nat : a <= b /\ b <= c => a <= c
      OBVIOUS
    <3>4. Owed' <= MaxOwed
      BY <2>2, <3>2, <3>3, Zenon
    <3>5. Room'
      BY <1>2, <2>2, <3>1, <3>4, RoomReserved
    <3> QED BY <1>2, <2>2, <3>5
  <2> QED BY <2>3, <2>4
<1>6. CASE p = "beginning"
  <2>1. AfterFailure(p) = "stopping"
    BY <1>6 DEF AfterFailure
  <2>2. count' \in [Phases -> Nat] /\ Bounded' /\ Begun' /\ Owed' = 0
    BY <1>2, <1>6, <2>1, DaemonMoves
  <2>3. size' <= MaxBytes
    <3>1. CASE k = 0
      <4>1. Owed \in Nat /\ RecordBytes * Owed \in Nat
        BY <1>1, OwedIsBounded, Scaling
      <4> QED BY <3>1, <4>1, <1>1, <1>2 DEF Room
    <3>2. CASE k # 0
      BY <3>2, <1>1, <1>2, <1>6, ReservationCovers DEF WriteLimit, FollowUps
    <3> QED BY <3>1, <3>2
  <2> QED BY <1>2, <2>2, <2>3, RoomOfNothing
<1> QED BY <1>4, <1>5, <1>6 DEF Writing

\* The requests that take a slot.
LEMMA AdmissionKeeps ==
    ASSUME CapacityInv, StartExecution \/ StartProbe \/ StartTransfer
    PROVE  CapacityInv'
PROOF
<1> USE DEF CapacityInv
<1>1. PICK q \in {"starting", "probe_starting", "transfer_starting"} :
        /\ Goes("none", q) /\ began
        /\ q \in {"starting", "probe_starting"} => InSlot < MaxExecutions
        /\ q = "probe_starting" => Probing < MaxProbing
        /\ q = "transfer_starting" => Transferring < MaxTransfers
  BY DEF StartExecution, StartProbe, StartTransfer, Listening
<1>2. count' = Moved("none", q) /\ began' = began /\ UNCHANGED <<size, handle, closed, failures>>
  BY <1>1 DEF Goes
<1>3. /\ InSlot \in Nat /\ Transferring \in Nat /\ Probing \in Nat
      /\ InSlot <= MaxExecutions /\ Transferring <= MaxTransfers /\ Probing <= MaxProbing
      /\ MaxExecutions \in Nat /\ MaxTransfers \in Nat /\ MaxProbing \in Nat
  BY SumsAreNat, AuditWriterAssumption DEF Bounded
<1>4. /\ One("none", SlotPhases) = 0 /\ One("none", TransferPhases) = 0
      /\ One("none", ProbePhases) = 0 /\ One("none", DaemonPhases) = 0
      /\ One(q, SlotPhases) = (IF q \in {"starting", "probe_starting"} THEN 1 ELSE 0)
      /\ One(q, TransferPhases) = (IF q = "transfer_starting" THEN 1 ELSE 0)
      /\ One(q, ProbePhases) = (IF q = "probe_starting" THEN 1 ELSE 0)
      /\ One(q, DaemonPhases) = 0
  BY DEF One, SlotPhases, TransferPhases, ProbePhases, DaemonPhases
<1>5. /\ InSlot - One("none", SlotPhases) + One(q, SlotPhases) <= MaxExecutions
      /\ Transferring - One("none", TransferPhases) + One(q, TransferPhases) <= MaxTransfers
      /\ Probing - One("none", ProbePhases) + One(q, ProbePhases) <= MaxProbing
  BY <1>1, <1>3, <1>4
<1>6. q \in Phases \ {"new", "beginning"} /\ "none" # q
  BY DEF Phases, Writing, FollowUps, Normals
<1>7. count' \in [Phases -> Nat] /\ Bounded' /\ Begun'
  BY <1>1, <1>2, <1>4, <1>5, <1>6, UpMoves
<1>8. Typed'
  BY <1>2, <1>7 DEF Typed
<1>9. Owed \in Nat /\ Owed' \in Nat /\ Owed' <= Owed
  <2>1. Owed \in Nat
    BY OwedIsBounded
  <2>2. OwedByWork' = OwedByWork /\ DaemonSum' = DaemonSum
    <3>1. /\ One("none", TwoOwed) = 0 /\ One("none", OneOwed) = 0 /\ One(q, TwoOwed) = 0
          /\ One(q, OneOwed) = 0 /\ One("none", DaemonTwo) = 0 /\ One("none", DaemonOne) = 0
          /\ One(q, DaemonTwo) = 0 /\ One(q, DaemonOne) = 0
      BY DEF One, TwoOwed, OneOwed, DaemonTwo, DaemonOne
    <3>2. OwedByWork \in Nat /\ DaemonSum \in Nat
      BY SumsAreNat
    <3>3. /\ OwedByWork' = OwedByWork - 2 * One("none", TwoOwed) - One("none", OneOwed)
                           + 2 * One(q, TwoOwed) + One(q, OneOwed)
          /\ DaemonSum' = DaemonSum - 2 * One("none", DaemonTwo) - One("none", DaemonOne)
                          + 2 * One(q, DaemonTwo) + One(q, DaemonOne)
      BY <1>2, <1>6, SumsMove
    <3> QED BY <3>1, <3>2, <3>3
  <2>3. OwedByDaemon' = OwedByDaemon
    <3>1. OwedByDaemon = (IF began THEN DaemonSum ELSE 0)
          /\ OwedByDaemon' = (IF began' THEN DaemonSum' ELSE 0)
      BY DEF OwedByDaemon, DaemonSum
    <3> QED BY <1>2, <2>2, <3>1
  <2>4. Owed' = Owed
    BY <2>2, <2>3, Zenon DEF Owed
  <2>5. \A a \in Nat : a <= a
    OBVIOUS
  <2> QED BY <2>1, <2>4, <2>5, Zenon
<1>10. Room'
  BY <1>2, <1>9, RoomKept DEF Typed
<1> QED BY <1>7, <1>8, <1>10

\* The steps between two records.
LEMMA WorkKeeps ==
    ASSUME CapacityInv,
           Work \/ Notice \/ Stop \/ EndDaemon \/ CloseHandle
    PROVE  CapacityInv'
PROOF
<1> USE DEF CapacityInv
<1>1. PICK p \in Phases \cup {"none"}, q \in Phases \cup {"none"} :
        Down(p, q) /\ Goes(p, q) /\ (p # "none" => count[p] > 0)
  <2>1. {"running", "probe_running", "transferring", "probe_waiting", "serving", "draining",
         "closing", "stopped"} \cup Writing \subseteq Phases
    BY DEF Phases
  <2> USE <2>1 DEF Writing, FollowUps, Normals
  <2>2. CASE ExecutionEnds BY <2>1, <2>2, WorkGoesDown DEF ExecutionEnds
  <2>3. CASE ProbeEnds BY <2>1, <2>3, WorkGoesDown DEF ProbeEnds
  <2>4. CASE TransferEnds BY <2>1, <2>4, WorkGoesDown DEF TransferEnds
  <2>5. CASE ReportProbe BY <2>1, <2>5, WorkGoesDown DEF ReportProbe
  <2>6. CASE Notice BY <2>6, WorkGoesDown DEF Notice
  <2>7. CASE Stop BY <2>1, <2>7, WorkGoesDown DEF Stop
  <2>8. CASE EndDaemon BY <2>1, <2>8, WorkGoesDown DEF EndDaemon
  <2>9. CASE CloseHandle BY <2>1, <2>9, WorkGoesDown DEF CloseHandle
  <2> QED BY <2>2, <2>3, <2>4, <2>5, <2>6, <2>7, <2>8, <2>9 DEF Work
<1>2. count' = Moved(p, q) /\ began' = began /\ UNCHANGED <<size, handle, closed, failures>>
  BY <1>1 DEF Goes
<1>3. /\ count' \in [Phases -> Nat] /\ Bounded' /\ Begun'
      /\ Owed \in Nat /\ Owed' \in Nat /\ Owed' <= Owed
  BY <1>1, <1>2, DownMoves
<1>4. Typed'
  BY <1>2, <1>3 DEF Typed
<1>5. Room'
  BY <1>2, <1>3, RoomKept DEF Typed
<1> QED BY <1>3, <1>4, <1>5

\* A link of the chain keeps the invariant, however it ends.
LEMMA LinkKeeps ==
    ASSUME CapacityInv, NEW p \in Writing, Link(p)
    PROVE  CapacityInv'
PROOF
<1>1. PICK n \in 1..RecordBytes :
        Durable(p, n) \/ Refused(p, n) \/ (\E k \in 0..n : Broken(p, n, k))
  BY DEF Link, RecordSizes
<1>2. CASE Durable(p, n)
  BY <1>2, DurableKeeps
<1>3. CASE Refused(p, n)
  <2>1. 0 \in 0..RecordBytes /\ size \in Nat
    BY ReservationCovers DEF CapacityInv, Typed
  <2>2. size' = size + 0 /\ count[p] > 0 /\ count' = Moved(p, AfterFailure(p)) /\ began' = began
    BY <1>3, <2>1 DEF Refused
  <2>3. count' \in [Phases -> Nat] /\ Bounded' /\ Begun' /\ Room' /\ size' \in Nat
    BY <2>1, <2>2, RejectedKeeps
  <2>4. Typed'
    BY <1>3, <2>3 DEF Refused, Typed, CapacityInv
  <2> QED BY <2>3, <2>4 DEF CapacityInv
<1>4. ASSUME NEW k \in 0..n, Broken(p, n, k) PROVE CapacityInv'
  <2>1. k \in 0..RecordBytes /\ size \in Nat /\ n \in Nat /\ k \in Nat /\ k <= n
    BY ReservationCovers DEF CapacityInv, Typed
  <2>2. k = 0 \/ size + k <= WriteLimit(p)
    <3>1. SUFFICES ASSUME k # 0 PROVE size + k <= WriteLimit(p)
      OBVIOUS
    <3>2. size + n <= WriteLimit(p)
      BY <1>4, <3>1 DEF Broken, Fits
    <3>3. WriteLimit(p) \in Nat
      BY ReservationCovers DEF WriteLimit
    <3> QED BY <2>1, <3>2, <3>3
  <2>3. size' = size + k /\ count[p] > 0 /\ count' = Moved(p, AfterFailure(p)) /\ began' = began
    BY <1>4 DEF Broken
  <2>4. count' \in [Phases -> Nat] /\ Bounded' /\ Begun' /\ Room' /\ size' \in Nat
    BY <2>1, <2>2, <2>3, RejectedKeeps
  <2>5. failures' \in 0..MaxFailures
    BY <1>4, AuditWriterAssumption DEF Broken, Typed, CapacityInv
  <2>6. Typed'
    BY <1>4, <2>4, <2>5 DEF Broken, Typed, CapacityInv
  <2> QED BY <2>4, <2>6 DEF CapacityInv
<1> QED BY <1>1, <1>2, <1>3, <1>4

\* The daemon asks for its first record.
LEMMA BeginKeeps ==
    ASSUME CapacityInv, BeginDaemon
    PROVE  CapacityInv'
PROOF
<1> USE DEF CapacityInv
<1>1. count' = Moved("new", "beginning") /\ began' = began /\ count["new"] > 0
      /\ UNCHANGED <<size, handle, closed, failures>> /\ began \in BOOLEAN
  BY DEF BeginDaemon, Goes, Typed
<1>2. count' \in [Phases -> Nat] /\ Bounded' /\ Begun' /\ Owed' = 0
  BY <1>1, DaemonMoves
<1>3. Typed'
  BY <1>1, <1>2 DEF Typed
<1>4. Owed \in Nat /\ Owed' \in Nat /\ Owed' <= Owed
  <2>1. Owed \in Nat
    BY OwedIsBounded
  <2>2. \A a \in Nat : 0 <= a /\ 0 \in Nat
    OBVIOUS
  <2> QED BY <1>2, <2>1, <2>2, Zenon
<1>5. Room'
  BY <1>1, <1>4, RoomKept DEF Typed
<1> QED BY <1>2, <1>3, <1>5

\* Nothing but the flag changes, or nothing at all.
LEMMA CountsKept ==
    ASSUME CapacityInv, UNCHANGED <<size, handle, count, began, failures>>, closed' \in BOOLEAN
    PROVE  CapacityInv'
PROOF
<1>1. Typed'
  BY DEF CapacityInv, Typed
<1>2. InSlot' = InSlot /\ Transferring' = Transferring /\ Probing' = Probing /\ Daemons' = Daemons
  BY DEF InSlot, Transferring, Probing, Daemons
<1>3. OwedByWork' = OwedByWork /\ OwedByDaemon' = OwedByDaemon
  BY DEF OwedByWork, OwedByDaemon, TwoSum, OneSum
<1>4. Owed' = Owed
  BY <1>3, Zenon DEF Owed
<1>5. Bounded' /\ Begun'
  BY <1>2, <1>3 DEF CapacityInv, Bounded, Begun
<1>6. Room'
  BY <1>4, Zenon DEF CapacityInv, Room
<1> QED BY <1>1, <1>5, <1>6 DEF CapacityInv

\* A daemon that has not begun owes nothing.
LEMMA InitHasRoom == Init => CapacityInv
PROOF
<1> SUFFICES ASSUME Init PROVE CapacityInv
  OBVIOUS
<1>1. \A x \in Phases : count[x] = IF x = "new" THEN 1 ELSE 0
  BY DEF Init
<1>2. Typed
  <2>1. count \in [Phases -> Nat]
    BY DEF Init
  <2>2. size \in Nat /\ failures \in 0..MaxFailures
    BY AuditWriterAssumption DEF Init
  <2> QED BY <2>1, <2>2 DEF Init, Typed
<1>3. InSlot = 0 /\ Transferring = 0 /\ Probing = 0 /\ Daemons = 1
  <2>1. InSlot = 0
    <3>1. \A x \in SlotPhases : count[x] = 0
      BY <1>1 DEF SlotPhases, Phases, Writing, FollowUps, Normals
    <3> QED BY <3>1 DEF InSlot, SlotPhases
  <2>2. Transferring = 0 /\ Probing = 0
    <3>1. \A x \in TransferPhases \cup ProbePhases : count[x] = 0
      BY <1>1 DEF TransferPhases, ProbePhases, Phases, Writing, FollowUps, Normals
    <3> QED BY <3>1 DEF Transferring, Probing, TransferPhases, ProbePhases
  <2>3. Daemons = 1
    <3>1. \A x \in DaemonPhases : count[x] = IF x = "new" THEN 1 ELSE 0
      BY <1>1 DEF DaemonPhases, Phases, Writing, FollowUps, Normals
    <3> QED BY <3>1 DEF Daemons, DaemonPhases
  <2> QED BY <2>1, <2>2, <2>3
<1>4. TwoSum = 0 /\ OneSum = 0
  BY <1>1 DEF TwoSum, OneSum, Phases, Writing, FollowUps, Normals
<1>5. OwedByWork = 0 /\ OwedByDaemon = 0
  BY <1>4 DEF OwedByWork, OwedByDaemon, Init
<1>6. Owed = 0
  BY <1>5 DEF Owed
<1>7. Bounded
  BY <1>3, AuditWriterAssumption DEF Bounded
<1>8. Begun
  BY <1>3, <1>5 DEF Begun, Init
<1>9. Room
  <2>1. RecordBytes * 0 = 0 /\ size \in Nat /\ size <= MaxBytes
    BY ReservationCovers DEF Init
  <2> QED BY <1>6, <2>1 DEF Room
<1> QED BY <1>2, <1>7, <1>8, <1>9 DEF CapacityInv

\* The inductive invariant.
LEMMA CapacityInvHolds == Spec => []CapacityInv
PROOF
<1>1. Init => CapacityInv
  BY InitHasRoom
<1>2. CapacityInv /\ [Next]_vars => CapacityInv'
  <2> SUFFICES ASSUME CapacityInv, [Next]_vars PROVE CapacityInv'
    OBVIOUS
  <2>1. CASE \E p \in Writing : Link(p)
    BY <2>1, LinkKeeps
  <2>2. CASE StartExecution \/ StartProbe \/ StartTransfer
    BY <2>2, AdmissionKeeps
  <2>3. CASE Work \/ Notice \/ Stop \/ EndDaemon \/ CloseHandle
    BY <2>3, WorkKeeps
  <2>4. CASE BeginDaemon
    BY <2>4, BeginKeeps
  <2>5. CASE Close
    BY <2>5, CountsKept DEF Close
  <2>6. CASE UNCHANGED vars
    BY <2>6, CountsKept DEF vars, CapacityInv, Typed
  <2> QED BY <2>1, <2>2, <2>3, <2>4, <2>5, <2>6 DEF Next
<1> QED BY <1>1, <1>2, PTL DEF Spec

----------------------------------------------------------------------------
(* The theorems.                                                           *)

\* What is still owed fits, so what is written does.
LEMMA CapacityBounds == CapacityInv => TypeOK
PROOF
<1> SUFFICES ASSUME CapacityInv PROVE TypeOK
  OBVIOUS
<1>1. size \in Nat /\ MaxBytes \in Nat /\ RecordBytes \in Nat
  BY ReservationCovers DEF CapacityInv, Typed
<1>2. Owed \in Nat /\ RecordBytes * Owed \in Nat
  BY <1>1, OwedIsBounded, Scaling DEF CapacityInv
<1>3. size \in 0..MaxBytes
  BY <1>1, <1>2 DEF CapacityInv, Room
<1> QED BY <1>3 DEF TypeOK, CapacityInv, Typed

\* The file never grows beyond maxBytes (AuditWriter.write), and the writer's state
\* stays well-formed.
THEOREM LogIsBounded == Spec => []TypeOK
BY CapacityBounds, CapacityInvHolds, PTL

\* The space the constructor reserves suffices: write() never refuses a closing record
\* of started work, or of a daemon that has begun, for want of space.
THEOREM ReservationSuffices == Spec => []ClosingRecordsFit
PROOF
<1>1. CapacityInv => ClosingRecordsFit
  <2> SUFFICES ASSUME CapacityInv, NEW p \in FollowUps, count[p] > 0,
                      p \in {"stopping", "ending"} => began
               PROVE  size + RecordBytes <= MaxBytes
    BY CapacityBounds DEF ClosingRecordsFit
  <2>1. size \in Nat /\ MaxBytes \in Nat /\ RecordBytes \in Nat
    BY ReservationCovers DEF CapacityInv, Typed
  <2>2. \A x \in Phases : count[x] \in Nat
    BY DEF CapacityInv, Typed
  <2>3. OwedByWork \in Nat /\ DaemonSum \in Nat
    BY SumsAreNat DEF CapacityInv
  <2>4. OwedByDaemon = IF began THEN DaemonSum ELSE 0
    BY DEF OwedByDaemon, DaemonSum
  <2>5. Owed >= 1
    <3>1. CASE p \in {"stopping", "ending"}
      <4>1. DaemonSum >= 1
        BY <2>2, <3>1 DEF DaemonSum, Phases, Writing, FollowUps, Normals
      <4> QED BY <3>1, <4>1, <2>3, <2>4 DEF Owed
    <3>2. CASE p \notin {"stopping", "ending"}
      <4>1. TwoSum + OneSum >= 1 /\ TwoSum \in Nat /\ OneSum \in Nat
        BY <2>2, <3>2 DEF TwoSum, OneSum, Phases, Writing, FollowUps, Normals
      <4>2. OwedByWork >= 1
        BY <4>1 DEF OwedByWork
      <4> QED BY <4>2, <2>3, <2>4 DEF Owed
    <3> QED BY <3>1, <3>2
  <2>6. Owed \in Nat
    BY OwedIsBounded DEF CapacityInv
  <2>7. RecordBytes * Owed \in Nat /\ RecordBytes * 0 + RecordBytes <= RecordBytes * Owed
    BY <2>1, <2>5, <2>6, Scaling
  <2>8. RecordBytes * 0 = 0
    BY <2>1
  <2> QED BY <2>1, <2>7, <2>8 DEF CapacityInv, Room
<1> QED BY <1>1, CapacityInvHolds, PTL

----------------------------------------------------------------------------
(* The registry of targets.                                                *)

\* What a request on one configuration is granted, once it is found.
Limit(c, r) == IF r.kind = "transfer" THEN c.transfer.maxTimeout ELSE Registry!RunLimit(c, r)
GrantTo(c, r) ==
    IF c.enabled /\ (Registry!MayRun(c, r) \/ Registry!MayTransfer(c, r)) /\ Registry!WithinTimeout(r.timeout, Limit(c, r))
    THEN Registry!Granted(r.timeout, Limit(c, r)) ELSE 0

\* The group of a target is the only thing its rights do not depend on.
SameRights(c, d) ==
    /\ c.targetId = d.targetId /\ c.previous = d.previous /\ c.sshAlias = d.sshAlias
    /\ c.enabled = d.enabled /\ c.policy = d.policy /\ c.platform = d.platform
    /\ c.connection = d.connection /\ c.transfer = d.transfer

LEMMA SameGrants ==
    ASSUME NEW c, NEW d, SameRights(c, d), NEW r
    PROVE  GrantTo(c, r) = GrantTo(d, r)
<1>1. Registry!MayRun(c, r) <=> Registry!MayRun(d, r)
  BY DEF SameRights, Registry!MayRun
<1>2. Registry!UnrestrictedTransfer(c) <=> Registry!UnrestrictedTransfer(d)
  BY DEF SameRights, Registry!UnrestrictedTransfer
<1>3. Registry!DirectionAllowed(c, r.what) <=> Registry!DirectionAllowed(d, r.what)
  BY <1>2 DEF SameRights, Registry!DirectionAllowed
<1>4. Registry!MayTransfer(c, r) <=> Registry!MayTransfer(d, r)
  BY <1>2, <1>3 DEF SameRights, Registry!MayTransfer
<1>5. Limit(c, r) = Limit(d, r)
  BY DEF SameRights, Limit, Registry!RunLimit
<1> QED BY <1>1, <1>4, <1>5 DEF GrantTo, SameRights

Sound(c) ==
    /\ Registry!WellFormed(c) /\ Registry!TransferAccepted(c)
    /\ c.policy.mode = "presets" => c.transfer.mode = "deny"

\* Every target is sound, and no name is one of two targets.
RegistryInv ==
    /\ \A a \in DOMAIN configs : Sound(configs[a])
    /\ \A a, b \in DOMAIN configs : a # b => Registry!References(configs, a) \cap Registry!References(configs, b) = {}

LEMMA KeysDiffer ==
    ASSUME NEW m, NEW n, NEW a, NEW s
    PROVE  /\ Registry!Key(m) # Registry!LegacyTargetId(a, s)
           /\ Registry!Key(m) = Registry!Key(n) => Registry!Fold(m) = Registry!Fold(n)
<1>1. <<"name", Registry!Fold(m)>>[1] = "name" /\ <<"digest", a, s>>[1] = "digest"
  OBVIOUS
<1>2. Registry!Key(m) # Registry!LegacyTargetId(a, s)
  BY <1>1 DEF Registry!Key, Registry!LegacyTargetId
<1>3. Registry!Key(m) = Registry!Key(n) => Registry!Fold(m) = Registry!Fold(n)
  BY DEF Registry!Key
<1> QED BY <1>2, <1>3

\* Every reference is the key of an identifier, or the digest of a target without one.
LEMMA ReferenceIs ==
    ASSUME NEW cs, NEW a \in DOMAIN cs, NEW x \in Registry!References(cs, a)
    PROVE  \/ \E i \in Registry!Identifiers(cs) : i[1] = a /\ x = Registry!Key(i[3])
           \/ x = Registry!LegacyTargetId(a, cs[a].sshAlias)
<1>1. \/ x = Registry!Key(a)
      \/ \E n \in cs[a].previous : x = Registry!Key(n)
      \/ cs[a].targetId = {} /\ x = Registry!LegacyTargetId(a, cs[a].sshAlias)
      \/ cs[a].targetId # {} /\ x = Registry!Key(CHOOSE n \in cs[a].targetId : TRUE)
  BY DEF Registry!References, Registry!TargetId
<1>2. CASE x = Registry!Key(a)
  <2>1. <<a, "alias", a>> \in Registry!Identifiers(cs)
    BY DEF Registry!Identifiers
  <2>2. <<a, "alias", a>>[1] = a /\ <<a, "alias", a>>[3] = a
    OBVIOUS
  <2> QED BY <1>2, <2>1, <2>2
<1>3. CASE \E n \in cs[a].previous : x = Registry!Key(n)
  <2>1. PICK n \in cs[a].previous : x = Registry!Key(n)
    BY <1>3
  <2>2. <<a, "previous", n>> \in Registry!Identifiers(cs)
    BY DEF Registry!Identifiers
  <2>3. <<a, "previous", n>>[1] = a /\ <<a, "previous", n>>[3] = n
    OBVIOUS
  <2> QED BY <2>1, <2>2, <2>3
<1>4. CASE cs[a].targetId # {} /\ x = Registry!Key(CHOOSE n \in cs[a].targetId : TRUE)
  <2>1. PICK n \in cs[a].targetId : n = CHOOSE m \in cs[a].targetId : TRUE
    BY <1>4
  <2>2. <<a, "targetId", n>> \in Registry!Identifiers(cs)
    BY DEF Registry!Identifiers
  <2>3. <<a, "targetId", n>>[1] = a /\ <<a, "targetId", n>>[3] = n
    OBVIOUS
  <2>4. x = Registry!Key(n)
    BY <1>4, <2>1
  <2> QED BY <2>2, <2>3, <2>4
<1> QED BY <1>1, <1>2, <1>3, <1>4

LEMMA RegistryStarts ==
    ASSUME Registry!Init
    PROVE  RegistryInv
<1>1. configs \in Registries /\ Registry!TargetsAccepted(configs)
      /\ \A a \in DOMAIN configs : Registry!TransferAccepted(configs[a])
  BY DEF Registry!Init, Registry!Accepted
<1>2. \A a \in DOMAIN configs : Sound(configs[a])
  BY <1>1, RegistriesAssumption DEF Sound, Registry!TargetsAccepted, Registry!RegistryAssumption
<1>3. ASSUME NEW a \in DOMAIN configs, NEW b \in DOMAIN configs, a # b,
             NEW x \in Registry!References(configs, a), x \in Registry!References(configs, b)
      PROVE  FALSE
  <2> DEFINE I == Registry!Identifiers(configs)
             digest(c) == Registry!LegacyTargetId(c, configs[c].sshAlias)
  <2>1. (\E i \in I : i[1] = a /\ x = Registry!Key(i[3])) \/ x = digest(a)
    BY ReferenceIs
  <2>2. (\E i \in I : i[1] = b /\ x = Registry!Key(i[3])) \/ x = digest(b)
    BY <1>3, ReferenceIs
  <2>3. digest(a) # digest(b)
    <3>1. digest(a)[2] = a /\ digest(b)[2] = b
      BY DEF Registry!LegacyTargetId
    <3> QED BY <1>3, <3>1
  <2> HIDE DEF I, digest
  <2>4. CASE \E i \in I, j \in I : i[1] = a /\ j[1] = b /\ x = Registry!Key(i[3]) /\ x = Registry!Key(j[3])
    <3>1. PICK i \in I, j \in I : i[1] = a /\ j[1] = b /\ x = Registry!Key(i[3]) /\ x = Registry!Key(j[3])
      BY <2>4
    <3>2. Registry!Fold(i[3]) = Registry!Fold(j[3])
      BY <3>1, KeysDiffer
    <3>3. i = j
      BY <1>1, <3>2 DEF Registry!TargetsAccepted, I
    <3> QED BY <1>3, <3>1, <3>3
  <2>5. \A m : Registry!Key(m) # digest(a) /\ Registry!Key(m) # digest(b)
    BY KeysDiffer DEF digest
  <2> QED BY <2>1, <2>2, <2>3, <2>4, <2>5
<1> QED BY <1>2, <1>3 DEF RegistryInv

LEMMA RequestIs ==
    ASSUME NEW r \in Registry!Requests
    PROVE  /\ r.timeout \in {{}, {0}, {1}, {DockerLimit + 1}}
           /\ \/ r.kind = "command" /\ r.what \in {"listed", "other"}
              \/ r.kind \in {"script", "check", "docker"}
              \/ r.kind = "operation" /\ r.what \in {"system.cpu", "docker.health"} /\ r.on = Registry!None
              \/ r.kind = "operation" /\ r.what \in {"logs.file", "logs.service"}
              \/ r.kind = "transfer" /\ r.what \in {"upload", "download", "sync"}
BY DEF Registry!Requests, Registry!Timeouts

\* The limits of load-config.ts and the fixed ones leave every run some time, and none more than is listed.
LEMMA LimitIs ==
    ASSUME NEW c, Sound(c), NEW r \in Registry!Requests
    PROVE  /\ Limit(c, r) \in Nat \ {0}
           /\ Limit(c, r) <= IF r.kind = "transfer" THEN c.transfer.maxTimeout ELSE c.policy.maxTimeout
<1>1. /\ c.policy.maxTimeout \in Nat \ {0} /\ c.transfer.maxTimeout \in Nat \ {0}
      /\ CheckLimit \in Nat \ {0} /\ AccessClientLimit \in Nat \ {0}
      /\ OperationLimit \in Nat \ {0} /\ DockerLimit \in Nat \ {0}
  BY RegistriesAssumption DEF Sound, Registry!WellFormed, Registry!RegistryAssumption
<1>2. ASSUME NEW m \in Nat \ {0}, NEW n \in Nat \ {0}
      PROVE  Registry!Lower(m, n) \in Nat \ {0} /\ Registry!Lower(m, n) <= m
  BY DEF Registry!Lower
<1>3. CASE r.kind = "transfer"
  BY <1>1, <1>3 DEF Limit
<1>4. CASE r.kind = "operation"
  BY <1>1, <1>2, <1>4 DEF Limit, Registry!RunLimit
<1>5. CASE r.kind = "check"
  BY <1>1, <1>2, <1>5 DEF Limit, Registry!RunLimit
<1>6. CASE r.kind = "docker"
  BY <1>1, <1>2, <1>6 DEF Limit, Registry!RunLimit
<1>7. CASE r.kind \notin {"transfer", "operation", "check", "docker"}
  BY <1>1, <1>7 DEF Limit, Registry!RunLimit
<1> QED BY <1>3, <1>4, <1>5, <1>6, <1>7

LEMMA GrantIs ==
    ASSUME NEW c, Sound(c), NEW r \in Registry!Requests
    PROVE  LET may == c.enabled /\ (Registry!MayRun(c, r) \/ Registry!MayTransfer(c, r)) IN
           /\ GrantTo(c, r) > 0 => may /\ GrantTo(c, r) <= Limit(c, r)
           /\ may /\ r.timeout \in {{}, {1}} => GrantTo(c, r) > 0
<1> DEFINE may == c.enabled /\ (Registry!MayRun(c, r) \/ Registry!MayTransfer(c, r))
           granted == Registry!Granted(r.timeout, Limit(c, r))
<1>1. PICK limit \in Nat \ {0} : limit = Limit(c, r)
  BY LimitIs
<1>2. GrantTo(c, r) = IF may /\ r.timeout \subseteq 1..limit THEN granted ELSE 0
  BY <1>1 DEF GrantTo, Registry!WithinTimeout
<1>3. r.timeout = {} => granted = limit /\ r.timeout \subseteq 1..limit
  BY <1>1 DEF Registry!Granted
<1>4. ASSUME NEW t, r.timeout = {t}
      PROVE  granted = t
  BY <1>4 DEF Registry!Granted
<1>5. r.timeout = {} \/ \E t \in Nat : r.timeout = {t}
  BY RequestIs, RegistriesAssumption DEF Registry!RegistryAssumption
<1> HIDE DEF may, granted
<1>6. GrantTo(c, r) > 0 => may /\ GrantTo(c, r) <= limit
  <2>1. CASE r.timeout = {}
    BY <1>1, <1>2, <1>3, <2>1
  <2>2. CASE \E t \in Nat : r.timeout = {t}
    <3>1. PICK t \in Nat : r.timeout = {t}
      BY <2>2
    <3>2. r.timeout \subseteq 1..limit <=> t \in 1..limit
      BY <3>1
    <3>3. granted = t
      BY <1>4, <3>1
    <3> QED BY <1>1, <1>2, <3>2, <3>3
  <2> QED BY <1>5, <2>1, <2>2
<1>7. may /\ r.timeout \in {{}, {1}} => GrantTo(c, r) > 0
  <2>1. CASE r.timeout = {}
    BY <1>1, <1>2, <1>3, <2>1
  <2>2. CASE r.timeout = {1}
    <3>1. r.timeout \subseteq 1..limit
      BY <1>1, <2>2
    <3>2. granted = 1
      BY <1>4, <2>2
    <3> QED BY <1>2, <3>1, <3>2
  <2> QED BY <2>1, <2>2
<1> QED BY <1>1, <1>6, <1>7 DEF may

\* An operation may run on what is offered for it, and on nothing else.
LEMMA OffersAre ==
    ASSUME NEW p, NEW platform, NEW op \in {"system.cpu", "docker.health", "logs.file", "logs.service"}, NEW on,
           op \in {"system.cpu", "docker.health"} => on = Registry!None
    PROVE  Registry!BuildPresetOperation(p, platform, op, on) <=> <<op, on>> \in Registry!ListPresetOperations(p, platform)
<1> DEFINE allowed == UNION {Registry!PresetOperations(preset) : preset \in p.presets}
           paths == {path \in p.logPaths : Registry!ValidPath(path, platform)}
           L == Registry!ListPresetOperations(p, platform)
<1>1. \A x : x \in L <=> \/ \E o \in allowed \ {"logs.file", "logs.service"} : x = <<o, Registry!None>>
                         \/ "logs.file" \in allowed /\ \E path \in paths : x = <<"logs.file", path>>
                         \/ "logs.service" \in allowed /\ \E s \in p.logServices : x = <<"logs.service", s>>
  BY DEF Registry!ListPresetOperations
<1>2. Registry!BuildPresetOperation(p, platform, op, on) <=>
        /\ \E offer \in L : offer[1] = op
        /\ op = "logs.file" => on \in paths
        /\ op = "logs.service" => on \in p.logServices
  BY DEF Registry!BuildPresetOperation
<1> HIDE DEF allowed, paths, L
<1>3. CASE op \in {"system.cpu", "docker.health"}
  <2>1. <<op, on>> \in L <=> op \in allowed
    BY <1>1, <1>3
  <2>2. (\E offer \in L : offer[1] = op) <=> op \in allowed
    <3>1. ASSUME op \in allowed PROVE \E offer \in L : offer[1] = op
      <4>1. <<op, on>> \in L /\ <<op, on>>[1] = op
        BY <2>1, <3>1
      <4> QED BY <4>1
    <3>2. ASSUME NEW offer \in L, offer[1] = op PROVE op \in allowed
      BY <1>1, <1>3, <3>2
    <3> QED BY <3>1, <3>2
  <2> QED BY <1>2, <1>3, <2>1, <2>2 DEF L
<1>4. CASE op = "logs.file"
  <2>1. <<op, on>> \in L <=> op \in allowed /\ on \in paths
    BY <1>1, <1>4
  <2>2. ASSUME <<op, on>> \in L PROVE \E offer \in L : offer[1] = op
    <3>1. <<op, on>>[1] = op
      OBVIOUS
    <3> QED BY <2>2, <3>1
  <2>3. ASSUME NEW offer \in L, offer[1] = op PROVE op \in allowed
    BY <1>1, <1>4, <2>3
  <2> QED BY <1>2, <1>4, <2>1, <2>2, <2>3 DEF L
<1>5. CASE op = "logs.service"
  <2>1. <<op, on>> \in L <=> op \in allowed /\ on \in p.logServices
    BY <1>1, <1>5
  <2>2. ASSUME <<op, on>> \in L PROVE \E offer \in L : offer[1] = op
    <3>1. <<op, on>>[1] = op
      OBVIOUS
    <3> QED BY <2>2, <3>1
  <2>3. ASSUME NEW offer \in L, offer[1] = op PROVE op \in allowed
    BY <1>1, <1>5, <2>3
  <2> QED BY <1>2, <1>5, <2>1, <2>2, <2>3 DEF L
<1> QED BY <1>3, <1>4, <1>5

\* What the list promises of a target is what the target may do.
OffersOf(c) == IF c.policy.mode = "presets" THEN Registry!ListPresetOperations(c.policy, c.platform) ELSE {}
LEMMA PromiseIs ==
    ASSUME NEW c, Sound(c), NEW a, NEW r \in Registry!Requests
    PROVE  Registry!Promised(Registry!CreateEntry(a, c), OffersOf(c), r)
             <=> c.enabled /\ (Registry!MayRun(c, r) \/ Registry!MayTransfer(c, r))
<1> DEFINE e == Registry!CreateEntry(a, c)
           unrestricted == Registry!UnrestrictedTransfer(c)
           promised == Registry!Promised(e, OffersOf(c), r)
<1>1. /\ e.enabled = c.enabled /\ e.policyMode = c.policy.mode
      /\ e.transferMode = Registry!TransferMode(c)
      /\ e.transferScope = IF unrestricted THEN "all" ELSE "restricted"
      /\ e.transferRoots = IF unrestricted \/ c.policy.mode = "presets" THEN {} ELSE c.transfer.roots
  BY DEF Registry!CreateEntry
<1>2. unrestricted <=> c.policy.mode = "full-access" /\ c.connection # "tailscale-ssh"
  BY DEF Registry!UnrestrictedTransfer
<1>3. Registry!TransferMode(c) = IF c.policy.mode = "presets" \/ c.connection = "tailscale-ssh" THEN "deny"
                                 ELSE IF unrestricted THEN "bidirectional" ELSE c.transfer.mode
  BY DEF Registry!TransferMode
<1>4. /\ c.policy.mode \in {"full-access", "allow-list", "presets", "deny"}
      /\ \A x \in {"listed", "other"} : x \in c.policy.commands <=> c.policy.mode = "allow-list" /\ x = "listed"
      /\ c.transfer.mode \in {"deny", "upload", "download", "bidirectional"}
      /\ c.transfer.roots \subseteq LocalRoots
  BY DEF Sound, Registry!WellFormed, Registry!TransferAccepted
<1> HIDE DEF e, unrestricted
<1>5. CASE r.kind = "command"
  <2>1. r.what \in {"listed", "other"}
    BY <1>5, RequestIs
  <2> QED BY <1>1, <1>4, <1>5, <2>1 DEF Registry!Promised, Registry!MayRun, Registry!MayTransfer, e
<1>6. CASE r.kind \in {"script", "check", "docker"}
  BY <1>1, <1>6 DEF Registry!Promised, Registry!MayRun, Registry!MayTransfer, e
<1>7. CASE r.kind = "operation"
  <2>1. /\ r.what \in {"system.cpu", "docker.health", "logs.file", "logs.service"}
        /\ r.what \in {"system.cpu", "docker.health"} => r.on = Registry!None
    BY <1>7, RequestIs
  <2>2. Registry!BuildPresetOperation(c.policy, c.platform, r.what, r.on)
          <=> <<r.what, r.on>> \in Registry!ListPresetOperations(c.policy, c.platform)
    BY <2>1, OffersAre
  <2>3. <<r.what, r.on>> \in OffersOf(c) <=>
          c.policy.mode = "presets" /\ <<r.what, r.on>> \in Registry!ListPresetOperations(c.policy, c.platform)
    BY DEF OffersOf
  <2> QED BY <1>1, <1>7, <2>2, <2>3 DEF Registry!Promised, Registry!MayRun, Registry!MayTransfer, e
<1>8. CASE r.kind = "transfer"
  <2>1. r.what \in {"upload", "download", "sync"}
    BY <1>8, RequestIs
  <2>2. promised <=> /\ c.enabled
                     /\ e.transferMode \in {"bidirectional", IF r.what = "sync" THEN "upload" ELSE r.what}
                     /\ IF e.transferScope = "all" THEN r.on \in LocalRoots \cup {Registry!None} ELSE r.on \in e.transferRoots
    BY <1>1, <1>8 DEF Registry!Promised, e
  <2>3. ~Registry!MayRun(c, r)
    BY <1>8 DEF Registry!MayRun
  <2>4. Registry!MayTransfer(c, r) <=>
          /\ c.policy.mode # "presets" /\ c.connection # "tailscale-ssh"
          /\ Registry!DirectionAllowed(c, r.what)
          /\ ~unrestricted => r.on \in c.transfer.roots
          /\ r.on # Registry!None => r.on \in LocalRoots
    BY <1>8 DEF Registry!MayTransfer, unrestricted
  <2>5. Registry!DirectionAllowed(c, r.what) <=>
          \/ unrestricted
          \/ c.transfer.mode \in {"bidirectional", IF r.what = "sync" THEN "upload" ELSE r.what}
    BY <2>1 DEF Registry!DirectionAllowed, unrestricted
  <2> HIDE DEF promised
  <2>6. CASE unrestricted
    <3>1. e.transferMode = "bidirectional" /\ e.transferScope = "all"
      BY <1>1, <1>2, <1>3, <2>6
    <3> QED BY <1>2, <2>2, <2>3, <2>4, <2>5, <2>6, <3>1 DEF promised, e
  <2>7. CASE ~unrestricted /\ (c.policy.mode = "presets" \/ c.connection = "tailscale-ssh")
    <3>1. e.transferMode = "deny"
      BY <1>1, <1>3, <2>7
    <3>2. ~promised
      BY <2>1, <2>2, <3>1
    <3> QED BY <2>3, <2>4, <2>7, <3>2 DEF promised, e
  <2>8. CASE ~unrestricted /\ c.policy.mode # "presets" /\ c.connection # "tailscale-ssh"
    <3>1. e.transferMode = c.transfer.mode /\ e.transferScope = "restricted" /\ e.transferRoots = c.transfer.roots
      BY <1>1, <1>3, <2>8
    <3> QED BY <1>4, <2>2, <2>3, <2>4, <2>5, <2>8, <3>1 DEF promised, e
  <2> QED BY <2>6, <2>7, <2>8
<1> QED BY <1>5, <1>6, <1>7, <1>8, RequestIs

LEMMA GrantType ==
    ASSUME NEW c, Sound(c), NEW r \in Registry!Requests
    PROVE  GrantTo(c, r) \in Nat
<1>1. r.timeout = {} \/ \E t \in Nat : r.timeout = {t}
  BY RequestIs, RegistriesAssumption DEF Registry!RegistryAssumption
<1>2. Registry!Granted(r.timeout, Limit(c, r)) \in Nat
  BY <1>1, LimitIs DEF Registry!Granted
<1> QED BY <1>2 DEF GrantTo

\* A name of a target finds that target while the registry has it, and nothing afterwards.
LEMMA FoundIs ==
    ASSUME RegistryInv, NEW now, \A b \in DOMAIN now : b \in DOMAIN configs /\ SameRights(now[b], configs[b]),
           NEW a \in DOMAIN configs, NEW n \in Registry!References(configs, a), NEW r
    PROVE  Registry!Grant(now, n, r) = IF a \in DOMAIN now THEN GrantTo(configs[a], r) ELSE 0
<1> DEFINE found == Registry!Resolve(now, n)
<1>1. ASSUME NEW b \in DOMAIN now
      PROVE  Registry!References(now, b) = Registry!References(configs, b)
  BY DEF SameRights, Registry!References, Registry!TargetId
<1>2. ASSUME NEW b \in DOMAIN now
      PROVE  b \in found <=> b = a
  BY <1>1 DEF RegistryInv, Registry!Resolve
<1>3. found \subseteq DOMAIN now
  BY DEF Registry!Resolve
<1> HIDE DEF found
<1>4. CASE a \in DOMAIN now
  <2>1. found = {a}
    BY <1>2, <1>3, <1>4
  <2>2. (CHOOSE b \in found : TRUE) = a
    BY <2>1
  <2>3. Registry!Grant(now, n, r) = GrantTo(now[a], r)
    <3>1. found # {}
      BY <2>1
    <3>2. Registry!Grant(now, n, r) = GrantTo(now[CHOOSE b \in found : TRUE], r)
      BY <3>1 DEF Registry!Grant, GrantTo, Limit, found
    <3> QED BY <2>2, <3>2
  <2>4. GrantTo(now[a], r) = GrantTo(configs[a], r)
    BY <1>4, SameGrants
  <2> QED BY <1>4, <2>3, <2>4
<1>5. CASE a \notin DOMAIN now
  <2>1. found = {}
    BY <1>2, <1>3, <1>5
  <2> QED BY <1>5, <2>1 DEF Registry!Grant, found
<1> QED BY <1>4, <1>5

LEMMA ListedAre ==
    ASSUME RegistryInv, NEW now, \A b \in DOMAIN now : b \in DOMAIN configs /\ SameRights(now[b], configs[b])
    PROVE  Registry!ListedIsGranted(now)
<1>1. ASSUME NEW a \in DOMAIN configs, NEW n \in Registry!References(configs, a), NEW r \in Registry!Requests
      PROVE  LET c == configs[a]
                 e == Registry!CreateEntry(a, c)
                 maximum == IF r.kind = "transfer" THEN e.maxTransferTimeout ELSE e.maxTimeout
                 g == Registry!Grant(now, n, r)
             IN  IF a \notin DOMAIN now THEN g = 0
                 ELSE /\ g > 0 => Registry!Promised(e, OffersOf(c), r) /\ g <= maximum
                      /\ Registry!Promised(e, OffersOf(c), r) /\ r.timeout \in {{}, {1}} => g > 0
  <2> DEFINE c == configs[a]
             e == Registry!CreateEntry(a, c)
             maximum == IF r.kind = "transfer" THEN e.maxTransferTimeout ELSE e.maxTimeout
             g == Registry!Grant(now, n, r)
  <2>1. Sound(c)
    BY DEF RegistryInv
  <2>2. g = IF a \in DOMAIN now THEN GrantTo(c, r) ELSE 0
    BY FoundIs
  <2>3. maximum = IF r.kind = "transfer" THEN c.transfer.maxTimeout ELSE c.policy.maxTimeout
    BY DEF Registry!CreateEntry
  <2>4. c.transfer.maxTimeout \in Nat /\ c.policy.maxTimeout \in Nat
    BY <2>1 DEF Sound, Registry!WellFormed
  <2> HIDE DEF c
  <2>5. PICK limit \in Nat : limit = Limit(c, r) /\ limit <= maximum /\ maximum \in Nat
    <3>1. Limit(c, r) \in Nat /\ Limit(c, r) <= maximum
      BY <2>1, <2>3, LimitIs
    <3>2. maximum \in Nat
      BY <2>3, <2>4
    <3> HIDE DEF maximum
    <3> QED BY <3>1, <3>2
  <2> DEFINE promised == Registry!Promised(e, OffersOf(c), r)
  <2>6. /\ GrantTo(c, r) > 0 => promised /\ GrantTo(c, r) <= limit
        /\ promised /\ r.timeout \in {{}, {1}} => GrantTo(c, r) > 0
    BY <2>1, <2>5, GrantIs, PromiseIs
  <2>7. GrantTo(c, r) \in Nat
    BY <2>1, GrantType
  <2> HIDE DEF promised, maximum, g
  <2>8. IF a \notin DOMAIN now THEN g = 0
        ELSE /\ g > 0 => promised /\ g <= maximum
             /\ promised /\ r.timeout \in {{}, {1}} => g > 0
    BY <2>2, <2>5, <2>6, <2>7
  <2> QED BY <2>8 DEF promised, maximum, g, c
<1> QED
  <2> SUFFICES ASSUME NEW a \in DOMAIN configs, NEW n \in Registry!References(configs, a), NEW r \in Registry!Requests
               PROVE  LET c == configs[a]
                          e == Registry!CreateEntry(a, c)
                          offers == IF e.policyMode = "presets" THEN Registry!ListPresetOperations(c.policy, c.platform) ELSE {}
                          maximum == IF r.kind = "transfer" THEN e.maxTransferTimeout ELSE e.maxTimeout
                          g == Registry!Grant(now, n, r)
                      IN  IF a \notin DOMAIN now THEN g = 0
                          ELSE /\ g > 0 => Registry!Promised(e, offers, r) /\ g <= maximum
                               /\ Registry!Promised(e, offers, r) /\ r.timeout \in {{}, {1}} => g > 0
    BY Zenon DEF Registry!ListedIsGranted
  <2>1. Registry!CreateEntry(a, configs[a]).policyMode = configs[a].policy.mode
    BY DEF Registry!CreateEntry
  <2> QED BY <1>1, <2>1, Zenon DEF OffersOf

\* Removing targets and giving others a new group leaves every target that stays what it was.
LEMMA SameTargets ==
    ASSUME RegistryInv, Registry!Next
    PROVE  /\ \A b \in DOMAIN configs' : b \in DOMAIN configs /\ SameRights(configs'[b], configs[b])
           /\ \A b \in DOMAIN configs' : Sound(configs'[b])
           /\ {configs'[a].group : a \in DOMAIN configs'} \subseteq groups' \cup {Registry!None}
<1>1. CASE \E as \in SUBSET Names : as # {} /\ Registry!WithoutTargets(as)
  <2>1. PICK as : /\ configs' = [a \in DOMAIN configs \ as |-> configs[a]]
                  /\ groups' = Registry!GroupsOf(configs', groups)
    BY <1>1 DEF Registry!WithoutTargets
  <2>2. \A b \in DOMAIN configs' : b \in DOMAIN configs /\ configs'[b] = configs[b]
    BY <2>1
  <2>3. {configs'[a].group : a \in DOMAIN configs'} \subseteq groups' \cup {Registry!None}
    BY <2>1 DEF Registry!GroupsOf
  <2> QED BY <2>2, <2>3 DEF SameRights, RegistryInv
<1>2. CASE \E catalogue \in {groups} \cup SUBSET Groups, as \in SUBSET Names :
             \E group \in [as -> Groups \cup {Registry!None}] : Registry!WithMetadata(catalogue, group)
  <2>1. PICK group, catalogue : /\ configs' = [a \in DOMAIN configs |-> [configs[a] EXCEPT !.group = group[a]]]
                                /\ groups' = Registry!GroupsOf(configs', catalogue)
    BY <1>2 DEF Registry!WithMetadata
  <2>2. ASSUME NEW b \in DOMAIN configs'
        PROVE  b \in DOMAIN configs /\ SameRights(configs'[b], configs[b]) /\ Sound(configs'[b])
    <3>1. b \in DOMAIN configs /\ configs'[b] = [configs[b] EXCEPT !.group = group[b]]
      BY <2>1
    <3>2. PICK c : c = configs[b]
      OBVIOUS
    <3>3. PICK d : d = configs'[b]
      OBVIOUS
    <3>4. Sound(c) /\ c = [field \in Registry!Fields |-> c[field]]
      BY <3>1, <3>2 DEF RegistryInv, Sound, Registry!WellFormed
    <3>5. d = [field \in Registry!Fields |-> IF field = "group" THEN group[b] ELSE c[field]]
      BY <3>1, <3>2, <3>3, <3>4
    <3>6. \A field \in Registry!Fields : field # "group" => d[field] = c[field]
      BY <3>5
    <3>7. SameRights(d, c) /\ d.share = c.share
      BY <3>6 DEF SameRights, Registry!Fields
    <3>8. d = [field \in Registry!Fields |-> d[field]]
      BY <3>5
    <3>9. Sound(d)
      <4>1. Registry!WellFormed(d)
        BY <3>4, <3>7, <3>8 DEF Sound, SameRights, Registry!WellFormed
      <4>2. Registry!TransferAccepted(d)
        BY <3>4, <3>7 DEF Sound, SameRights, Registry!TransferAccepted
      <4> QED BY <3>4, <3>7, <4>1, <4>2 DEF Sound, SameRights
    <3> QED BY <3>1, <3>2, <3>3, <3>7, <3>9
  <2>3. {configs'[a].group : a \in DOMAIN configs'} \subseteq groups' \cup {Registry!None}
    BY <2>1 DEF Registry!GroupsOf
  <2> QED BY <2>2, <2>3
<1> QED BY <1>1, <1>2 DEF Registry!Next

LEMMA RegistrySteps ==
    ASSUME RegistryInv, Registry!Next
    PROVE  /\ RegistryInv'
           /\ Registry!ListedIsGranted(configs) /\ Registry!ListedIsGranted(configs')
           /\ {configs'[a].group : a \in DOMAIN configs'} \subseteq groups' \cup {Registry!None}
<1>1. /\ \A b \in DOMAIN configs' : b \in DOMAIN configs /\ SameRights(configs'[b], configs[b])
      /\ \A b \in DOMAIN configs' : Sound(configs'[b])
      /\ {configs'[a].group : a \in DOMAIN configs'} \subseteq groups' \cup {Registry!None}
  BY SameTargets
<1>2. RegistryInv'
  <2>1. ASSUME NEW b \in DOMAIN configs'
        PROVE  Registry!References(configs', b) = Registry!References(configs, b)
    BY <1>1, <2>1 DEF SameRights, Registry!References, Registry!TargetId
  <2>2. \A a, b \in DOMAIN configs' : a # b => Registry!References(configs', a) \cap Registry!References(configs', b) = {}
    BY <1>1, <2>1 DEF RegistryInv
  <2> QED BY <1>1, <2>2 DEF RegistryInv
<1>3. Registry!ListedIsGranted(configs)
  <2>1. PICK now : now = configs
    OBVIOUS
  <2>2. \A b \in DOMAIN now : b \in DOMAIN configs /\ SameRights(now[b], configs[b])
    BY <2>1 DEF SameRights
  <2>3. Registry!ListedIsGranted(now)
    BY <2>2, ListedAre
  <2> QED BY <2>1, <2>3
<1>4. Registry!ListedIsGranted(configs')
  <2>1. PICK now : now = configs'
    OBVIOUS
  <2>2. \A b \in DOMAIN now : b \in DOMAIN configs /\ SameRights(now[b], configs[b])
    BY <1>1, <2>1
  <2>3. Registry!ListedIsGranted(now)
    BY <2>2, ListedAre
  <2> QED BY <2>1, <2>3
<1> QED BY <1>1, <1>2, <1>3, <1>4

\* For every configuration that loadConfig accepts, and after any removals and metadata updates: list() tells
\* exactly what the requests of a client are granted, under each name of the target.
THEOREM RightsAreListed == AllSpec => RightsAsListed
<1>1. AllInit => RegistryInv
  <2> SUFFICES ASSUME AllInit
               PROVE  RegistryInv
    OBVIOUS
  <2>1. CASE Registry!Init
    BY <2>1, RegistryStarts
  <2>2. CASE configs = <<>>
    <3>1. DOMAIN configs = {}
      BY <2>2
    <3> QED BY <3>1 DEF RegistryInv
  <2> QED BY <2>1, <2>2 DEF AllInit
<1> DEFINE Told == /\ Registry!ListedIsGranted(configs) /\ Registry!ListedIsGranted(configs')
                   /\ {configs'[a].group : a \in DOMAIN configs'} \subseteq groups' \cup {Registry!None}
<1>2. RegistryInv /\ [AllNext]_allVars => RegistryInv' /\ [Told]_registryVars
  <2> SUFFICES ASSUME RegistryInv, [AllNext]_allVars
               PROVE  RegistryInv' /\ [Told]_registryVars
    OBVIOUS
  <2>1. CASE Registry!Next
    BY <2>1, RegistrySteps
  <2>2. CASE UNCHANGED registryVars
    <3>1. configs' = configs
      BY <2>2 DEF registryVars
    <3>2. RegistryInv'
      BY <3>1 DEF RegistryInv
    <3> QED BY <2>2, <3>2
  <2> QED BY <2>1, <2>2 DEF AllNext, allVars
<1>3. RightsAsListed <=> [][Told]_registryVars
  BY DEF RightsAsListed, Registry!RightsAsListed, Registry!registryVars, registryVars
<1> HIDE DEF Told
<1> QED BY <1>1, <1>2, <1>3, PTL DEF AllSpec
=============================================================================
