--------------------- MODULE PuttySharedExecutorProofs ---------------------
(***************************************************************************)
(* Proofs about PuttySharedExecutor: there is never more than one plink    *)
(* process and close() leaves none (OneProcess), and runs that share a     *)
(* session neither get the results of one another nor lose their own to    *)
(* timers and replacements (RunsAreApart).  They hold for any number of    *)
(* runs, of failures outside and of frames of output.                      *)
(***************************************************************************)
EXTENDS PuttySharedExecutor, Integers, FiniteSetTheorems, TLAPS

Frames == [run : Runs \cup {NoRun}, kind : {"BEGIN", "OUT", "END", "FATAL"}]

SessionRecords ==
    [proc : {"none", "live", "ending", "dead"}, parser : {"preamble", "idle", "fatal"},
     command : {"none", "active", "began", "completed", "rejected", "undelivered"},
     sink : BOOLEAN, ready : BOOLEAN, reusable : BOOLEAN, retired : BOOLEAN, fatal : BOOLEAN,
     idle : BOOLEAN, life : BOOLEAN, aged : BOOLEAN, termination : {"none", "pending", "done"}]

TypeOK ==
    /\ queue \in Seq(Runs)
    /\ state \in [Runs -> {"new", "queued", "active", "answered"}]
    /\ answer \in [Runs -> {"none", "aborted", "rejected", "failed", "completed"}]
    /\ drain \in {"none", "next", "ending", "cleaning", "replacing", "spawning", "starting", "opened",
                  "abandoning", "discarding", "releasing", "writing", "executing", "finishing",
                  "retiring", "failing"}
    /\ cur \in Runs \cup {NoRun} /\ error \in {"none", "failed", "rejected"}
    /\ session \in Runs \cup {NoRun} /\ using \in Runs \cup {NoRun} /\ owned \subseteq Runs
    /\ closer \in {"none", "draining", "closing", "closed", "failed"}
    /\ waiting \subseteq Runs /\ unclosed \subseteq Runs /\ finished \subseteq Runs
    /\ sess \in [Runs -> SessionRecords]
    /\ wire \in [Runs -> Seq(Frames)]
    /\ broker \in [Runs -> [run : Runs \cup {NoRun}, left : Nat]]
    /\ output \in [Runs -> SUBSET Runs]
    /\ troubles \in Nat

----------------------------------------------------------------------------
(* Whose turn it is.                                                       *)

Resting == drain \in {"none", "next", "ending"}

\* Nothing of the target is under way for s.
Quiet(s) == wire[s] = <<>> /\ broker[s] = [run |-> NoRun, left |-> 0]

Untouched(r) == sess[r] = NewSession /\ Quiet(r)

\* A run waits in the queue once and has no session of its own before its turn.
QueueInv ==
    /\ \A i \in DOMAIN queue : state[queue[i]] = "queued"
    /\ \A i, j \in DOMAIN queue : queue[i] = queue[j] => i = j
    /\ \A r \in Runs : state[r] \in {"new", "queued"} =>
        /\ Untouched(r)
        /\ r \notin owned \cup waiting \cup unclosed /\ r # session /\ r # using /\ r # cur

\* The run and the session that each step of #execute works on.
TurnInv ==
    /\ Resting => cur = NoRun /\ using = NoRun
    /\ ~Resting => cur # NoRun
    /\ ~Resting /\ drain # "cleaning" => using # NoRun
    /\ drain = "cleaning" => using = NoRun
    /\ drain \in {"cleaning", "replacing", "spawning"} => Untouched(cur)
    /\ drain \in {"cleaning", "replacing"} => cur \notin owned /\ cur # session /\ cur # using
    /\ drain = "spawning" => using = cur
    /\ drain \in {"spawning", "starting", "opened"} => using \in owned
    /\ drain \in {"abandoning", "releasing", "failing"} => error # "none"
    /\ closer \in {"closing", "closed", "failed"} => drain \in {"none", "ending"}

----------------------------------------------------------------------------
(* Processes.                                                              *)

\* What lives of S is being closed, or could not be.
Closing(S) == S \cap Alive \subseteq waiting \cup unclosed

ProcessInv ==
    /\ Alive \subseteq owned
    /\ \A s, t \in Alive : s = t
    /\ \A s \in Alive : sess[s].termination # "done"
    /\ drain = "cleaning" => Closing(owned \ {session})
    /\ drain = "spawning" => Alive = {}
    /\ ~Resting /\ drain # "cleaning" => Alive \subseteq {using}
    /\ drain \in {"replacing", "abandoning", "discarding", "releasing", "finishing", "retiring", "failing"}
        => Closing({using})
    /\ closer = "closing" => Closing(owned)
    /\ closer = "closed" => Alive = {}

----------------------------------------------------------------------------
(* Commands.                                                               *)

\* A session that is down listens to nothing and is not used again; one with a fatal error is.
Down(x) == x.parser = "fatal" /\ ~x.reusable
Marked(x) == x.fatal => Down(x)

\* A command is active only in the session under way, which then listens.
CommandInv ==
    \A s \in Sessions :
        /\ Marked(sess[s])
        /\ HasActiveCommand(sess[s]) =>
            /\ s = using /\ drain \in {"writing", "executing"}
            /\ sess[s].parser = "idle" /\ ~sess[s].idle
        /\ broker[s].run = NoRun => broker[s].left = 0

----------------------------------------------------------------------------
(* What the methods of a session make of its fields.                       *)

\* y is x after something has ended in it, and nothing has begun.
EndsOnly(x, y) ==
    /\ y \in SessionRecords
    /\ y.proc = x.proc
    /\ y.command = x.command \/ (HasActiveCommand(x) /\ y.command = "rejected")
    /\ y.parser = x.parser \/ y.parser = "fatal"
    /\ HasActiveCommand(y) => y.parser = x.parser
    /\ y.reusable => x.reusable /\ y.ready = x.ready /\ y.parser = x.parser /\ y.termination = x.termination
    /\ y.idle => x.idle
    /\ y.life => x.life
    /\ y.termination \in {x.termination, "pending"} \/ (y.termination = "done" /\ x.proc = "none")

LEMMA EndsTransitive ==
    ASSUME NEW x, NEW y, NEW z, EndsOnly(x, y), EndsOnly(y, z)
    PROVE  EndsOnly(x, z)
BY DEF EndsOnly, HasActiveCommand

LEMMA ParserFailedEnds ==
    ASSUME NEW x \in SessionRecords, ~x.reusable
    PROVE  EndsOnly(x, ParserFailed(x)) /\ ParserFailed(x).parser = "fatal" /\ ~ParserFailed(x).reusable
<1>1. CASE x.parser = "fatal"
  BY <1>1 DEF EndsOnly, ParserFailed, HasActiveCommand
<1>2. CASE x.parser # "fatal" /\ HasActiveCommand(x)
  <2> DEFINE y == [x EXCEPT !.parser = "fatal", !.sink = FALSE, !.command = "rejected"]
  <2>1. ParserFailed(x) = y
    BY <1>2 DEF ParserFailed
  <2> QED BY <1>2, <2>1 DEF EndsOnly, HasActiveCommand, SessionRecords
<1>3. CASE x.parser # "fatal" /\ ~HasActiveCommand(x)
  <2> DEFINE y == [x EXCEPT !.parser = "fatal", !.sink = FALSE]
  <2>1. ParserFailed(x) = y
    BY <1>3 DEF ParserFailed, SessionRecords
  <2> QED BY <1>3, <2>1 DEF EndsOnly, HasActiveCommand, SessionRecords
<1> QED BY <1>1, <1>2, <1>3

LEMMA TerminatedEnds ==
    ASSUME NEW x \in SessionRecords, Down(x)
    PROVE  EndsOnly(x, Terminated(x)) /\ Terminated(x).termination # "none" /\ Down(Terminated(x))
<1>1. CASE x.termination # "none"
  BY <1>1 DEF EndsOnly, Terminated, HasActiveCommand, Down
<1>2. CASE x.termination = "none" /\ x.proc = "none"
  <2>1. Terminated(x) = [x EXCEPT !.idle = FALSE, !.life = FALSE, !.termination = "done"]
    BY <1>2 DEF Terminated, TimersCleared, SessionRecords
  <2> QED BY <1>2, <2>1 DEF EndsOnly, HasActiveCommand, Down, SessionRecords
<1>3. CASE x.termination = "none" /\ x.proc # "none"
  <2>1. Terminated(x) = [x EXCEPT !.idle = FALSE, !.life = FALSE, !.termination = "pending"]
    BY <1>3 DEF Terminated, TimersCleared, SessionRecords
  <2> QED BY <1>3, <2>1 DEF EndsOnly, HasActiveCommand, Down, SessionRecords
<1> QED BY <1>1, <1>2, <1>3

\* The idle timer, and the lifetime timer of a session without a command.
LEMMA ExpiredEnds ==
    ASSUME NEW x \in SessionRecords
    PROVE  LET y == Terminated(ParserFailed([x EXCEPT !.reusable = FALSE]))
           IN  EndsOnly(x, y) /\ Down(y) /\ y.termination # "none"
<1> DEFINE y == [x EXCEPT !.reusable = FALSE]
<1>1. y \in SessionRecords /\ ~y.reusable /\ EndsOnly(x, y)
  BY DEF EndsOnly, SessionRecords, HasActiveCommand
<1>2. EndsOnly(y, ParserFailed(y)) /\ Down(ParserFailed(y))
  BY <1>1, ParserFailedEnds DEF Down
<1>3. /\ EndsOnly(ParserFailed(y), Terminated(ParserFailed(y))) /\ Down(Terminated(ParserFailed(y)))
      /\ Terminated(ParserFailed(y)).termination # "none"
  BY <1>2, TerminatedEnds DEF EndsOnly
<1> QED BY <1>1, <1>2, <1>3, EndsTransitive

LEMMA PoisonedEnds ==
    ASSUME NEW x \in SessionRecords
    PROVE  EndsOnly(x, Poisoned(x)) /\ (Marked(x) => Down(Poisoned(x)))
<1>1. CASE x.fatal
  BY <1>1 DEF EndsOnly, Poisoned, HasActiveCommand, Marked
<1>2. CASE ~x.fatal
  <2> DEFINE y == [x EXCEPT !.fatal = TRUE, !.ready = FALSE, !.reusable = FALSE]
  <2>1. y \in SessionRecords /\ ~y.reusable /\ EndsOnly(x, y)
    BY DEF EndsOnly, SessionRecords, HasActiveCommand
  <2>2. EndsOnly(y, ParserFailed(y)) /\ Down(ParserFailed(y))
    BY <2>1, ParserFailedEnds DEF Down
  <2>3. /\ EndsOnly(ParserFailed(y), Terminated(ParserFailed(y))) /\ Down(Terminated(ParserFailed(y)))
    BY <2>2, TerminatedEnds DEF EndsOnly
  <2>4. Poisoned(x) = Terminated(ParserFailed(y))
    BY <1>2 DEF Poisoned
  <2> QED BY <2>1, <2>2, <2>3, <2>4, EndsTransitive
<1> QED BY <1>1, <1>2

LEMMA ClosedEnds ==
    ASSUME NEW x \in SessionRecords
    PROVE  EndsOnly(x, Closed(x)) /\ Closed(x).termination # "none" /\ Down(Closed(x))
<1> DEFINE y == [TimersCleared(x) EXCEPT !.reusable = FALSE, !.retired = TRUE]
<1>1. y \in SessionRecords /\ ~y.reusable /\ EndsOnly(x, y)
  BY DEF EndsOnly, SessionRecords, HasActiveCommand, TimersCleared
<1>2. EndsOnly(y, ParserFailed(y)) /\ Down(ParserFailed(y))
  BY <1>1, ParserFailedEnds DEF Down
<1>3. /\ EndsOnly(ParserFailed(y), Terminated(ParserFailed(y))) /\ Down(Terminated(ParserFailed(y)))
      /\ Terminated(ParserFailed(y)).termination # "none"
  BY <1>2, TerminatedEnds DEF EndsOnly
<1>4. Closed(x) = Terminated(ParserFailed(y))
  BY DEF Closed
<1> QED BY <1>1, <1>2, <1>3, <1>4, EndsTransitive

----------------------------------------------------------------------------
(* The shapes of the steps.                                                *)

\* The sessions of S are ended, and this is awaited.
Ended(S) ==
    /\ sess' \in [Runs -> SessionRecords]
    /\ \A s \in Sessions : s \notin S => sess'[s] = sess[s]
    /\ \A s \in S : EndsOnly(sess[s], sess'[s]) /\ Down(sess'[s]) /\ sess'[s].termination # "none"
    /\ waiting' = {s \in S : sess'[s].termination = "pending"} /\ unclosed' = {}

LEMMA AwaitClosedEnds ==
    ASSUME TypeOK, NEW S \in SUBSET Runs, AwaitClosed(S)
    PROVE  Ended(S)
<1>1. sess' = [s \in Sessions |-> IF s \in S THEN Closed(sess[s]) ELSE sess[s]]
  BY DEF AwaitClosed, Await
<1>2. \A s \in Runs : sess[s] \in SessionRecords
  BY DEF TypeOK
<1>3. \A s \in S : EndsOnly(sess[s], sess'[s]) /\ Down(sess'[s]) /\ sess'[s].termination # "none"
  BY <1>1, <1>2, ClosedEnds DEF Sessions
<1>4. sess' \in [Runs -> SessionRecords]
  BY <1>1, <1>2, <1>3 DEF Sessions, EndsOnly
<1>5. waiting' = {s \in S : sess'[s].termination = "pending"} /\ unclosed' = {}
  BY <1>1 DEF AwaitClosed, Await, Sessions
<1> QED BY <1>1, <1>3, <1>4, <1>5 DEF Ended

LEMMA AwaitEndEnds ==
    ASSUME TypeOK, CommandInv, NEW s \in Runs, AwaitEnd(s)
    PROVE  Ended({s})
<1>1. sess' = [sess EXCEPT ![s] = Terminated(Poisoned(sess[s]))]
  BY DEF AwaitEnd, Await
<1>2. sess[s] \in SessionRecords /\ sess \in [Runs -> SessionRecords] /\ Marked(sess[s])
  BY DEF TypeOK, CommandInv, Sessions
<1>3. EndsOnly(sess[s], Poisoned(sess[s])) /\ Down(Poisoned(sess[s]))
  BY <1>2, PoisonedEnds
<1>4. /\ EndsOnly(Poisoned(sess[s]), Terminated(Poisoned(sess[s])))
      /\ Down(Terminated(Poisoned(sess[s]))) /\ Terminated(Poisoned(sess[s])).termination # "none"
  BY <1>3, TerminatedEnds DEF EndsOnly
<1>5. EndsOnly(sess[s], Terminated(Poisoned(sess[s])))
  BY <1>3, <1>4, EndsTransitive
<1>6. waiting' = {t \in {s} : sess'[t].termination = "pending"} /\ unclosed' = {}
  BY <1>1 DEF AwaitEnd, Await
<1> QED BY <1>1, <1>2, <1>4, <1>5, <1>6 DEF Ended, EndsOnly, Sessions

\* What the sessions, the target and the broker do by themselves.
Outside ==
    /\ UNCHANGED <<runVars, aborted, closer>>
    /\ Alive' \subseteq Alive
    /\ \A s \in Alive' : sess'[s].termination # "done" /\ (s \in waiting \cup unclosed => s \in waiting' \cup unclosed')
    /\ waiting' \subseteq waiting /\ unclosed' \subseteq waiting \cup unclosed
    /\ \A r \in Runs : Untouched(r) => Untouched(r)'

\* A step of the session s, or of the broker at its other end.
StepOf(s) ==
    /\ UNCHANGED <<runVars, aborted, closer>>
    /\ ~Untouched(s)
    /\ \A t \in Sessions : t # s => sess'[t] = sess[t] /\ wire'[t] = wire[t] /\ broker'[t] = broker[t]
    /\ sess'[s].proc \in {"live", "ending"} =>
        sess[s].proc \in {"live", "ending"} /\ sess'[s].termination \in {"none", "pending", sess[s].termination}

\* What the sessions and the brokers do leaves the executor's own state alone.
LEMMA OutsideFrame ==
    ASSUME NEW s \in Runs, Session(s) \/ Broker(s)
    PROVE  UNCHANGED <<runVars, aborted, closer>>
<1>1. CASE ReadyArrives(s) \/ Ages(s) \/ IdleTimeout(s) \/ LifetimeTimeout(s) \/ SinkSettles(s)
  BY <1>1 DEF ReadyArrives, Ages, IdleTimeout, LifetimeTimeout, SinkSettles, SessionOnly, closeVars
<1>2. CASE TerminationEnds(s) \/ ProcessEnds(s)
  BY <1>2 DEF TerminationEnds, ProcessEnds, closeVars
<1>3. CASE Accept(s)
  BY <1>3 DEF Accept, closeVars
<1>4. CASE Broker(s)
  BY <1>4 DEF Broker, BrokerOutputs, BrokerEnds, BrokerFatal, BrokerRepeats, BrokerSends, closeVars
<1> QED BY <1>1, <1>2, <1>3, <1>4 DEF Session

LEMMA StepOfIsOutside ==
    ASSUME TypeOK, ProcessInv, NEW s \in Runs, StepOf(s), UNCHANGED <<waiting, unclosed>>
    PROVE  Outside
<1>1. Alive' \subseteq Alive
  BY DEF Alive, StepOf, Sessions
<1>2. \A t \in Alive' : sess'[t].termination # "done"
  BY <1>1 DEF Alive, StepOf, Sessions, ProcessInv
<1>3. \A r \in Runs : Untouched(r) => Untouched(r)'
  BY DEF StepOf, Sessions, Untouched, Quiet
<1> QED BY <1>1, <1>2, <1>3 DEF Outside, StepOf

LEMMA ExpiryIsStep ==
    ASSUME TypeOK, NEW s \in Runs, NEW x \in SessionRecords, EndsOnly(sess[s], x), Becomes(s, x),
           SessionOnly, ~Untouched(s)
    PROVE  StepOf(s)
BY DEF StepOf, EndsOnly, Becomes, SessionOnly, closeVars, brokerVars, Sessions, TypeOK

LEMMA OutsideSteps ==
    ASSUME TypeOK, CommandInv, ProcessInv, NEW s \in Runs, Session(s) \/ Broker(s)
    PROVE  Outside
<1> USE DEF Sessions
<1>0. sess[s] \in SessionRecords /\ sess \in [Runs -> SessionRecords]
  BY DEF TypeOK
<1>1. CASE ReadyArrives(s)
  <2>1. StepOf(s)
    BY <1>0, <1>1 DEF ReadyArrives, StepOf, Untouched, NewSession, closeVars, brokerVars
  <2> QED BY <1>1, <2>1, StepOfIsOutside DEF ReadyArrives, closeVars
<1>2. CASE Ages(s)
  <2>1. StepOf(s)
    BY <1>0, <1>2 DEF Ages, Becomes, SessionOnly, StepOf, Untouched, NewSession, closeVars, brokerVars, SessionRecords
  <2> QED BY <1>2, <2>1, StepOfIsOutside DEF Ages, SessionOnly, closeVars
<1>3. CASE IdleTimeout(s)
  <2>1. ~Untouched(s)
    BY <1>3 DEF IdleTimeout, Untouched, NewSession
  <2>2. StepOf(s)
    BY <1>0, <1>3, <2>1, ExpiredEnds, ExpiryIsStep DEF IdleTimeout, EndsOnly
  <2> QED BY <1>3, <2>2, StepOfIsOutside DEF IdleTimeout, SessionOnly, closeVars
<1>4. CASE LifetimeTimeout(s)
  <2> DEFINE x == [sess[s] EXCEPT !.retired = TRUE, !.life = FALSE]
  <2>1. ~Untouched(s)
    BY <1>4 DEF LifetimeTimeout, Untouched, NewSession
  <2>2. x \in SessionRecords /\ EndsOnly(sess[s], x)
    BY <1>0 DEF EndsOnly, SessionRecords, HasActiveCommand
  <2>3. EndsOnly(x, Terminated(ParserFailed([x EXCEPT !.reusable = FALSE])))
    BY <2>2, ExpiredEnds
  <2>4. EndsOnly(sess[s], Terminated(ParserFailed([x EXCEPT !.reusable = FALSE])))
    BY <2>2, <2>3, EndsTransitive
  <2>5. StepOf(s)
    BY <1>4, <2>1, <2>2, <2>4, ExpiryIsStep DEF LifetimeTimeout, EndsOnly
  <2> QED BY <1>4, <2>5, StepOfIsOutside DEF LifetimeTimeout, SessionOnly, closeVars
<1>5. CASE TerminationEnds(s)
  <2>1. ~Untouched(s)
    BY <1>5 DEF TerminationEnds, Untouched, NewSession
  <2>2. /\ \A t \in Runs : t # s => sess'[t] = sess[t] /\ wire'[t] = wire[t] /\ broker'[t] = broker[t]
        /\ sess'[s].proc \in {"live", "ending"} =>
            sess[s].proc \in {"live", "ending"} /\ sess'[s].termination = "none"
        /\ sess'[s].proc \in {"live", "ending"} /\ s \in waiting => s \in unclosed'
        /\ unclosed \subseteq unclosed'
    <3>1. CASE ~sess[s].sink /\ Becomes(s, [Collected(sess[s]) EXCEPT !.termination = "done"])
               /\ Disconnected(s) /\ UNCHANGED unclosed
      <4>1. ParserFailed(sess[s]).termination = sess[s].termination
        BY <1>0 DEF ParserFailed, SessionRecords
      <4> QED BY <1>0, <3>1 DEF Becomes, Collected, Disconnected, TypeOK
    <3>2. CASE /\ sess[s].proc # "dead" /\ Becomes(s, [sess[s] EXCEPT !.termination = "none"])
               /\ unclosed' = unclosed \cup ({s} \cap waiting) /\ UNCHANGED <<wire, broker>>
      BY <1>0, <3>2 DEF Becomes, SessionRecords
    <3> QED BY <1>5, <3>1, <3>2 DEF TerminationEnds
  <2>3. /\ UNCHANGED <<runVars, aborted, closer>> /\ waiting' = waiting \ {s}
        /\ unclosed' \subseteq unclosed \cup waiting
    BY <1>5 DEF TerminationEnds
  <2>4. Alive' \subseteq Alive
    BY <2>2 DEF Alive
  <2>5. \A t \in Alive' : sess'[t].termination # "done" /\ (t \in waiting \cup unclosed => t \in waiting' \cup unclosed')
    BY <2>2, <2>3, <2>4 DEF Alive, ProcessInv
  <2>6. \A r \in Runs : Untouched(r) => Untouched(r)'
    BY <2>1, <2>2 DEF Untouched, Quiet
  <2> QED BY <2>3, <2>4, <2>5, <2>6 DEF Outside
<1>6. CASE ProcessEnds(s)
  <2>1. ~Untouched(s)
    BY <1>6 DEF ProcessEnds, Untouched, NewSession
  <2>2. /\ \A t \in Runs : t # s => sess'[t] = sess[t] /\ wire'[t] = wire[t] /\ broker'[t] = broker[t]
        /\ sess'[s].proc \in {"live", "ending"} =>
            sess[s].proc \in {"live", "ending"} /\ sess'[s].termination = sess[s].termination
    <3>1. ParserFailed(sess[s]).termination = sess[s].termination /\ sess[s].proc \in {"live", "ending"}
      BY <1>0, <1>6 DEF ParserFailed, SessionRecords, ProcessEnds
    <3>2. CASE Becomes(s, [ParserFailed(sess[s]) EXCEPT !.proc = "ending"])
      BY <1>0, <1>6, <3>1, <3>2 DEF ProcessEnds, Becomes, Disconnected, TypeOK, ParserFailed, SessionRecords
    <3>3. CASE Becomes(s, Collected(sess[s]))
      BY <1>0, <1>6, <3>1, <3>3 DEF ProcessEnds, Becomes, Disconnected, TypeOK, Collected
    <3> QED BY <1>6, <3>2, <3>3 DEF ProcessEnds
  <2>3. StepOf(s)
    BY <1>6, <2>1, <2>2 DEF ProcessEnds, StepOf, closeVars
  <2> QED BY <1>6, <2>3, StepOfIsOutside DEF ProcessEnds, closeVars
<1>7. CASE Accept(s)
  <2>1. ~Untouched(s)
    BY <1>7 DEF Accept, Untouched, NewSession
  <2>2. /\ \A t \in Runs : t # s => sess'[t] = sess[t] /\ wire'[t] = wire[t] /\ broker'[t] = broker[t]
        /\ sess'[s].proc = sess[s].proc
        /\ sess'[s].proc \in {"live", "ending"} => sess'[s].termination \in {"none", "pending", sess[s].termination}
    <3>1. EndsOnly(sess[s], Poisoned(sess[s]))
      BY <1>0, PoisonedEnds
    <3> QED BY <1>0, <1>7, <3>1 DEF Accept, Becomes, EndsOnly, SessionRecords, TypeOK
  <2>3. StepOf(s)
    BY <1>7, <2>1, <2>2 DEF Accept, StepOf, closeVars
  <2> QED BY <1>7, <2>3, StepOfIsOutside DEF Accept, closeVars
<1>8. CASE SinkSettles(s)
  <2>1. ~Untouched(s)
    BY <1>8 DEF SinkSettles, Untouched, NewSession
  <2>2. /\ \A t \in Runs : t # s => sess'[t] = sess[t]
        /\ sess'[s].proc = sess[s].proc
        /\ sess'[s].proc \in {"live", "ending"} => sess'[s].termination \in {"none", "pending", sess[s].termination}
    <3>1. EndsOnly(sess[s], Poisoned(sess[s]))
      BY <1>0, PoisonedEnds
    <3> QED BY <1>0, <1>8, <3>1 DEF SinkSettles, Becomes, EndsOnly, SessionRecords
  <2>3. StepOf(s)
    BY <1>8, <2>1, <2>2 DEF SinkSettles, StepOf, SessionOnly, closeVars, brokerVars
  <2> QED BY <1>8, <2>3, StepOfIsOutside DEF SinkSettles, SessionOnly, closeVars
<1>9. CASE Broker(s)
  <2>1. sess[s].proc = "live" /\ UNCHANGED <<runVars, aborted, closeVars, sess>>
        /\ \A t \in Runs : t # s => wire'[t] = wire[t] /\ broker'[t] = broker[t]
    BY <1>9 DEF Broker, BrokerOutputs, BrokerEnds, BrokerFatal, BrokerRepeats, BrokerSends, TypeOK
  <2>2. StepOf(s)
    BY <1>0, <2>1 DEF StepOf, Untouched, NewSession, closeVars
  <2> QED BY <2>1, <2>2, StepOfIsOutside DEF closeVars
<1> QED BY <1>1, <1>2, <1>3, <1>4, <1>5, <1>6, <1>7, <1>8, <1>9 DEF Session
\* Nothing happens to a run that has no session.
LEMMA UntouchedKept ==
    ASSUME TypeOK, TurnInv, CommandInv, ProcessInv, [Next]_vars, NEW r \in Runs,
           Untouched(r), r \notin owned, r # session, r # using
    PROVE  Untouched(r)'
<1> USE DEF Sessions
<1>0. sess \in [Runs -> SessionRecords] /\ r # NoRun
  BY PuttyAssumption DEF TypeOK
<1>1. ASSUME sess'[r] = sess[r], UNCHANGED <<wire, broker>>
      PROVE  Untouched(r)'
  BY <1>1 DEF Untouched, Quiet
<1>2. ASSUME NEW S \in SUBSET Runs, AwaitClosed(S), r \notin S
      PROVE  sess'[r] = sess[r]
  BY <1>2, AwaitClosedEnds DEF Ended
<1>3. ASSUME using \in Runs, AwaitEnd(using)
      PROVE  sess'[r] = sess[r]
  BY <1>3, AwaitEndEnds DEF Ended
<1>4. CASE \E q \in Runs : Run(q)
  BY <1>1, <1>4 DEF Run, brokerVars
<1>5. CASE (\E q \in Runs : Abort(q)) \/ CloseCalled
  BY <1>0, <1>1, <1>5 DEF Abort, CloseCalled, brokerVars
<1>6. CASE TakeNext
  <2>1. RetiredSessions \subseteq Runs /\ r \notin RetiredSessions
    BY DEF RetiredSessions, TypeOK
  <2> QED BY <1>1, <1>2, <1>6, <2>1 DEF TakeNext, brokerVars
<1>7. CASE Spawned \/ Started
  BY <1>0, <1>1, <1>7 DEF Spawned, Started, brokerVars
<1>8. CASE Written
  BY <1>0, <1>8 DEF Written, Untouched, Quiet, TypeOK
<1>9. CASE DrainEnds \/ Abandoned \/ Discarded \/ Released \/ Retired \/ Failed \/ CloseSettled \/ Replaced
  BY <1>1, <1>9 DEF DrainEnds, Abandoned, Discarded, Released, Retired, Failed, CloseSettled, Replaced,
     Open, Goto, Finish, brokerVars
<1>10. ASSUME NEW s \in Runs, NEW x, Execute(s, x), r # s
       PROVE  Untouched(r)'
  <2>1. CASE sess' = [sess EXCEPT ![s] = IF Aborted(cur) THEN Poisoned(CommandBegun(x)) ELSE CommandBegun(x)]
    BY <1>0, <1>1, <1>10, <2>1 DEF Execute, Goto, brokerVars
  <2>2. CASE AwaitClosed({s})
    BY <1>1, <1>2, <1>10, <2>2 DEF Execute, Goto, brokerVars
  <2> QED BY <1>10, <2>1, <2>2 DEF Execute
<1>11. CASE Cleaned
  <2>1. session # NoRun => session \in Runs
    BY DEF TypeOK
  <2>2. CASE Finish("rejected", (owned \cap {session}) \cup unclosed, session) /\ UNCHANGED sess
    BY <1>1, <2>2 DEF Finish, brokerVars
  <2>3. CASE Open({})
    BY <1>1, <2>3 DEF Open, Goto, brokerVars
  <2>4. CASE session # NoRun /\ Goto("replacing", session, "none") /\ AwaitClosed({session})
    BY <1>1, <1>2, <2>1, <2>4 DEF Goto, brokerVars
  <2>5. CASE session # NoRun /\ Execute(session, sess[session])
    BY <1>10, <2>1, <2>5
  <2> QED BY <1>11, <2>2, <2>3, <2>4, <2>5 DEF Cleaned
<1>12. ~Resting /\ drain # "cleaning" => using \in Runs /\ r # using
  BY DEF TurnInv, TypeOK
<1>13. CASE StartFails \/ CommandFails
  BY <1>1, <1>2, <1>3, <1>12, <1>13 DEF StartFails, CommandFails, Goto, Resting, brokerVars
<1>14. CASE Opened
  BY <1>1, <1>2, <1>10, <1>12, <1>14 DEF Opened, Goto, Resting, brokerVars
<1>15. CASE Completed
  BY <1>0, <1>1, <1>2, <1>12, <1>15 DEF Completed, Goto, Finish, Resting, brokerVars
<1>16. CASE Finished
  BY <1>1, <1>3, <1>12, <1>16 DEF Finished, Goto, Finish, Resting, brokerVars
<1>17. CASE CloseSessions
  BY <1>1, <1>2, <1>17 DEF CloseSessions, brokerVars, TypeOK
<1>18. CASE \E s \in Runs : Session(s) \/ Broker(s)
  BY <1>18, OutsideSteps DEF Outside
<1>19. CASE UNCHANGED vars
  BY <1>1, <1>19 DEF vars, brokerVars
<1> QED BY <1>4, <1>5, <1>6, <1>7, <1>8, <1>9, <1>11, <1>13, <1>14, <1>15, <1>16, <1>17, <1>18, <1>19 DEF Next, Executor
----------------------------------------------------------------------------
(* The queue, and the turn.                                                *)

LEMMA RemoveAtIsSeq ==
    ASSUME NEW S, NEW q \in Seq(S), NEW i \in DOMAIN q
    PROVE  /\ RemoveAt(q, i) \in Seq(S)
           /\ DOMAIN RemoveAt(q, i) = 1..(Len(q) - 1)
           /\ \A j \in DOMAIN RemoveAt(q, i) : RemoveAt(q, i)[j] = IF j < i THEN q[j] ELSE q[j + 1]
<1> DEFINE a == SubSeq(q, 1, i - 1)
           b == SubSeq(q, i + 1, Len(q))
<1>1. a \in Seq(S) /\ Len(a) = i - 1 /\ \A j \in 1..(i - 1) : a[j] = q[j]
  OBVIOUS
<1>2. b \in Seq(S) /\ Len(b) = Len(q) - i /\ \A j \in 1..(Len(q) - i) : b[j] = q[i + j]
  OBVIOUS
<1> HIDE DEF a, b
<1>3. a \o b \in Seq(S) /\ Len(a \o b) = Len(q) - 1
  BY <1>1, <1>2
<1>4. \A j \in 1..(Len(q) - 1) : (a \o b)[j] = IF j < i THEN q[j] ELSE q[j + 1]
  <2> TAKE j \in 1..(Len(q) - 1)
  <2>1. CASE j < i
    BY <1>1, <1>2, <2>1
  <2>2. CASE ~(j < i)
    <3>1. j - Len(a) \in 1..(Len(q) - i) /\ i + (j - Len(a)) = j + 1 /\ ~(j <= Len(a))
      BY <1>1, <1>2, <2>2
    <3>2. b[j - Len(a)] = q[j + 1]
      BY <1>2, <3>1
    <3>3. (a \o b)[j] = b[j - Len(a)]
      BY <1>1, <1>2, <3>1
    <3> QED BY <2>2, <3>2, <3>3
  <2> QED BY <2>1, <2>2
<1>5. RemoveAt(q, i) = a \o b
  BY DEF RemoveAt, a, b
<1> QED BY <1>3, <1>4, <1>5

\* A run waits once, with no session, until its turn comes or it is aborted.
LEMMA QueueStep ==
    ASSUME TypeOK, QueueInv, TurnInv, CommandInv, ProcessInv, [Next]_vars
    PROVE  QueueInv'
<1> USE DEF Sessions
<1> DEFINE Waits(r) == state[r] \in {"new", "queued"}
           Free(r) == r \notin owned \cup waiting \cup unclosed /\ r # session /\ r # using /\ r # cur
<1>0. queue \in Seq(Runs) /\ state \in [Runs -> {"new", "queued", "active", "answered"}]
  BY DEF TypeOK
<1>1. ASSUME \A r \in Runs : Waits(r)' => Waits(r) /\ Free(r)',
             queue' = queue \/ queue' = <<>>, \A r \in Runs : state[r] = "queued" => queue' = <<>> \/ state'[r] = "queued"
      PROVE  QueueInv'
  <2>1. \A r \in Runs : Waits(r)' => Untouched(r)'
    BY <1>1, UntouchedKept DEF QueueInv
  <2>2. \A i \in DOMAIN queue' : state'[queue'[i]] = "queued"
    BY <1>1 DEF QueueInv, TypeOK
  <2> QED BY <1>1, <2>1, <2>2 DEF QueueInv
<1>2. ASSUME NEW q \in Runs, Run(q)
      PROVE  QueueInv'
  <2>1. \A r \in Runs : Waits(r)' => Untouched(r)' /\ Free(r)'
    BY <1>2, UntouchedKept DEF QueueInv, Run, closeVars, Answered, TypeOK
  <2>2. CASE UNCHANGED queue
    BY <1>2, <2>1, <2>2 DEF QueueInv, Run, Answered, TypeOK
  <2>3. CASE queue' = Append(queue, q) /\ state' = [state EXCEPT ![q] = "queued"]
    <3>1. state[q] = "new"
      BY <1>2 DEF Run
    <3>2. \A i \in DOMAIN queue : queue[i] \in Runs /\ queue[i] # q
      BY <3>1 DEF QueueInv, TypeOK
    <3>3. DOMAIN queue' = 1..(Len(queue) + 1) /\ \A i \in DOMAIN queue' : queue'[i] = IF i \in DOMAIN queue THEN queue[i] ELSE q
      BY <2>3 DEF TypeOK
    <3>4. \A i \in DOMAIN queue' : state'[queue'[i]] = "queued"
      BY <2>3, <3>2, <3>3 DEF QueueInv, TypeOK
    <3>5. \A i, j \in DOMAIN queue' : queue'[i] = queue'[j] => i = j
      BY <3>2, <3>3 DEF QueueInv, TypeOK
    <3> QED BY <2>1, <3>4, <3>5 DEF QueueInv
  <2> QED BY <1>2, <2>2, <2>3 DEF Run
<1>3. ASSUME NEW q \in Runs, Abort(q)
      PROVE  QueueInv'
  <2>1. \A r \in Runs : Waits(r)' => Waits(r) /\ Untouched(r)' /\ Free(r)'
    BY <1>3, UntouchedKept DEF QueueInv, Abort, closeVars, Answered, TypeOK
  <2>2. CASE state[q] # "queued"
    BY <1>3, <2>1, <2>2 DEF QueueInv, Abort
  <2>3. ASSUME NEW k \in DOMAIN queue, queue[k] = q, queue' = RemoveAt(queue, k), Answered(q, "aborted")
        PROVE  QueueInv'
    <3>1. DOMAIN queue' = 1..(Len(queue) - 1) /\ \A j \in DOMAIN queue' : queue'[j] = IF j < k THEN queue[j] ELSE queue[j + 1]
      BY <1>0, <2>3, RemoveAtIsSeq
    <3>2. \A j \in DOMAIN queue' : queue'[j] \in Runs /\ queue'[j] # q /\ state[queue'[j]] = "queued"
      BY <1>0, <2>3, <3>1 DEF QueueInv
    <3>3. \A j \in DOMAIN queue' : state'[queue'[j]] = "queued"
      BY <1>0, <2>3, <3>2 DEF Answered
    <3>4. \A i, j \in DOMAIN queue' : queue'[i] = queue'[j] => i = j
      <4> DEFINE at(j) == IF j < k THEN j ELSE j + 1
      <4>1. k \in 1..Len(queue) /\ Len(queue) \in Nat /\ DOMAIN queue = 1..Len(queue)
        BY <1>0, <2>3
      <4>2. \A j \in DOMAIN queue' : at(j) \in DOMAIN queue /\ queue'[j] = queue[at(j)]
        BY <3>1, <4>1
      <4>3. \A i, j \in DOMAIN queue' : at(i) = at(j) => i = j
        BY <3>1, <4>1
      <4> HIDE DEF at
      <4> QED BY <4>2, <4>3 DEF QueueInv
    <3> QED BY <2>1, <3>3, <3>4 DEF QueueInv
  <2> QED BY <1>3, <2>2, <2>3 DEF Abort
<1>4. CASE TakeNext
  <2>1. cur' \in Runs /\ state' = [state EXCEPT ![cur'] = "active"] /\ queue' = Tail(queue) /\ cur' = queue[1]
    BY <1>4 DEF TakeNext, TypeOK
  <2>2. Ended(RetiredSessions) /\ UNCHANGED <<owned, session, using>>
    BY <1>4, AwaitClosedEnds DEF TakeNext, RetiredSessions, TypeOK
  <2>3. \A r \in Runs : Waits(r)' => Waits(r) /\ Untouched(r)' /\ Free(r)'
    BY <2>1, <2>2, UntouchedKept DEF QueueInv, Ended, RetiredSessions, TypeOK
  <2>4. queue # <<>> /\ DOMAIN queue' = 1..(Len(queue) - 1) /\ \A j \in DOMAIN queue' : queue'[j] = queue[j + 1]
    BY <1>4, <2>1 DEF TakeNext, TypeOK
  <2>5. \A j \in DOMAIN queue' : queue'[j] \in Runs /\ queue'[j] # cur' /\ state[queue'[j]] = "queued"
    BY <2>1, <2>4 DEF QueueInv, TypeOK
  <2>6. \A j \in DOMAIN queue' : state'[queue'[j]] = "queued"
    BY <2>1, <2>5 DEF TypeOK
  <2>7. \A i, j \in DOMAIN queue' : queue'[i] = queue'[j] => i = j
    BY <1>0, <2>4 DEF QueueInv
  <2> QED BY <2>3, <2>6, <2>7 DEF QueueInv
<1>5. CASE CloseCalled
  <2>1. \A r \in Runs : Waits(r)' => Waits(r) /\ Free(r)'
    BY <1>5 DEF QueueInv, CloseCalled, TypeOK
  <2> QED BY <1>1, <1>5, <2>1 DEF CloseCalled
<1>6. CASE \E s \in Runs : Session(s) \/ Broker(s)
  <2>1. Outside
    BY <1>6, OutsideSteps
  <2>2. \A r \in Runs : Waits(r)' => Waits(r) /\ Free(r)'
    BY <2>1 DEF QueueInv, Outside, runVars
  <2> QED BY <1>1, <2>1, <2>2 DEF Outside, runVars
<1>7. CASE DrainEnds \/ Spawned \/ Started
  BY <1>1, <1>7 DEF DrainEnds, Spawned, Started, closeVars, QueueInv
<1>8. ASSUME ~Resting, NEW how, NEW own, NEW new, Finish(how, own, new), NoWait \/ (waiting' = {} /\ unclosed' = {}),
             own \subseteq owned \cup unclosed, new \in {session, NoRun}
      PROVE  QueueInv'
  <2>1. cur \in Runs /\ state' = [state EXCEPT ![cur] = "answered"] /\ UNCHANGED queue
    BY <1>8 DEF TurnInv, TypeOK, Finish, Answered
  <2>2. \A r \in Runs : Waits(r)' => Waits(r) /\ Free(r)'
    BY <1>0, <1>8, <2>1, PuttyAssumption DEF QueueInv, Finish, NoWait
  <2> QED BY <1>0, <1>1, <2>1, <2>2 DEF QueueInv
<1>9. ASSUME UNCHANGED <<queue, state, cur>>, using' \in {using, session, cur}, session' \in {session, using, NoRun},
             owned' \subseteq owned \cup unclosed \cup {cur},
             waiting' \subseteq waiting \cup owned \cup {using, session}, unclosed' \subseteq unclosed
      PROVE  QueueInv'
  <2>1. \A r \in Runs : Waits(r)' => Waits(r) /\ Free(r)'
    BY <1>9, PuttyAssumption DEF QueueInv
  <2> QED BY <1>1, <1>9, <2>1
<1>10. ASSUME NEW S \in SUBSET (owned \cup {session, using}), NoRun \notin S, AwaitClosed(S)
       PROVE  waiting' \subseteq S /\ unclosed' = {}
  <2>1. S \subseteq Runs
    BY <1>10 DEF TypeOK
  <2> QED BY <1>10, <2>1, AwaitClosedEnds DEF Ended
<1>11. ~Resting /\ drain # "cleaning" => using \in Runs /\ using # NoRun
  BY PuttyAssumption DEF TurnInv, TypeOK
<1>12. ASSUME using \in Runs, AwaitEnd(using)
       PROVE  waiting' \subseteq {using} /\ unclosed' = {}
  BY <1>12, AwaitEndEnds DEF Ended
<1>13. ASSUME NEW s \in {session, using}, s # NoRun, NEW x, Execute(s, x)
       PROVE  QueueInv'
  <2>1. s \in Runs
    BY <1>13 DEF TypeOK
  <2>2. CASE NoWait
    BY <1>9, <1>13, <2>2 DEF Execute, Goto, NoWait
  <2>3. CASE AwaitClosed({s})
    BY <1>9, <1>10, <1>13, <2>3 DEF Execute, Goto, NoWait
  <2> QED BY <1>13, <2>2, <2>3 DEF Execute
<1>14. CASE Cleaned
  <2>1. ~Resting
    BY <1>14 DEF Cleaned, Resting
  <2>2. CASE Finish("rejected", (owned \cap {session}) \cup unclosed, session) /\ NoWait
    BY <1>8, <2>1, <2>2
  <2>3. CASE Open({})
    BY <1>9, <2>3 DEF Open, Goto
  <2>4. CASE session # NoRun /\ Goto("replacing", session, "none") /\ session' = NoRun
             /\ owned' = (owned \cap {session}) \cup unclosed /\ AwaitClosed({session})
    BY <1>9, <1>10, <2>4 DEF Goto
  <2>5. CASE session # NoRun /\ Execute(session, sess[session])
    BY <1>13, <2>5
  <2> QED BY <1>14, <2>2, <2>3, <2>4, <2>5 DEF Cleaned
<1>15. CASE Replaced
  <2>1. CASE Finish("rejected", owned, NoRun) /\ NoWait
    BY <1>8, <1>15, <2>1 DEF Replaced, Resting
  <2>2. CASE Open(owned \ {using})
    BY <1>9, <2>2 DEF Open, Goto
  <2> QED BY <1>15, <2>1, <2>2 DEF Replaced
<1>16. CASE Abandoned \/ Discarded \/ Released \/ Retired \/ Failed
  BY <1>8, <1>16 DEF Abandoned, Discarded, Released, Retired, Failed, Resting
<1>17. CASE StartFails \/ CommandFails
  BY <1>9, <1>10, <1>11, <1>12, <1>17 DEF StartFails, CommandFails, Goto, Resting
<1>18. CASE Opened
  BY <1>9, <1>10, <1>11, <1>13, <1>18 DEF Opened, Goto, Resting
<1>19. CASE Written
  BY <1>9, <1>19 DEF Written, closeVars
<1>20. CASE Completed
  BY <1>8, <1>9, <1>10, <1>11, <1>20 DEF Completed, Goto, Resting
<1>21. CASE Finished
  BY <1>8, <1>9, <1>11, <1>12, <1>21 DEF Finished, Goto, Resting
<1>22. CASE CloseSessions
  <2>1. NoRun \notin owned
    BY PuttyAssumption DEF TypeOK
  <2> QED BY <1>9, <1>10, <1>22, <2>1 DEF CloseSessions
<1>23. CASE CloseSettled
  BY <1>9, <1>23 DEF CloseSettled
<1>24. CASE UNCHANGED vars
  BY <1>1, <1>24 DEF vars, runVars, closeVars, QueueInv
<1> QED BY <1>2, <1>3, <1>4, <1>5, <1>6, <1>7, <1>14, <1>15, <1>16, <1>17, <1>18, <1>19, <1>20, <1>21,
           <1>22, <1>23, <1>24 DEF Next, Executor

----------------------------------------------------------------------------
(* Types.                                                                  *)

LEMMA CommandBegunTyped ==
    ASSUME NEW x \in SessionRecords
    PROVE  /\ CommandBegun(x) \in SessionRecords
           /\ Poisoned(CommandBegun(x)) \in SessionRecords
<1>1. CommandBegun(x) \in SessionRecords
  BY DEF CommandBegun, SessionRecords
<1> QED BY <1>1, PoisonedEnds DEF EndsOnly

LEMMA CollectedTyped ==
    ASSUME NEW x \in SessionRecords
    PROVE  Collected(x) \in SessionRecords /\ ParserFailed(x) \in SessionRecords
<1>1. ParserFailed(x) \in SessionRecords
  <2>1. CASE x.parser = "fatal"
    BY <2>1 DEF ParserFailed
  <2>2. CASE x.parser # "fatal" /\ HasActiveCommand(x)
    BY <2>2 DEF ParserFailed, SessionRecords
  <2>3. CASE x.parser # "fatal" /\ ~HasActiveCommand(x)
    BY <2>3 DEF ParserFailed, SessionRecords
  <2> QED BY <2>1, <2>2, <2>3
<1>2. ASSUME NEW y \in SessionRecords
      PROVE  TimersCleared(y) \in SessionRecords
  BY <1>2 DEF TimersCleared, SessionRecords
<1>3. ASSUME NEW y \in SessionRecords
      PROVE  [y EXCEPT !.proc = "dead", !.aged = FALSE, !.ready = FALSE, !.reusable = FALSE] \in SessionRecords
  BY <1>3 DEF SessionRecords
<1> QED BY <1>1, <1>2, <1>3 DEF Collected

LEMMA IdleScheduledTyped ==
    ASSUME NEW x \in SessionRecords
    PROVE  IdleScheduled(x) \in SessionRecords
BY DEF IdleScheduled, SessionRecords

\* Every step leaves a record of the right kind for each session.
LEMMA SessionsTyped ==
    ASSUME TypeOK, TurnInv, CommandInv, [Next]_vars
    PROVE  sess' \in [Runs -> SessionRecords]
<1> USE DEF Sessions
<1>0. sess \in [Runs -> SessionRecords]
  BY DEF TypeOK
<1>1. ~Resting /\ drain # "cleaning" => using \in Runs
  BY DEF TurnInv, TypeOK
<1>2. ASSUME NEW S \in SUBSET Runs, AwaitClosed(S)
      PROVE  sess' \in [Runs -> SessionRecords]
  BY <1>2, AwaitClosedEnds DEF Ended
<1>3. ASSUME NEW s \in Runs, AwaitEnd(s)
      PROVE  sess' \in [Runs -> SessionRecords]
  BY <1>3, AwaitEndEnds DEF Ended
<1>4. ASSUME NEW s \in Runs, NEW x \in SessionRecords, sess' = [sess EXCEPT ![s] = x]
      PROVE  sess' \in [Runs -> SessionRecords]
  BY <1>0, <1>4
<1>5. \A s \in Runs : sess[s] \in SessionRecords /\ Poisoned(sess[s]) \in SessionRecords
  BY <1>0, PoisonedEnds DEF EndsOnly
<1>6. CASE UNCHANGED sess
  BY <1>0, <1>6
<1>7. CASE \E r \in Runs : Run(r) \/ Abort(r)
  <2>1. \A r \in Runs : AbortReaches(r) => using \in Runs
    BY <1>1 DEF AbortReaches, Resting
  <2> QED BY <1>4, <1>5, <1>6, <1>7, <2>1 DEF Run, Abort
<1>8. CASE CloseCalled
  <2>1. AbortReaches(cur) => using \in Runs
    BY <1>1 DEF AbortReaches, Resting
  <2> QED BY <1>4, <1>5, <1>6, <1>8, <2>1 DEF CloseCalled
<1>9. CASE TakeNext
  BY <1>2, <1>9 DEF TakeNext, RetiredSessions, TypeOK
<1>10. ASSUME NEW s \in Runs, Execute(s, sess[s])
       PROVE  sess' \in [Runs -> SessionRecords]
  BY <1>2, <1>4, <1>5, <1>10, CommandBegunTyped DEF Execute
<1>11. CASE Cleaned
  <2>1. session # NoRun => session \in Runs
    BY DEF TypeOK
  <2> QED BY <1>2, <1>6, <1>10, <1>11, <2>1 DEF Cleaned, Open
<1>12. CASE Spawned \/ Started
  <2>1. using \in Runs /\ sess[using] \in SessionRecords
    BY <1>0, <1>1, <1>12 DEF Spawned, Started, Resting
  <2>2. CASE sess' = [sess EXCEPT ![using].proc = "live"]
    BY <1>0, <2>1, <2>2 DEF SessionRecords
  <2>3. CASE sess' = [sess EXCEPT ![using].ready = TRUE, ![using].reusable = TRUE, ![using].life = TRUE]
    BY <1>0, <2>1, <2>3 DEF SessionRecords
  <2> QED BY <1>12, <2>2, <2>3 DEF Spawned, Started
<1>13. CASE StartFails \/ CommandFails
  BY <1>1, <1>2, <1>3, <1>13 DEF StartFails, CommandFails, Resting
<1>14. CASE Opened
  BY <1>1, <1>2, <1>10, <1>14 DEF Opened, Resting
<1>15. CASE Written
  BY <1>1, <1>4, <1>5, <1>6, <1>15 DEF Written, Resting
<1>16. CASE Completed
  BY <1>1, <1>2, <1>4, <1>5, <1>16, IdleScheduledTyped DEF Completed, Resting
<1>17. CASE Finished
  BY <1>1, <1>3, <1>6, <1>17 DEF Finished, Resting
<1>18. CASE CloseSessions
  BY <1>2, <1>18 DEF CloseSessions, TypeOK
<1>19. ASSUME NEW s \in Runs, Session(s) \/ Broker(s)
       PROVE  sess' \in [Runs -> SessionRecords]
  <2>1. sess[s] \in SessionRecords
    BY <1>0
  <2>2. CASE ReadyArrives(s)
    BY <1>0, <2>1, <2>2 DEF ReadyArrives, SessionRecords
  <2>3. CASE Ages(s)
    BY <1>0, <2>1, <2>3 DEF Ages, Becomes, SessionRecords
  <2>4. CASE IdleTimeout(s)
    BY <1>4, <2>1, <2>4, ExpiredEnds DEF IdleTimeout, Becomes, EndsOnly
  <2>5. CASE LifetimeTimeout(s)
    <3> DEFINE x == [sess[s] EXCEPT !.retired = TRUE, !.life = FALSE]
    <3>1. x \in SessionRecords
      BY <2>1 DEF SessionRecords
    <3>2. Terminated(ParserFailed([x EXCEPT !.reusable = FALSE])) \in SessionRecords
      BY <3>1, ExpiredEnds DEF EndsOnly
    <3> QED BY <1>4, <2>5, <3>1, <3>2 DEF LifetimeTimeout, Becomes
  <2>6. CASE TerminationEnds(s)
    <3>1. [Collected(sess[s]) EXCEPT !.termination = "done"] \in SessionRecords
      BY <2>1, CollectedTyped DEF SessionRecords
    <3>2. [sess[s] EXCEPT !.termination = "none"] \in SessionRecords
      BY <2>1 DEF SessionRecords
    <3> QED BY <1>4, <2>6, <3>1, <3>2 DEF TerminationEnds, Becomes
  <2>7. CASE ProcessEnds(s)
    <3>1. [ParserFailed(sess[s]) EXCEPT !.proc = "ending"] \in SessionRecords
      BY <2>1, CollectedTyped DEF SessionRecords
    <3> QED BY <1>4, <2>1, <2>7, <3>1, CollectedTyped DEF ProcessEnds, Becomes
  <2>8. CASE Accept(s)
    <3>1. /\ [sess[s] EXCEPT !.command = "began"] \in SessionRecords
          /\ [sess[s] EXCEPT !.command = "completed"] \in SessionRecords
          /\ [sess[s] EXCEPT !.sink = TRUE] \in SessionRecords
      BY <2>1 DEF SessionRecords
    <3> QED BY <1>4, <1>5, <2>8, <3>1 DEF Accept, Becomes
  <2>9. CASE SinkSettles(s)
    <3>1. [sess[s] EXCEPT !.sink = FALSE] \in SessionRecords
      BY <2>1 DEF SessionRecords
    <3>2. ASSUME NEW x \in SessionRecords
          PROVE  [x EXCEPT !.command = "undelivered"] \in SessionRecords
      BY <3>2 DEF SessionRecords
    <3>3. [Poisoned(sess[s]) EXCEPT !.command = "undelivered"] \in SessionRecords
      BY <1>5, <3>2
    <3> QED BY <1>4, <2>9, <3>1, <3>3 DEF SinkSettles, Becomes
  <2>10. CASE Broker(s)
    BY <1>6, <2>10 DEF Broker, BrokerOutputs, BrokerEnds, BrokerFatal, BrokerRepeats, BrokerSends
  <2> QED BY <1>19, <2>2, <2>3, <2>4, <2>5, <2>6, <2>7, <2>8, <2>9, <2>10 DEF Session
<1>20. CASE DrainEnds \/ Replaced \/ Abandoned \/ Discarded \/ Released \/ Retired \/ Failed \/ CloseSettled
            \/ UNCHANGED vars
  BY <1>6, <1>20 DEF DrainEnds, Replaced, Open, Abandoned, Discarded, Released, Retired, Failed, CloseSettled, vars
<1> QED BY <1>7, <1>8, <1>9, <1>11, <1>12, <1>13, <1>14, <1>15, <1>16, <1>17, <1>18, <1>19, <1>20 DEF Next, Executor

LEMMA ControlTyped ==
    ASSUME TypeOK, TurnInv, [Next]_vars
    PROVE  /\ state' \in [Runs -> {"new", "queued", "active", "answered"}]
           /\ answer' \in [Runs -> {"none", "aborted", "rejected", "failed", "completed"}]
           /\ drain' \in {"none", "next", "ending", "cleaning", "replacing", "spawning", "starting", "opened",
                          "abandoning", "discarding", "releasing", "writing", "executing", "finishing",
                          "retiring", "failing"}
           /\ queue' \in Seq(Runs)
           /\ cur' \in Runs \cup {NoRun} /\ error' \in {"none", "failed", "rejected"}
           /\ session' \in Runs \cup {NoRun} /\ using' \in Runs \cup {NoRun} /\ owned' \subseteq Runs
           /\ closer' \in {"none", "draining", "closing", "closed", "failed"}
<1> DEFINE Control ==
        /\ state' \in [Runs -> {"new", "queued", "active", "answered"}]
        /\ answer' \in [Runs -> {"none", "aborted", "rejected", "failed", "completed"}]
        /\ drain' \in {"none", "next", "ending", "cleaning", "replacing", "spawning", "starting", "opened",
                       "abandoning", "discarding", "releasing", "writing", "executing", "finishing",
                       "retiring", "failing"}
        /\ queue' \in Seq(Runs)
        /\ cur' \in Runs \cup {NoRun} /\ error' \in {"none", "failed", "rejected"}
        /\ session' \in Runs \cup {NoRun} /\ using' \in Runs \cup {NoRun} /\ owned' \subseteq Runs
        /\ closer' \in {"none", "draining", "closing", "closed", "failed"}
<1>0. /\ unclosed \subseteq Runs /\ (~Resting => cur \in Runs)
      /\ state \in [Runs -> {"new", "queued", "active", "answered"}]
      /\ answer \in [Runs -> {"none", "aborted", "rejected", "failed", "completed"}]
  BY DEF TypeOK, TurnInv
<1>1. ASSUME NEW how \in {"aborted", "rejected", "failed", "completed"}, ~Resting,
             NEW own \in SUBSET Runs, NEW new \in Runs \cup {NoRun}, Finish(how, own, new), UNCHANGED closer
      PROVE  Control
  BY <1>0, <1>1 DEF Finish, Answered, TypeOK
<1>2. ASSUME NEW step \in {"replacing", "spawning", "abandoning", "discarding", "releasing", "writing",
                           "finishing", "retiring", "failing"},
             NEW s \in Runs \cup {NoRun}, NEW err \in {"none", "failed", "rejected"}, Goto(step, s, err),
             owned' \subseteq Runs, session' \in Runs \cup {NoRun}, UNCHANGED closer
      PROVE  Control
  BY <1>2 DEF Goto, TypeOK
<1>3. ASSUME NEW own \in SUBSET Runs, ~Resting, Open(own)
      PROVE  Control
  BY <1>0, <1>2, <1>3 DEF Open, Goto, TypeOK
<1>4. ASSUME NEW s \in Runs \cup {NoRun}, NEW x, Execute(s, x)
      PROVE  Control
  BY <1>2, <1>4 DEF Execute, NoWait, TypeOK
<1>5. ASSUME NEW r \in Runs, Run(r)
      PROVE  Control
  <2>1. queue' \in Seq(Runs)
    <3>1. queue' = Append(queue, r) \/ UNCHANGED queue
      BY <1>5 DEF Run
    <3>2. queue \in Seq(Runs)
      BY DEF TypeOK
    <3> QED BY <3>1, <3>2
  <2>2. /\ state' \in [Runs -> {"new", "queued", "active", "answered"}]
        /\ answer' \in [Runs -> {"none", "aborted", "rejected", "failed", "completed"}]
    <3>1. \/ \E how \in {"rejected", "aborted"} : Answered(r, how)
          \/ state' = [state EXCEPT ![r] = "queued"] /\ UNCHANGED answer
      BY <1>5 DEF Run
    <3> QED BY <1>0, <3>1 DEF Answered
  <2>3. drain' \in {drain, "next"}
    BY <1>5 DEF Run
  <2> QED BY <1>5, <2>1, <2>2, <2>3 DEF Run, closeVars, TypeOK
<1>6. ASSUME NEW r \in Runs, Abort(r)
      PROVE  Control
  <2>1. queue' \in Seq(Runs)
    BY <1>6, RemoveAtIsSeq DEF Abort, TypeOK
  <2>2. /\ state' \in [Runs -> {"new", "queued", "active", "answered"}]
        /\ answer' \in [Runs -> {"none", "aborted", "rejected", "failed", "completed"}]
    <3>1. Answered(r, "aborted") \/ UNCHANGED <<state, answer>>
      BY <1>6 DEF Abort
    <3> QED BY <1>0, <3>1 DEF Answered
  <2> QED BY <1>6, <2>1, <2>2 DEF Abort, closeVars, TypeOK
<1>7. CASE TakeNext
  <2>1. Head(queue) \in Runs /\ Tail(queue) \in Seq(Runs)
    BY <1>7 DEF TakeNext, TypeOK
  <2> QED BY <1>7, <2>1 DEF TakeNext, TypeOK
<1>8. CASE DrainEnds \/ Spawned \/ Started \/ Written \/ CloseSessions \/ CloseSettled
  BY <1>8 DEF DrainEnds, AfterDrain, Spawned, Started, Written, CloseSessions, CloseSettled, closeVars, TypeOK
<1>9. CASE CloseCalled
  BY <1>9 DEF CloseCalled, TypeOK
<1>10. error \in {"failed", "rejected"} \/ error = "none"
  BY DEF TypeOK
<1>11. CASE Cleaned
  <2>1. ~Resting /\ UNCHANGED closer
    BY <1>11 DEF Cleaned, Resting, NoWait, Open, Execute
  <2>2. (owned \cap {session}) \cup unclosed \subseteq Runs /\ session \in Runs \cup {NoRun}
    BY <1>0 DEF TypeOK
  <2> QED BY <1>1, <1>2, <1>3, <1>4, <1>11, <2>1, <2>2 DEF Cleaned
<1>12. CASE Replaced
  BY <1>1, <1>3, <1>12 DEF Replaced, Resting, NoWait, TypeOK
<1>13. CASE StartFails \/ CommandFails
  BY <1>2, <1>13 DEF StartFails, CommandFails, TypeOK
<1>14. CASE Opened
  BY <1>2, <1>4, <1>14 DEF Opened, TypeOK
<1>15. CASE Completed
  BY <1>1, <1>2, <1>15 DEF Completed, Resting, NoWait, TypeOK
<1>16. CASE Finished
  BY <1>1, <1>2, <1>16 DEF Finished, Resting, NoWait, TypeOK
<1>17. CASE Discarded \/ Retired
  BY <1>1, <1>17 DEF Discarded, Retired, Resting, NoWait, TypeOK
<1>18. CASE \E s \in Runs : Session(s) \/ Broker(s)
  <2>1. UNCHANGED <<runVars, closer>>
    BY <1>18, OutsideFrame
  <2> QED BY <2>1 DEF runVars, TypeOK
<1>19. CASE UNCHANGED vars
  BY <1>19 DEF vars, runVars, closeVars, TypeOK
<1>20. CASE Abandoned \/ Released \/ Failed
  <2>1. Outcome \in {"aborted", "failed", "rejected"}
    BY <1>20 DEF Abandoned, Released, Failed, Outcome, TurnInv, TypeOK
  <2> QED BY <1>1, <1>20, <2>1 DEF Abandoned, Released, Failed, Resting, NoWait, TypeOK
<1> QED BY <1>5, <1>6, <1>7, <1>8, <1>9, <1>11, <1>12, <1>13, <1>14, <1>15, <1>16, <1>17, <1>18, <1>19, <1>20
        DEF Next, Executor, Sessions
LEMMA TargetTyped ==
    ASSUME TypeOK, TurnInv, CommandInv, [Next]_vars
    PROVE  /\ waiting' \subseteq Runs /\ unclosed' \subseteq Runs
           /\ finished' \subseteq Runs /\ output' \in [Runs -> SUBSET Runs] /\ troubles' \in Nat
           /\ wire' \in [Runs -> Seq(Frames)]
           /\ broker' \in [Runs -> [run : Runs \cup {NoRun}, left : Nat]]
<1> USE DEF Sessions
<1> DEFINE Waited == waiting' \subseteq Runs /\ unclosed' \subseteq Runs
           Target == /\ finished' \subseteq Runs /\ output' \in [Runs -> SUBSET Runs]
                     /\ wire' \in [Runs -> Seq(Frames)]
                     /\ broker' \in [Runs -> [run : Runs \cup {NoRun}, left : Nat]]
<1>1. ~Resting /\ drain # "cleaning" => using \in Runs /\ cur \in Runs
  BY DEF TurnInv, TypeOK
<1>2. troubles \in Nat /\ (Calm => troubles' \in Nat) /\ (Trouble => troubles' \in Nat)
  BY DEF TypeOK, Calm, Trouble
<1>3. UNCHANGED brokerVars => Target
  BY DEF brokerVars, TypeOK
<1>4. UNCHANGED <<waiting, unclosed>> => Waited
  BY DEF TypeOK
<1>5. ASSUME NEW S \in SUBSET Runs, AwaitClosed(S)
      PROVE  Waited
  BY <1>5, AwaitClosedEnds DEF Ended
<1>6. ASSUME NEW s \in Runs, AwaitEnd(s)
      PROVE  Waited
  BY <1>6, AwaitEndEnds DEF Ended
<1>7. CASE (\E r \in Runs : Run(r) \/ Abort(r)) \/ DrainEnds \/ Spawned \/ Started \/ CloseCalled \/ CloseSettled
  BY <1>2, <1>3, <1>4, <1>7 DEF Run, Abort, DrainEnds, Spawned, Started, CloseCalled, CloseSettled, closeVars, Calm
<1>8. CASE TakeNext \/ CloseSessions
  BY <1>2, <1>3, <1>5, <1>8 DEF TakeNext, CloseSessions, RetiredSessions, Calm, TypeOK
<1>9. ASSUME NEW s \in Runs, NEW x, Execute(s, x)
      PROVE  Waited /\ Target /\ troubles' \in Nat
  BY <1>2, <1>3, <1>4, <1>5, <1>9 DEF Execute, Goto, NoWait, Calm
<1>10. CASE Cleaned
  <2>1. session # NoRun => session \in Runs
    BY DEF TypeOK
  <2> QED BY <1>2, <1>3, <1>4, <1>5, <1>9, <1>10, <2>1 DEF Cleaned, Finish, Open, Goto, NoWait, Calm
<1>11. CASE Replaced \/ Abandoned \/ Discarded \/ Released \/ Retired \/ Failed
  BY <1>2, <1>3, <1>4, <1>11 DEF Replaced, Open, Abandoned, Discarded, Released, Retired, Failed, Goto, Finish,
     NoWait, Calm
<1>12. CASE StartFails \/ CommandFails \/ Finished
  BY <1>1, <1>2, <1>3, <1>4, <1>5, <1>6, <1>12 DEF StartFails, CommandFails, Finished, Goto, Finish, NoWait,
     Calm, Resting
<1>13. CASE Opened \/ Completed
  BY <1>1, <1>2, <1>3, <1>4, <1>5, <1>9, <1>13 DEF Opened, Completed, Goto, Finish, NoWait, Calm, Resting
<1>14. CASE Written
  <2>1. using \in Runs /\ cur \in Runs
    BY <1>1, <1>14 DEF Written, Resting
  <2>2. Append(wire[using], [run |-> cur, kind |-> "BEGIN"]) \in Seq(Frames)
    <3>1. [run |-> cur, kind |-> "BEGIN"] \in Frames
      BY <2>1 DEF Frames
    <3>2. wire[using] \in Seq(Frames)
      BY <2>1 DEF TypeOK
    <3> QED BY <3>1, <3>2
  <2>3. wire' \in [Runs -> Seq(Frames)] /\ broker' \in [Runs -> [run : Runs \cup {NoRun}, left : Nat]]
    <3>1. [run |-> cur, left |-> MaxOutput] \in [run : Runs \cup {NoRun}, left : Nat]
      BY <2>1, PuttyAssumption
    <3>2. wire \in [Runs -> Seq(Frames)] /\ broker \in [Runs -> [run : Runs \cup {NoRun}, left : Nat]]
      BY DEF TypeOK
    <3>3. \/ UNCHANGED <<wire, broker>>
          \/ /\ broker' = [broker EXCEPT ![using] = [run |-> cur, left |-> MaxOutput]]
             /\ wire' = [wire EXCEPT ![using] = Append(@, [run |-> cur, kind |-> "BEGIN"])]
      BY <1>14 DEF Written
    <3> QED BY <2>1, <2>2, <3>1, <3>2, <3>3
  <2> QED BY <1>2, <1>4, <1>14, <2>3 DEF Written, closeVars, TypeOK
<1>15. ASSUME NEW s \in Runs, Session(s)
       PROVE  Waited /\ Target /\ troubles' \in Nat
  <2>1. CASE ReadyArrives(s) \/ Ages(s) \/ IdleTimeout(s) \/ LifetimeTimeout(s) \/ SinkSettles(s)
    BY <1>2, <1>3, <1>4, <2>1 DEF ReadyArrives, Ages, IdleTimeout, LifetimeTimeout, SinkSettles, SessionOnly,
       closeVars, Calm
  <2>2. Disconnected(s) => wire' \in [Runs -> Seq(Frames)] /\ broker' \in [Runs -> [run : Runs \cup {NoRun}, left : Nat]]
    BY DEF Disconnected, TypeOK
  <2>3. CASE TerminationEnds(s)
    BY <1>2, <2>2, <2>3 DEF TerminationEnds, TypeOK
  <2>4. CASE ProcessEnds(s)
    BY <1>2, <1>4, <2>2, <2>4 DEF ProcessEnds, closeVars, TypeOK
  <2>5. CASE Accept(s)
    <3>1. Tail(wire[s]) \in Seq(Frames) /\ Head(wire[s]) \in Frames
      BY <2>5 DEF Accept, TypeOK
    <3>2. wire' \in [Runs -> Seq(Frames)] /\ UNCHANGED <<broker, finished, closeVars, troubles>>
      BY <2>5, <3>1 DEF Accept, TypeOK
    <3>3. output' \in [Runs -> SUBSET Runs]
      <4>1. CASE UNCHANGED output
        BY <4>1 DEF TypeOK
      <4>2. CASE HasActiveCommand(sess[s]) /\ HasPrefix(Head(wire[s]))
                 /\ output' = [output EXCEPT ![cur] = @ \cup {Head(wire[s]).run}]
        <5>1. cur \in Runs
          BY <1>1, <4>2 DEF CommandInv, Resting
        <5> QED BY <4>2, <5>1 DEF HasPrefix, TypeOK
      <4> QED BY <2>5, <4>1, <4>2 DEF Accept
    <3> QED BY <1>2, <1>4, <3>2, <3>3 DEF closeVars, TypeOK
  <2> QED BY <1>15, <2>1, <2>3, <2>4, <2>5 DEF Session
<1>16. ASSUME NEW s \in Runs, Broker(s)
       PROVE  Waited /\ Target /\ troubles' \in Nat
  <2>1. UNCHANGED <<closeVars, output>> /\ troubles' \in Nat
    BY <1>2, <1>16 DEF Broker, BrokerOutputs, BrokerEnds, BrokerFatal, BrokerRepeats, BrokerSends, Calm
  <2>2. ASSUME NEW f \in Frames, BrokerSends(s, f)
        PROVE  wire' \in [Runs -> Seq(Frames)]
    BY <2>2 DEF BrokerSends, TypeOK
  <2>3. broker[s].run \in Runs \cup {NoRun} /\ broker[s].left \in Nat /\ finished \subseteq Runs
    BY DEF TypeOK
  <2>4. CASE BrokerOutputs(s)
    <3>1. [run |-> broker[s].run, kind |-> "OUT"] \in Frames
      BY <2>3 DEF Frames
    <3>2. broker' \in [Runs -> [run : Runs \cup {NoRun}, left : Nat]] /\ UNCHANGED finished
      <4>1. broker' = [broker EXCEPT ![s].left = @ - 1] /\ broker[s].left > 0 /\ UNCHANGED finished
        BY <2>4 DEF BrokerOutputs
      <4>2. broker \in [Runs -> [run : Runs \cup {NoRun}, left : Nat]] /\ broker[s].left - 1 \in Nat
        BY <2>3, <4>1 DEF TypeOK
      <4> QED BY <4>1, <4>2
    <3> QED BY <1>4, <2>1, <2>2, <2>4, <3>1, <3>2 DEF BrokerOutputs, closeVars, TypeOK
  <2>5. CASE BrokerEnds(s)
    <3>1. [run |-> broker[s].run, kind |-> "END"] \in Frames
      BY <2>3 DEF Frames
    <3>2. broker' \in [Runs -> [run : Runs \cup {NoRun}, left : Nat]] /\ finished' \subseteq Runs
      BY <2>3, <2>5 DEF BrokerEnds, TypeOK
    <3> QED BY <1>4, <2>1, <2>2, <2>5, <3>1, <3>2 DEF BrokerEnds, closeVars, TypeOK
  <2>6. CASE BrokerFatal(s)
    <3>1. [run |-> NoRun, kind |-> "FATAL"] \in Frames
      BY DEF Frames
    <3>2. broker' \in [Runs -> [run : Runs \cup {NoRun}, left : Nat]] /\ UNCHANGED finished
      BY <2>3, <2>6 DEF BrokerFatal, TypeOK
    <3> QED BY <1>4, <2>1, <2>2, <2>6, <3>1, <3>2 DEF BrokerFatal, closeVars, TypeOK
  <2>7. CASE \E r \in Runs, kind \in {"OUT", "END"} : BrokerRepeats(s, r, kind)
    <3>1. PICK r \in Runs, kind \in {"OUT", "END"} : BrokerRepeats(s, r, kind)
      BY <2>7
    <3>2. [run |-> r, kind |-> kind] \in Frames
      BY DEF Frames
    <3>3. wire' \in [Runs -> Seq(Frames)]
      BY <2>2, <3>1, <3>2 DEF BrokerRepeats
    <3> QED BY <1>4, <2>1, <3>1, <3>3 DEF BrokerRepeats, closeVars, TypeOK
  <2> QED BY <1>16, <2>4, <2>5, <2>6, <2>7 DEF Broker
<1>17. CASE UNCHANGED vars
  BY <1>2, <1>3, <1>4, <1>17 DEF vars, closeVars, Calm
<1> QED BY <1>7, <1>8, <1>10, <1>11, <1>12, <1>13, <1>14, <1>15, <1>16, <1>17 DEF Next, Executor

\* TypeOK is kept by every step.
LEMMA TypeStep ==
    ASSUME TypeOK, TurnInv, CommandInv, [Next]_vars
    PROVE  TypeOK'
BY SessionsTyped, ControlTyped, TargetTyped DEF TypeOK
----------------------------------------------------------------------------
(* The turn and the processes.                                             *)

\* What a session awaits to be closed is then not left alive unnoticed.
LEMMA EndedCloses ==
    ASSUME TypeOK, ProcessInv, NEW S \in SUBSET Runs, Ended(S)
    PROVE  /\ Alive' \subseteq Alive
           /\ \A s \in Alive' : sess'[s].termination # "done"
           /\ \A s \in S \cap Alive' : s \in waiting'
<1> USE DEF Sessions
<1>1. \A s \in Runs : sess'[s].proc = sess[s].proc /\ sess'[s].termination \in {"none", "pending", "done"}
  <2> TAKE s \in Runs
  <2>1. sess'[s] \in SessionRecords
    BY DEF Ended
  <2> QED BY <2>1 DEF Ended, EndsOnly, SessionRecords
<1>2. Alive' \subseteq Alive
  BY <1>1 DEF Alive
<1>3. \A s \in Alive' : sess'[s].termination # "done"
  BY <1>2 DEF Alive, Ended, EndsOnly, ProcessInv
<1>4. \A s \in S \cap Alive' : s \in waiting'
  BY <1>1, <1>3 DEF Ended
<1> QED BY <1>2, <1>3, <1>4

\* The run under way has no session until one is opened for it.
LEMMA FreshStep ==
    ASSUME TypeOK, QueueInv, TurnInv, CommandInv, ProcessInv, [Next]_vars,
           drain' \in {"cleaning", "replacing", "spawning"}, NEW r \in Runs, r = cur'
    PROVE  Untouched(r)'
<1> USE DEF Sessions, Resting
<1>1. ASSUME drain \in {"cleaning", "replacing"}, cur' = cur
      PROVE  Untouched(r)'
  <2>1. Untouched(r) /\ r \notin owned /\ r # session /\ r # using
    BY <1>1 DEF TurnInv
  <2> QED BY <2>1, UntouchedKept
<1>2. ASSUME drain \in {"cleaning", "replacing", "spawning"}, cur' = cur, UNCHANGED <<sess, wire, broker>>
      PROVE  Untouched(r)'
  BY <1>2 DEF TurnInv, Untouched, Quiet
<1>3. CASE TakeNext
  <2>1. r = queue[1] /\ 1 \in DOMAIN queue
    BY <1>3 DEF TakeNext, TypeOK
  <2>2. state[r] = "queued"
    BY <2>1 DEF QueueInv
  <2> QED BY <2>2, UntouchedKept DEF QueueInv
<1>4. CASE \E s \in Runs : Session(s) \/ Broker(s)
  <2>1. Outside
    BY <1>4, OutsideSteps
  <2> QED BY <2>1 DEF Outside, runVars, TurnInv
<1>5. CASE (\E q \in Runs : Run(q) \/ Abort(q)) \/ CloseCalled \/ CloseSettled \/ UNCHANGED vars
  <2>1. UNCHANGED <<cur, sess, wire, broker>> /\ drain' \in {drain, "next"}
    BY <1>5 DEF Run, Abort, CloseCalled, CloseSettled, AbortReaches, vars, runVars, brokerVars
  <2> QED BY <1>2, <2>1
<1>6. CASE Cleaned \/ Replaced
  <2>1. drain \in {"cleaning", "replacing"} /\ cur' = cur
    BY <1>6 DEF Cleaned, Replaced, Finish, Goto, Open, Execute
  <2> QED BY <1>1, <2>1
<1>7. CASE CloseSessions
  BY <1>7 DEF CloseSessions
<1>8. CASE DrainEnds \/ Spawned \/ Started \/ StartFails \/ Abandoned \/ Opened \/ Discarded \/ Released
            \/ Written \/ Completed \/ Finished \/ Retired \/ CommandFails \/ Failed
  BY <1>8 DEF DrainEnds, AfterDrain, Spawned, Started, StartFails, Abandoned, Opened, Discarded, Released, Written,
     Completed, Finished, Retired, CommandFails, Failed, Goto, Finish, Execute
<1> QED BY <1>3, <1>4, <1>5, <1>6, <1>7, <1>8 DEF Next, Executor

LEMMA TurnStep ==
    ASSUME TypeOK, QueueInv, TurnInv, CommandInv, ProcessInv, [Next]_vars
    PROVE  TurnInv'
<1> USE DEF Sessions, Resting
<1>0. TypeOK'
  BY TypeStep
<1> DEFINE Turn ==
        /\ Resting => cur = NoRun /\ using = NoRun
        /\ ~Resting => cur # NoRun
        /\ ~Resting /\ drain # "cleaning" => using # NoRun
        /\ drain = "cleaning" => using = NoRun
        /\ drain \in {"cleaning", "replacing"} => cur \notin owned /\ cur # session /\ cur # using
        /\ drain = "spawning" => using = cur
        /\ drain \in {"spawning", "starting", "opened"} => using \in owned
        /\ drain \in {"abandoning", "releasing", "failing"} => error # "none"
        /\ closer \in {"closing", "closed", "failed"} => drain \in {"none", "ending"}
<1>1. ASSUME Turn'
      PROVE  TurnInv'
  <2>1. drain' \in {"cleaning", "replacing", "spawning"} => cur' \in Runs
    BY <1>0, <1>1 DEF TypeOK
  <2>2. drain' \in {"cleaning", "replacing", "spawning"} => Untouched(cur)'
    BY <2>1, FreshStep DEF Untouched, Quiet
  <2> QED BY <1>1, <2>2 DEF TurnInv
<1> SUFFICES Turn'
  BY <1>1
<1>2. Turn
  BY DEF TurnInv
<1>3. closed <=> closer # "none"
  BY DEF closed
<1>4. ASSUME NEW how, NEW own, NEW new, ~Resting, Finish(how, own, new), UNCHANGED closer
      PROVE  Turn'
  BY <1>2, <1>4 DEF Finish
<1>5. ASSUME NEW step \in {"abandoning", "discarding", "releasing", "writing", "finishing", "retiring", "failing"},
             NEW s, s # NoRun, NEW err, Goto(step, s, err), ~Resting, UNCHANGED closer,
             step \in {"abandoning", "releasing", "failing"} => err # "none"
      PROVE  Turn'
  BY <1>2, <1>5 DEF Goto
<1>6. ASSUME NEW s, s # NoRun, ~Resting, NEW x, Execute(s, x)
      PROVE  Turn'
  BY <1>5, <1>6 DEF Execute, NoWait
<1>7. ASSUME NEW own, ~Resting, Open(own)
      PROVE  Turn'
  BY <1>2, <1>7 DEF Open, Goto
<1>8. CASE (\E r \in Runs : Run(r) \/ Abort(r)) \/ DrainEnds \/ CloseCalled
  <2>1. UNCHANGED <<cur, using, owned, session, error>> /\ drain' \in {drain, "none", "next", "ending"}
        /\ (drain' # drain => Resting) /\ closer' \in {closer, "draining"}
        /\ (closed => drain' \in {drain, "none", "ending"})
    BY <1>8 DEF Run, Abort, DrainEnds, AfterDrain, CloseCalled, closeVars
  <2> QED BY <1>2, <1>3, <2>1
<1>9. CASE TakeNext
  <2>1. cur' \in Runs /\ cur' = queue[1] /\ 1 \in DOMAIN queue
    BY <1>9 DEF TakeNext, TypeOK
  <2>2. cur' \notin owned /\ cur' # session /\ cur' # using
    BY <2>1 DEF QueueInv
  <2>3. drain' = "cleaning" /\ UNCHANGED <<owned, session, using, closer>> /\ using = NoRun /\ closer = "none"
    BY <1>2, <1>9 DEF TakeNext, closed
  <2> QED BY <2>1, <2>2, <2>3, PuttyAssumption
<1>10. CASE Cleaned
  <2>1. ~Resting
    BY <1>10 DEF Cleaned
  <2>2. CASE session # NoRun /\ Goto("replacing", session, "none") /\ session' = NoRun
             /\ owned' = (owned \cap {session}) \cup unclosed /\ unclosed = {} /\ UNCHANGED closer
    BY <1>2, <1>10, <2>1, <2>2 DEF Goto, Cleaned
  <2> QED BY <1>4, <1>6, <1>7, <1>10, <2>1, <2>2 DEF Cleaned, NoWait
<1>11. CASE Replaced
  BY <1>4, <1>7, <1>11 DEF Replaced, NoWait
<1>12. CASE Spawned \/ Started \/ Written
  BY <1>2, <1>12 DEF Spawned, Started, Written, closeVars
<1>13. ~Resting /\ drain # "cleaning" => using # NoRun
  BY <1>2
<1>14. CASE StartFails \/ CommandFails
  BY <1>5, <1>13, <1>14 DEF StartFails, CommandFails
<1>15. CASE Opened \/ Completed \/ Finished
  BY <1>4, <1>5, <1>6, <1>13, <1>15 DEF Opened, Completed, Finished, NoWait
<1>16. CASE Abandoned \/ Discarded \/ Released \/ Retired \/ Failed
  BY <1>4, <1>16 DEF Abandoned, Discarded, Released, Retired, Failed, NoWait
<1>17. CASE CloseSessions \/ CloseSettled
  BY <1>2, <1>17, PuttyAssumption DEF CloseSessions, CloseSettled
<1>18. CASE \E s \in Runs : Session(s) \/ Broker(s)
  <2>1. Outside
    BY <1>18, OutsideSteps
  <2> QED BY <1>2, <2>1 DEF Outside, runVars
<1>19. CASE UNCHANGED vars
  BY <1>2, <1>19 DEF vars, runVars, closeVars
<1> QED BY <1>8, <1>9, <1>10, <1>11, <1>12, <1>14, <1>15, <1>16, <1>17, <1>18, <1>19 DEF Next, Executor
\* One process at a time: the next is spawned when all before it are known to be gone.
LEMMA ProcessStep ==
    ASSUME TypeOK, QueueInv, TurnInv, CommandInv, ProcessInv, [Next]_vars
    PROVE  ProcessInv'
<1> USE DEF Sessions, Resting
<1> DEFINE Calmly == Alive' \subseteq Alive /\ \A s \in Alive' : sess'[s].termination # "done"
<1>1. Alive \subseteq Runs /\ NoRun \notin Runs /\ Alive \subseteq owned
  BY PuttyAssumption DEF Alive, ProcessInv
<1>2. ~Resting /\ drain # "cleaning" => using \in Runs /\ Alive \subseteq {using}
  BY DEF TurnInv, TypeOK, ProcessInv
<1>3. ~Resting => closer \notin {"closing", "closed", "failed"}
  BY DEF TurnInv
<1>4. ASSUME NEW S \in SUBSET Runs, AwaitClosed(S)
      PROVE  Calmly /\ \A s \in S \cap Alive' : s \in waiting'
  BY <1>4, AwaitClosedEnds, EndedCloses
<1>5. ASSUME using \in Runs, AwaitEnd(using)
      PROVE  Calmly /\ (using \in Alive' => using \in waiting')
  BY <1>5, AwaitEndEnds, EndedCloses
<1>6. ASSUME UNCHANGED sess
      PROVE  Calmly /\ Alive' = Alive
  BY <1>6 DEF Alive, ProcessInv
<1>7. ASSUME NEW s \in Runs, NEW x, sess' = [sess EXCEPT ![s] = x], x.proc = sess[s].proc,
             x.termination \in {sess[s].termination, "pending", "none"} \/ sess[s].proc = "none"
      PROVE  Calmly /\ Alive' = Alive
  BY <1>7 DEF Alive, ProcessInv, TypeOK
<1>8. ASSUME NEW s \in Runs, NEW x, sess' = [sess EXCEPT ![s] = x], EndsOnly(sess[s], x)
      PROVE  Calmly /\ Alive' = Alive
  BY <1>7, <1>8 DEF EndsOnly
\* The run under way is answered.
<1>9. ASSUME NEW how, NEW own, NEW new, ~Resting, Finish(how, own, new), UNCHANGED closer,
             Calmly, Alive' \subseteq own
      PROVE  ProcessInv'
  BY <1>3, <1>9 DEF Finish, ProcessInv
\* A session is being closed.
<1>10. ASSUME drain' \in {"replacing", "abandoning", "discarding", "releasing", "finishing", "retiring", "failing"},
              UNCHANGED closer, ~Resting, Calmly, Alive' \subseteq {using'}, Alive' \subseteq owned',
              using' \in Alive' => using' \in waiting'
       PROVE  ProcessInv'
  BY <1>3, <1>10 DEF ProcessInv, Closing
\* A session is used.
<1>11. ASSUME drain' \in {"starting", "opened", "writing", "executing"},
              UNCHANGED closer, ~Resting, Calmly, Alive' \subseteq {using'}, Alive' \subseteq owned'
       PROVE  ProcessInv'
  BY <1>3, <1>11 DEF ProcessInv
\* A session is opened.
<1>12. ASSUME NEW own, ~Resting, Open(own), Alive = {}
       PROVE  ProcessInv'
  <2>1. Alive' = {} /\ drain' = "spawning" /\ UNCHANGED closer
    BY <1>6, <1>12 DEF Open, Goto
  <2> QED BY <1>3, <1>12, <2>1 DEF ProcessInv
<1>13. ASSUME NEW s \in Runs, ~Resting, Alive \subseteq {s}, Execute(s, sess[s])
       PROVE  ProcessInv'
  <2>1. UNCHANGED <<owned, closer>> /\ using' = s
    BY <1>13 DEF Execute, Goto, NoWait
  <2>2. CASE AwaitClosed({s}) /\ drain' = "releasing"
    <3>1. Calmly /\ (s \in Alive' => s \in waiting')
      BY <1>4, <2>2
    <3> QED BY <1>1, <1>10, <1>13, <2>1, <2>2, <3>1
  <2>3. CASE /\ drain' = "writing"
             /\ sess' = [sess EXCEPT ![s] = IF Aborted(cur) THEN Poisoned(CommandBegun(sess[s])) ELSE CommandBegun(sess[s])]
    <3>1. sess[s] \in SessionRecords /\ CommandBegun(sess[s]) \in SessionRecords
      BY CommandBegunTyped DEF TypeOK
    <3>2. CommandBegun(sess[s]).proc = sess[s].proc /\ CommandBegun(sess[s]).termination = sess[s].termination
      BY <3>1 DEF CommandBegun, SessionRecords
    <3>3. EndsOnly(CommandBegun(sess[s]), Poisoned(CommandBegun(sess[s])))
      BY <3>1, PoisonedEnds
    <3>4. Calmly
      BY <1>7, <2>3, <3>2, <3>3 DEF EndsOnly
    <3> QED BY <1>1, <1>11, <1>13, <2>1, <2>3, <3>4
  <2> QED BY <1>13, <2>2, <2>3 DEF Execute, Goto
<1>14. CASE (\E r \in Runs : Run(r)) \/ DrainEnds
  <2>1. UNCHANGED <<sess, session, using, owned, closer, waiting, unclosed>> /\ drain' \in {drain, "none", "next", "ending"}
        /\ (Resting \/ drain' = drain)
    BY <1>14 DEF Run, DrainEnds, AfterDrain, closeVars
  <2> QED BY <1>6, <2>1 DEF ProcessInv, Closing
<1>15. CASE (\E r \in Runs : Abort(r)) \/ CloseCalled
  <2>1. Calmly /\ Alive' = Alive
    <3>1. CASE UNCHANGED sess
      BY <1>6, <3>1
    <3>2. CASE drain \in {"writing", "executing"} /\ sess' = [sess EXCEPT ![using] = Poisoned(@)]
      <4>1. using \in Runs /\ sess[using] \in SessionRecords
        BY <1>2, <3>2 DEF TypeOK
      <4> QED BY <1>8, <3>2, <4>1, PoisonedEnds
    <3> QED BY <1>15, <3>1, <3>2 DEF Abort, CloseCalled, AbortReaches
  <2>2. UNCHANGED <<session, using, owned, drain, waiting, unclosed>> /\ closer' \in {closer, "draining"}
    BY <1>15 DEF Abort, CloseCalled, closeVars
  <2> QED BY <2>1, <2>2 DEF ProcessInv, Closing
<1>16. CASE TakeNext
  <2>1. RetiredSessions \in SUBSET Runs /\ AwaitClosed(RetiredSessions)
    BY <1>16 DEF TakeNext, RetiredSessions, TypeOK
  <2>2. Calmly /\ \A s \in RetiredSessions \cap Alive' : s \in waiting'
    BY <1>4, <2>1
  <2>3. drain' = "cleaning" /\ UNCHANGED <<owned, session, closer>> /\ closer = "none"
    BY <1>16 DEF TakeNext, closed
  <2> QED BY <1>1, <2>2, <2>3 DEF ProcessInv, Closing, RetiredSessions
<1>17. CASE Cleaned
  <2>1. ~Resting /\ waiting = {} /\ \A s \in Alive : s # session => s \in unclosed
    BY <1>1, <1>17 DEF Cleaned, Settled, ProcessInv, Closing
  <2>2. CASE Finish("rejected", (owned \cap {session}) \cup unclosed, session) /\ NoWait /\ UNCHANGED sess
    BY <1>1, <1>6, <1>9, <2>1, <2>2 DEF NoWait
  <2>3. CASE unclosed = {} /\ session = NoRun /\ Open({})
    BY <1>1, <1>12, <2>1, <2>3
  <2>4. CASE /\ unclosed = {} /\ session # NoRun /\ Goto("replacing", session, "none")
             /\ owned' = (owned \cap {session}) \cup unclosed /\ AwaitClosed({session}) /\ UNCHANGED closer
    <3>1. session \in Runs /\ Alive \subseteq {session}
      BY <2>1, <2>4 DEF TypeOK
    <3>2. Calmly /\ (session \in Alive' => session \in waiting')
      BY <1>4, <2>4, <3>1
    <3> QED BY <1>1, <1>10, <2>1, <2>4, <3>1, <3>2 DEF Goto
  <2>5. CASE unclosed = {} /\ session # NoRun /\ Execute(session, sess[session])
    <3>1. session \in Runs /\ Alive \subseteq {session}
      BY <2>1, <2>5 DEF TypeOK
    <3> QED BY <1>13, <2>1, <2>5, <3>1
  <2> QED BY <1>17, <2>2, <2>3, <2>4, <2>5 DEF Cleaned
<1>18. ASSUME drain \in {"replacing", "abandoning", "discarding", "releasing", "finishing", "retiring", "failing"}, Settled
       PROVE  Alive \subseteq unclosed /\ Alive \subseteq {using} /\ ~Resting
  BY <1>2, <1>18 DEF Settled, ProcessInv, Closing
<1>19. CASE Replaced
  <2>1. Alive \subseteq unclosed /\ ~Resting
    BY <1>18, <1>19 DEF Replaced
  <2> QED BY <1>1, <1>6, <1>9, <1>12, <1>19, <2>1 DEF Replaced, NoWait
<1>20. CASE Abandoned \/ Discarded \/ Released \/ Retired \/ Failed
  <2>1. Alive \subseteq unclosed /\ Alive \subseteq {using} /\ ~Resting /\ UNCHANGED <<sess, closer>>
    BY <1>18, <1>20 DEF Abandoned, Discarded, Released, Retired, Failed, NoWait
  <2> QED BY <1>1, <1>6, <1>9, <1>20, <2>1 DEF Abandoned, Discarded, Released, Retired, Failed
<1>21. CASE Spawned
  <2>1. using \in Runs /\ using \in owned /\ sess[using] = NewSession /\ Alive = {}
    BY <1>2, <1>21 DEF Spawned, TurnInv, Untouched, ProcessInv
  <2>2. Alive' = {using} /\ sess'[using].termination = "none"
    BY <1>21, <2>1 DEF Spawned, Alive, TypeOK, NewSession
  <2> QED BY <1>3, <1>21, <2>1, <2>2 DEF Spawned, closeVars, ProcessInv
<1>22. CASE Started
  <2>1. using \in Runs /\ sess[using] \in SessionRecords /\ Alive \subseteq {using}
    BY <1>2, <1>22 DEF Started, TypeOK
  <2>2. sess' = [sess EXCEPT ![using] = [sess[using] EXCEPT !.ready = TRUE, !.reusable = TRUE, !.life = TRUE]]
    BY <1>22, <2>1 DEF Started, TypeOK
  <2>3. Calmly
    BY <1>7, <2>1, <2>2 DEF SessionRecords
  <2> QED BY <1>1, <1>11, <1>22, <2>1, <2>3 DEF Started, closeVars
<1>23. CASE StartFails \/ CommandFails
  <2>1. using \in Runs /\ Alive \subseteq {using} /\ ~Resting /\ UNCHANGED <<closer, owned, using>>
    BY <1>2, <1>23 DEF StartFails, CommandFails, Goto
  <2>2. Calmly /\ (using \in Alive' => using \in waiting')
    BY <1>4, <1>5, <1>23, <2>1 DEF StartFails, CommandFails
  <2>3. drain' \in {"abandoning", "failing"}
    BY <1>23 DEF StartFails, CommandFails, Goto
  <2> QED BY <1>1, <1>10, <2>1, <2>2, <2>3
<1>24. CASE Opened
  <2>1. using \in Runs /\ Alive \subseteq {using} /\ ~Resting
    BY <1>2, <1>24 DEF Opened
  <2>2. CASE Goto("discarding", using, "none") /\ AwaitClosed({using}) /\ UNCHANGED <<owned, closer>>
    <3>1. Calmly /\ (using \in Alive' => using \in waiting')
      BY <1>4, <2>1, <2>2
    <3> QED BY <1>1, <1>10, <2>1, <2>2, <3>1 DEF Goto
  <2> QED BY <1>13, <1>24, <2>1, <2>2 DEF Opened
<1>25. CASE Written
  <2>1. using \in Runs /\ Alive \subseteq {using} /\ ~Resting /\ UNCHANGED <<closer, owned, using>>
    BY <1>2, <1>25 DEF Written, closeVars
  <2>2. Calmly
    BY <1>6, <1>8, <1>25, <2>1, PoisonedEnds DEF Written, TypeOK
  <2> QED BY <1>1, <1>11, <1>25, <2>1, <2>2 DEF Written
<1>26. CASE Completed
  <2>1. using \in Runs /\ Alive \subseteq {using} /\ ~Resting
    BY <1>2, <1>26 DEF Completed
  <2>2. ASSUME AwaitClosed({using}), UNCHANGED <<owned, closer>>, using' = using, drain' \in {"finishing", "retiring"}
        PROVE  ProcessInv'
    <3>1. Calmly /\ (using \in Alive' => using \in waiting')
      BY <1>4, <2>1, <2>2
    <3> QED BY <1>1, <1>10, <2>1, <2>2, <3>1
  <2>3. CASE sess' = [sess EXCEPT ![using] = IdleScheduled(sess[using])] /\ Finish("completed", owned, session) /\ NoWait
    <3>1. Calmly
      <4>1. sess[using] \in SessionRecords
        BY <2>1 DEF TypeOK
      <4>2. /\ IdleScheduled(sess[using]).proc = sess[using].proc
            /\ IdleScheduled(sess[using]).termination = sess[using].termination
        BY <4>1 DEF IdleScheduled, SessionRecords
      <4> QED BY <1>7, <2>1, <2>3, <4>2
    <3> QED BY <1>1, <1>9, <2>1, <2>3, <3>1 DEF NoWait
  <2> QED BY <1>26, <2>2, <2>3 DEF Completed, Goto
<1>27. CASE Finished
  <2>1. Alive \subseteq unclosed /\ using \in Runs /\ Alive \subseteq {using} /\ ~Resting
    BY <1>2, <1>18, <1>27 DEF Finished
  <2>2. CASE unclosed = {} /\ Finish("completed", owned \ {using}, NoRun) /\ NoWait /\ UNCHANGED sess
    BY <1>1, <1>6, <1>9, <2>1, <2>2 DEF NoWait
  <2>3. CASE Goto("failing", using, "rejected") /\ AwaitEnd(using) /\ UNCHANGED <<closer, owned>>
    <3>1. Calmly /\ (using \in Alive' => using \in waiting')
      BY <1>5, <2>1, <2>3
    <3> QED BY <1>1, <1>10, <2>1, <2>3, <3>1 DEF Goto
  <2> QED BY <1>27, <2>2, <2>3 DEF Finished
<1>28. CASE CloseSessions
  <2>1. Calmly /\ \A s \in owned \cap Alive' : s \in waiting'
    BY <1>4, <1>28 DEF CloseSessions, TypeOK
  <2> QED BY <1>1, <1>28, <2>1 DEF CloseSessions, ProcessInv, Closing
<1>29. CASE CloseSettled
  <2>1. Alive \subseteq unclosed /\ drain \in {"none", "ending"}
    BY <1>1, <1>29 DEF CloseSettled, Settled, ProcessInv, Closing, TurnInv
  <2> QED BY <1>6, <1>29, <2>1 DEF CloseSettled, ProcessInv
<1>30. CASE \E s \in Runs : Session(s) \/ Broker(s)
  <2>1. Outside
    BY <1>30, OutsideSteps
  <2> QED BY <2>1 DEF Outside, runVars, ProcessInv, Closing
<1>31. CASE UNCHANGED vars
  BY <1>6, <1>31 DEF vars, runVars, closeVars, ProcessInv, Closing
<1> QED BY <1>14, <1>15, <1>16, <1>17, <1>19, <1>20, <1>21, <1>22, <1>23, <1>24, <1>25, <1>26, <1>27, <1>28,
           <1>29, <1>30, <1>31 DEF Next, Executor
----------------------------------------------------------------------------
(* Commands.                                                               *)

\* x may be a session that executes for the run under way: it listens.
Listens(x) == HasActiveCommand(x) => x.parser = "idle" /\ ~x.idle

LEMMA EndsOnlyListens ==
    ASSUME NEW x \in SessionRecords, NEW y, EndsOnly(x, y), Listens(x)
    PROVE  Listens(y) /\ (HasActiveCommand(y) => HasActiveCommand(x))
BY DEF EndsOnly, Listens, HasActiveCommand

LEMMA CollectedEnds ==
    ASSUME NEW x \in SessionRecords, Listens(x), Marked(x)
    PROVE  /\ ~HasActiveCommand(ParserFailed(x)) /\ Marked(ParserFailed(x)) /\ ParserFailed(x) \in SessionRecords
           /\ ParserFailed(x).parser = "fatal" /\ ParserFailed(x).command \in {x.command, "rejected"}
           /\ ~HasActiveCommand(Collected(x)) /\ Marked(Collected(x)) /\ Collected(x) \in SessionRecords
           /\ Collected(x).parser = "fatal" /\ ~Collected(x).reusable /\ Collected(x).proc = "dead"
           /\ Collected(x).command \in {x.command, "rejected"}
           /\ ~HasActiveCommand(x) => Collected(x).command = x.command
<1>0. ParserFailed(x) \in SessionRecords
  BY CollectedTyped
<1>1. /\ ~HasActiveCommand(ParserFailed(x)) /\ ParserFailed(x).parser = "fatal"
      /\ ParserFailed(x).command \in {x.command, "rejected"} /\ ParserFailed(x).fatal = x.fatal
      /\ ParserFailed(x).reusable = x.reusable
      /\ ~HasActiveCommand(x) => ParserFailed(x).command = x.command
  <2>1. CASE x.parser = "fatal"
    BY <2>1 DEF ParserFailed, Listens
  <2>2. CASE x.parser # "fatal" /\ HasActiveCommand(x)
    BY <2>2 DEF ParserFailed, HasActiveCommand, SessionRecords
  <2>3. CASE x.parser # "fatal" /\ ~HasActiveCommand(x)
    BY <2>3 DEF ParserFailed, HasActiveCommand, SessionRecords
  <2> QED BY <2>1, <2>2, <2>3
<1>2. Marked(ParserFailed(x))
  BY <1>1 DEF Marked, Down
<1> HIDE DEF ParserFailed
<1>3. Collected(x) = [ParserFailed(x) EXCEPT !.idle = FALSE, !.life = FALSE, !.proc = "dead", !.aged = FALSE,
                                             !.ready = FALSE, !.reusable = FALSE]
  BY <1>0 DEF Collected, TimersCleared, SessionRecords
<1>4. /\ Collected(x).parser = "fatal" /\ ~Collected(x).reusable /\ Collected(x).proc = "dead"
      /\ Collected(x).command = ParserFailed(x).command /\ Collected(x).fatal = ParserFailed(x).fatal
  BY <1>0, <1>1, <1>3 DEF SessionRecords
<1>5. Collected(x) \in SessionRecords
  BY CollectedTyped
<1> QED BY <1>0, <1>1, <1>2, <1>4, <1>5 DEF HasActiveCommand, Marked, Down

\* What a step of a session makes of a command.
LEMMA SessionCommand ==
    ASSUME TypeOK, CommandInv, NEW s \in Runs, Session(s)
    PROVE  /\ \A t \in Runs : t # s => sess'[t] = sess[t]
           /\ Listens(sess'[s]) /\ Marked(sess'[s]) /\ (HasActiveCommand(sess'[s]) => HasActiveCommand(sess[s]))
<1> USE DEF Sessions
<1>0. sess \in [Runs -> SessionRecords] /\ sess[s] \in SessionRecords /\ Listens(sess[s]) /\ Marked(sess[s])
  BY DEF TypeOK, CommandInv, Listens
<1>1. CASE ReadyArrives(s)
  BY <1>0, <1>1 DEF ReadyArrives, Listens, Marked, Down, HasActiveCommand, SessionRecords
<1>2. CASE Ages(s)
  BY <1>0, <1>2 DEF Ages, Becomes, Listens, Marked, Down, HasActiveCommand, SessionRecords
<1>3. CASE IdleTimeout(s)
  BY <1>0, <1>3, ExpiredEnds, EndsOnlyListens DEF IdleTimeout, Becomes, Marked
<1>4. CASE LifetimeTimeout(s)
  <2> DEFINE x == [sess[s] EXCEPT !.retired = TRUE, !.life = FALSE]
  <2>1. x \in SessionRecords /\ Listens(x) /\ Marked(x) /\ (HasActiveCommand(x) => HasActiveCommand(sess[s]))
    BY <1>0 DEF Listens, Marked, Down, HasActiveCommand, SessionRecords
  <2>2. CASE Becomes(s, x)
    BY <1>0, <2>1, <2>2 DEF Becomes
  <2>3. CASE Becomes(s, Terminated(ParserFailed([x EXCEPT !.reusable = FALSE])))
    BY <1>0, <2>1, <2>3, ExpiredEnds, EndsOnlyListens DEF Becomes, Marked
  <2> QED BY <1>4, <2>2, <2>3 DEF LifetimeTimeout
<1>5. CASE TerminationEnds(s)
  <2>1. CASE Becomes(s, [Collected(sess[s]) EXCEPT !.termination = "done"])
    <3>1. Collected(sess[s]) \in SessionRecords /\ ~HasActiveCommand(Collected(sess[s])) /\ Marked(Collected(sess[s]))
      BY <1>0, CollectedEnds
    <3> HIDE DEF Collected
    <3> QED BY <1>0, <2>1, <3>1 DEF Becomes, Listens, Marked, Down, HasActiveCommand, SessionRecords
  <2>2. CASE Becomes(s, [sess[s] EXCEPT !.termination = "none"])
    BY <1>0, <2>2 DEF Becomes, Listens, Marked, Down, HasActiveCommand, SessionRecords
  <2> QED BY <1>5, <2>1, <2>2 DEF TerminationEnds
<1>6. CASE ProcessEnds(s)
  <2>1. CASE Becomes(s, [ParserFailed(sess[s]) EXCEPT !.proc = "ending"])
    <3>1. ParserFailed(sess[s]) \in SessionRecords /\ ~HasActiveCommand(ParserFailed(sess[s])) /\ Marked(ParserFailed(sess[s]))
      BY <1>0, CollectedEnds
    <3> HIDE DEF ParserFailed
    <3> QED BY <1>0, <2>1, <3>1 DEF Becomes, Listens, Marked, Down, HasActiveCommand, SessionRecords
  <2>2. CASE Becomes(s, Collected(sess[s]))
    BY <1>0, <2>2, CollectedEnds DEF Becomes, Listens
  <2> QED BY <1>6, <2>1, <2>2 DEF ProcessEnds
<1>7. CASE Accept(s)
  <2>1. CASE Becomes(s, Poisoned(sess[s]))
    BY <1>0, <2>1, PoisonedEnds, EndsOnlyListens DEF Becomes, Marked
  <2>2. CASE /\ HasActiveCommand(sess[s])
             /\ \/ Becomes(s, [sess[s] EXCEPT !.command = "began"])
                \/ Becomes(s, [sess[s] EXCEPT !.command = "completed"])
                \/ Becomes(s, [sess[s] EXCEPT !.sink = TRUE])
    BY <1>0, <2>2 DEF Becomes, Listens, Marked, Down, HasActiveCommand, SessionRecords
  <2> QED BY <1>7, <2>1, <2>2 DEF Accept
<1>8. CASE SinkSettles(s)
  <2>1. CASE Becomes(s, [sess[s] EXCEPT !.sink = FALSE])
    BY <1>0, <2>1 DEF Becomes, Listens, Marked, Down, HasActiveCommand, SessionRecords
  <2>2. CASE Becomes(s, [Poisoned(sess[s]) EXCEPT !.command = "undelivered"])
    <3>1. Poisoned(sess[s]) \in SessionRecords /\ Marked(Poisoned(sess[s]))
      BY <1>0, PoisonedEnds DEF EndsOnly, Marked
    <3> HIDE DEF Poisoned
    <3> QED BY <1>0, <2>2, <3>1 DEF Becomes, Listens, Marked, Down, HasActiveCommand, SessionRecords
  <2> QED BY <1>8, <2>1, <2>2 DEF SinkSettles
<1> QED BY <1>1, <1>2, <1>3, <1>4, <1>5, <1>6, <1>7, <1>8 DEF Session

LEMMA BrokerStep ==
    ASSUME TypeOK, TurnInv, CommandInv, [Next]_vars, NEW s \in Runs, broker'[s].run = NoRun
    PROVE  broker'[s].left = 0
<1> USE DEF Sessions
<1>0. broker \in [Runs -> [run : Runs \cup {NoRun}, left : Nat]] /\ (broker[s].run = NoRun => broker[s].left = 0)
  BY DEF TypeOK, CommandInv
<1>1. CASE UNCHANGED broker
  BY <1>0, <1>1
<1>2. CASE \E t \in Runs : broker' = [broker EXCEPT ![t] = [run |-> NoRun, left |-> 0]]
  BY <1>0, <1>2
<1>3. CASE \E t \in Runs : Session(t)
  BY <1>1, <1>2, <1>3 DEF Session, ReadyArrives, Ages, IdleTimeout, LifetimeTimeout, TerminationEnds, ProcessEnds,
     Accept, SinkSettles, SessionOnly, Disconnected, brokerVars
<1>4. CASE \E t \in Runs : BrokerOutputs(t)
  <2>1. PICK t \in Runs : broker[t].left > 0 /\ broker' = [broker EXCEPT ![t].left = @ - 1]
    BY <1>4 DEF BrokerOutputs
  <2>2. broker[t].run # NoRun
    BY <2>1 DEF CommandInv
  <2> QED BY <1>0, <2>1, <2>2
<1>5. CASE \E t \in Runs : Broker(t) /\ ~BrokerOutputs(t)
  BY <1>1, <1>2, <1>5 DEF Broker, BrokerEnds, BrokerFatal, BrokerRepeats
<1>6. CASE Written
  <2>1. cur \in Runs /\ cur # NoRun
    BY <1>6 DEF Written, TurnInv, Resting, TypeOK
  <2>2. UNCHANGED broker \/ broker' = [broker EXCEPT ![using] = [run |-> cur, left |-> MaxOutput]]
    BY <1>6 DEF Written
  <2> QED BY <1>0, <2>1, <2>2
<1>7. CASE (\E r \in Runs : Run(r) \/ Abort(r)) \/ CloseCalled \/ UNCHANGED vars
  BY <1>1, <1>7 DEF Run, Abort, CloseCalled, vars, brokerVars
<1>8. CASE Executor /\ ~Written
  BY <1>1, <1>8 DEF Executor, TakeNext, DrainEnds, Cleaned, Replaced, Spawned, Started, StartFails, Abandoned,
     Opened, Discarded, Released, Completed, Finished, Retired, CommandFails, Failed, CloseSessions, CloseSettled,
     Execute, Open, Goto, Finish, brokerVars
<1> QED BY <1>3, <1>4, <1>5, <1>6, <1>7, <1>8 DEF Next

LEMMA CommandStep ==
    ASSUME TypeOK, TurnInv, CommandInv, [Next]_vars
    PROVE  CommandInv'
<1> USE DEF Sessions
<1> DEFINE Acts == \A s \in Runs : HasActiveCommand(sess[s]) => s = using /\ drain \in {"writing", "executing"}
<1>1. sess \in [Runs -> SessionRecords] /\ \A s \in Runs : sess[s] \in SessionRecords
  BY DEF TypeOK
<1>2. Acts /\ \A s \in Runs : Listens(sess[s]) /\ Marked(sess[s])
  BY DEF CommandInv, Listens
<1>3. ASSUME \A s \in Runs : HasActiveCommand(sess'[s]) => s = using' /\ drain' \in {"writing", "executing"},
             \A s \in Runs : Listens(sess'[s]) /\ Marked(sess'[s])
      PROVE  CommandInv'
  BY <1>3, BrokerStep DEF CommandInv, Listens
\* Nothing becomes active, and what is active stays in its place.
<1>4. ASSUME \A s \in Runs : Listens(sess'[s]) /\ Marked(sess'[s]) /\ (HasActiveCommand(sess'[s]) => HasActiveCommand(sess[s])),
             \/ UNCHANGED <<using, drain>>
             \/ drain \notin {"writing", "executing"}
             \/ ~HasActiveCommand(sess[using])
             \/ UNCHANGED using /\ drain' = "executing"
      PROVE  CommandInv'
  BY <1>2, <1>3, <1>4
<1>5. UNCHANGED sess => \A s \in Runs : Listens(sess'[s]) /\ Marked(sess'[s]) /\ (HasActiveCommand(sess'[s]) => HasActiveCommand(sess[s]))
  BY <1>2
<1>6. ASSUME NEW S \in SUBSET Runs, AwaitClosed(S)
      PROVE  \A s \in Runs : Listens(sess'[s]) /\ Marked(sess'[s]) /\ (HasActiveCommand(sess'[s]) => HasActiveCommand(sess[s]))
  BY <1>1, <1>2, <1>6, AwaitClosedEnds, EndsOnlyListens DEF Ended, Marked
<1>7. ASSUME using \in Runs, AwaitEnd(using)
      PROVE  \A s \in Runs : Listens(sess'[s]) /\ Marked(sess'[s]) /\ (HasActiveCommand(sess'[s]) => HasActiveCommand(sess[s]))
  BY <1>1, <1>2, <1>7, AwaitEndEnds, EndsOnlyListens DEF Ended, Marked
<1>8. ASSUME NEW s \in Runs, NEW x, sess' = [sess EXCEPT ![s] = x], Listens(x), Marked(x),
             HasActiveCommand(x) => HasActiveCommand(sess[s])
      PROVE  \A t \in Runs : Listens(sess'[t]) /\ Marked(sess'[t]) /\ (HasActiveCommand(sess'[t]) => HasActiveCommand(sess[t]))
  BY <1>1, <1>2, <1>8
<1>9. ASSUME NEW s \in Runs, sess' = [sess EXCEPT ![s] = Poisoned(@)]
      PROVE  \A t \in Runs : Listens(sess'[t]) /\ Marked(sess'[t]) /\ (HasActiveCommand(sess'[t]) => HasActiveCommand(sess[t]))
  BY <1>1, <1>2, <1>8, <1>9, PoisonedEnds, EndsOnlyListens DEF Marked
<1>10. drain \in {"writing", "executing"} => using \in Runs
  BY DEF TurnInv, TypeOK, Resting
<1>11. CASE (\E r \in Runs : Run(r)) \/ DrainEnds \/ Replaced \/ Abandoned \/ Discarded \/ Released \/ Retired
             \/ Failed \/ CloseSettled \/ UNCHANGED vars
  <2>1. UNCHANGED sess /\ (UNCHANGED <<using, drain>> \/ drain \notin {"writing", "executing"})
    BY <1>11 DEF Run, DrainEnds, Replaced, Abandoned, Discarded, Released, Retired, Failed, CloseSettled, vars, runVars, Open
  <2> QED BY <1>4, <1>5, <2>1
<1>12. CASE (\E r \in Runs : Abort(r)) \/ CloseCalled
  <2>1. UNCHANGED <<using, drain>>
    BY <1>12 DEF Abort, CloseCalled
  <2>2. UNCHANGED sess \/ (using \in Runs /\ sess' = [sess EXCEPT ![using] = Poisoned(@)])
    BY <1>10, <1>12 DEF Abort, CloseCalled, AbortReaches
  <2> QED BY <1>4, <1>5, <1>9, <2>1, <2>2
<1>13. CASE TakeNext \/ CloseSessions
  <2>1. RetiredSessions \in SUBSET Runs /\ owned \in SUBSET Runs
    BY DEF RetiredSessions, TypeOK
  <2>2. drain \notin {"writing", "executing"}
    BY <1>13 DEF TakeNext, CloseSessions
  <2> QED BY <1>4, <1>6, <1>13, <2>1, <2>2 DEF TakeNext, CloseSessions
<1>14. ASSUME NEW s \in Runs, Execute(s, sess[s]), drain \notin {"writing", "executing"}
       PROVE  CommandInv'
  <2>1. CASE AwaitClosed({s})
    BY <1>4, <1>6, <1>14, <2>1
  <2>2. CASE /\ sess[s].parser = "idle" /\ using' = s /\ drain' = "writing"
             /\ sess' = [sess EXCEPT ![s] = IF Aborted(cur) THEN Poisoned(CommandBegun(sess[s])) ELSE CommandBegun(sess[s])]
    <3>1. CommandBegun(sess[s]) \in SessionRecords /\ Listens(CommandBegun(sess[s])) /\ Marked(CommandBegun(sess[s]))
      <4>1. /\ CommandBegun(sess[s]).parser = "idle" /\ ~CommandBegun(sess[s]).idle
            /\ CommandBegun(sess[s]).fatal = sess[s].fatal
        BY <1>1, <2>2 DEF CommandBegun, SessionRecords
      <4>2. ~sess[s].fatal
        BY <1>2, <2>2 DEF Marked, Down
      <4> QED BY <1>1, <4>1, <4>2, CommandBegunTyped DEF Listens, Marked, Down
    <3>2. Listens(Poisoned(CommandBegun(sess[s]))) /\ Marked(Poisoned(CommandBegun(sess[s])))
      BY <3>1, PoisonedEnds, EndsOnlyListens DEF Marked
    <3>3. \A t \in Runs : Listens(sess'[t]) /\ Marked(sess'[t]) /\ (t # s => sess'[t] = sess[t])
      BY <1>1, <1>2, <2>2, <3>1, <3>2
    <3> QED BY <1>2, <1>3, <1>14, <2>2, <3>3
  <2> QED BY <1>14, <2>1, <2>2 DEF Execute, Goto
<1>15. CASE Cleaned
  <2>1. session # NoRun => session \in Runs
    BY DEF TypeOK
  <2>2. drain \notin {"writing", "executing"}
    BY <1>15 DEF Cleaned
  <2> QED BY <1>4, <1>5, <1>6, <1>14, <1>15, <2>1, <2>2 DEF Cleaned, Open
<1>16. CASE Spawned \/ Started
  <2>1. using \in Runs /\ drain \notin {"writing", "executing"}
    BY <1>16 DEF Spawned, Started, TurnInv, TypeOK, Resting
  <2>2. CASE Spawned
    <3>1. \A s \in Runs : Listens(sess'[s]) /\ Marked(sess'[s]) /\ (HasActiveCommand(sess'[s]) => HasActiveCommand(sess[s]))
      BY <1>1, <1>2, <2>1, <2>2 DEF Spawned, Listens, Marked, Down, HasActiveCommand, SessionRecords
    <3> QED BY <1>4, <2>1, <3>1
  <2>3. CASE Started
    <3>1. \A s \in Runs : Listens(sess'[s]) /\ Marked(sess'[s]) /\ (HasActiveCommand(sess'[s]) => HasActiveCommand(sess[s]))
      BY <1>1, <1>2, <2>1, <2>3 DEF Started, Listens, Marked, Down, HasActiveCommand, SessionRecords
    <3> QED BY <1>4, <2>1, <3>1
  <2> QED BY <1>16, <2>2, <2>3
<1>17. CASE StartFails
  <2>1. using \in Runs /\ drain \notin {"writing", "executing"}
    BY <1>17 DEF StartFails, TurnInv, TypeOK, Resting
  <2> QED BY <1>4, <1>6, <1>17, <2>1 DEF StartFails
<1>18. CASE Opened
  <2>1. using \in Runs /\ drain \notin {"writing", "executing"}
    BY <1>18 DEF Opened, TurnInv, TypeOK, Resting
  <2> QED BY <1>4, <1>6, <1>14, <1>18, <2>1 DEF Opened
<1>19. CASE Written
  <2>1. using \in Runs /\ UNCHANGED using /\ (drain' = "executing" \/ UNCHANGED drain)
    BY <1>10, <1>19 DEF Written
  <2> QED BY <1>4, <1>5, <1>9, <1>19, <2>1 DEF Written
<1>20. CASE Completed
  <2>1. using \in Runs /\ ~HasActiveCommand(sess[using])
    BY <1>10, <1>20 DEF Completed, HasActiveCommand
  <2>2. CASE sess' = [sess EXCEPT ![using] = IdleScheduled(sess[using])]
    <3>1. /\ Listens(IdleScheduled(sess[using])) /\ Marked(IdleScheduled(sess[using]))
          /\ ~HasActiveCommand(IdleScheduled(sess[using]))
      BY <1>1, <1>2, <2>1 DEF IdleScheduled, Listens, Marked, Down, HasActiveCommand, SessionRecords
    <3> QED BY <1>4, <1>8, <2>1, <2>2, <3>1
  <2> QED BY <1>4, <1>6, <1>20, <2>1, <2>2 DEF Completed
<1>21. CASE Finished
  <2>1. using \in Runs /\ drain \notin {"writing", "executing"}
    BY <1>21 DEF Finished, TurnInv, TypeOK, Resting
  <2> QED BY <1>4, <1>5, <1>7, <1>21, <2>1 DEF Finished
<1>22. CASE CommandFails
  <2>1. using \in Runs /\ ~HasActiveCommand(sess[using])
    BY <1>10, <1>22 DEF CommandFails, HasActiveCommand
  <2> QED BY <1>4, <1>7, <1>22, <2>1 DEF CommandFails
<1>23. ASSUME NEW s \in Runs, Session(s)
       PROVE  CommandInv'
  <2>1. UNCHANGED <<using, drain>>
    BY <1>23, OutsideFrame DEF runVars
  <2> QED BY <1>2, <1>4, <1>23, <2>1, SessionCommand
<1>24. ASSUME NEW s \in Runs, Broker(s)
       PROVE  CommandInv'
  <2>1. UNCHANGED <<using, drain, sess>>
    BY <1>24 DEF Broker, BrokerOutputs, BrokerEnds, BrokerFatal, BrokerRepeats, BrokerSends, runVars
  <2> QED BY <1>4, <1>5, <2>1
<1> QED BY <1>11, <1>12, <1>13, <1>15, <1>16, <1>17, <1>18, <1>19, <1>20, <1>21, <1>22, <1>23, <1>24 DEF Next, Executor
----------------------------------------------------------------------------
(* One process.                                                            *)

SafeInv == TypeOK /\ QueueInv /\ TurnInv /\ ProcessInv /\ CommandInv

LEMMA SafeInit == Init => SafeInv
<1> SUFFICES ASSUME Init PROVE SafeInv
  OBVIOUS
<1> USE PuttyAssumption DEF Init, Sessions
<1>1. NewSession \in SessionRecords /\ NewSession.proc = "none" /\ ~HasActiveCommand(NewSession) /\ Marked(NewSession)
  BY DEF NewSession, SessionRecords, HasActiveCommand, Marked, Down
<1>2. TypeOK
  BY <1>1 DEF TypeOK
<1>3. QueueInv
  BY DEF QueueInv, Untouched, Quiet
<1>4. TurnInv
  BY DEF TurnInv, Resting
<1>5. ProcessInv
  <2>1. Alive = {}
    BY <1>1 DEF Alive
  <2> QED BY <2>1 DEF ProcessInv, Resting
<1>6. CommandInv
  BY <1>1 DEF CommandInv
<1> QED BY <1>2, <1>3, <1>4, <1>5, <1>6 DEF SafeInv

LEMMA SafeStep == SafeInv /\ [Next]_vars => SafeInv'
BY TypeStep, QueueStep, TurnStep, ProcessStep, CommandStep DEF SafeInv

LEMMA SafeHolds == Spec => []SafeInv
BY SafeInit, SafeStep, PTL DEF Spec

LEMMA SafeGivesOne == SafeInv => OneProcess
<1> SUFFICES ASSUME SafeInv PROVE OneProcess
  OBVIOUS
<1>1. Alive \subseteq owned /\ (closer = "closed" => Alive = {}) /\ \A s, t \in Alive : s = t
  BY DEF SafeInv, ProcessInv
<1>2. Cardinality(Alive) <= 1
  <2>1. CASE Alive = {}
    BY <2>1, FS_EmptySet
  <2>2. CASE Alive # {}
    <3>1. PICK s \in Alive : Alive = {s}
      BY <1>1, <2>2
    <3>2. Cardinality({s}) = 1
      BY FS_Singleton, Zenon
    <3> QED BY <3>1, <3>2
  <2> QED BY <2>1, <2>2
<1> QED BY <1>1, <1>2 DEF OneProcess

\* However runs are aborted, sessions fail, age and are replaced, and close() is called,
\* there is at most one plink process, the executor owns it, and none is left once close()
\* has resolved (#ownedSessions and #closeOwnedSession of putty-shared-executor.ts).
THEOREM OneProcessAtATime == Spec => []OneProcess
BY SafeHolds, SafeGivesOne, PTL
----------------------------------------------------------------------------
(* Results.                                                                *)

LEMMA FinishedGrows ==
    ASSUME [Next]_vars
    PROVE  finished \subseteq finished'
<1>1. CASE \E s \in Sessions : Session(s)
  BY <1>1 DEF Session, ReadyArrives, Ages, IdleTimeout, LifetimeTimeout, TerminationEnds, ProcessEnds,
     Accept, SinkSettles, SessionOnly, brokerVars
<1>2. CASE \E s \in Sessions : Broker(s)
  BY <1>2 DEF Broker, BrokerOutputs, BrokerEnds, BrokerFatal, BrokerRepeats
<1>3. CASE (\E r \in Runs : Run(r) \/ Abort(r)) \/ CloseCalled \/ UNCHANGED vars
  BY <1>3 DEF Run, Abort, CloseCalled, vars, brokerVars
<1>4. CASE Executor
  BY <1>4 DEF Executor, TakeNext, DrainEnds, Cleaned, Replaced, Spawned, Started, StartFails, Abandoned,
     Opened, Discarded, Released, Written, Completed, Finished, Retired, CommandFails, Failed, CloseSessions,
     CloseSettled, Execute, Open, Goto, Finish, brokerVars
<1> QED BY <1>1, <1>2, <1>3, <1>4 DEF Next

\* What a step does to the frames on their way: they are sent, read, or lost with the process.
LEMMA WireStep ==
    ASSUME TypeOK, TurnInv, [Next]_vars
    PROVE  \/ UNCHANGED wire
           \/ \E s \in Runs : wire' = [wire EXCEPT ![s] = <<>>]
           \/ \E s \in Runs : wire[s] # <<>> /\ wire' = [wire EXCEPT ![s] = Tail(@)]
           \/ \E s \in Runs, f \in Frames :
                wire' = [wire EXCEPT ![s] = Append(@, f)] /\ (f.kind = "END" => f.run \in finished')
<1> USE DEF Sessions
<1>1. CASE \E s \in Runs : Session(s)
  BY <1>1 DEF Session, ReadyArrives, Ages, IdleTimeout, LifetimeTimeout, TerminationEnds, ProcessEnds,
     Accept, SinkSettles, SessionOnly, Disconnected, brokerVars
<1>2. ASSUME NEW s \in Runs, Broker(s)
      PROVE  \E f \in Frames : wire' = [wire EXCEPT ![s] = Append(@, f)] /\ (f.kind = "END" => f.run \in finished')
  <2>0. broker[s].run \in Runs \cup {NoRun} /\ finished \subseteq Runs
    BY DEF TypeOK
  <2>1. CASE BrokerOutputs(s)
    <3> DEFINE f == [run |-> broker[s].run, kind |-> "OUT"]
    <3>1. f \in Frames /\ f.kind # "END" /\ wire' = [wire EXCEPT ![s] = Append(@, f)]
      BY <2>0, <2>1 DEF BrokerOutputs, BrokerSends, Frames
    <3> QED BY <3>1
  <2>2. CASE BrokerEnds(s)
    <3> DEFINE f == [run |-> broker[s].run, kind |-> "END"]
    <3>1. f \in Frames /\ f.run \in finished' /\ wire' = [wire EXCEPT ![s] = Append(@, f)]
      BY <2>0, <2>2 DEF BrokerEnds, BrokerSends, Frames
    <3> QED BY <3>1
  <2>3. CASE BrokerFatal(s)
    <3> DEFINE f == [run |-> NoRun, kind |-> "FATAL"]
    <3>1. f \in Frames /\ f.kind # "END" /\ wire' = [wire EXCEPT ![s] = Append(@, f)]
      BY <2>3 DEF BrokerFatal, BrokerSends, Frames
    <3> QED BY <3>1
  <2>4. ASSUME NEW r \in Runs, NEW kind \in {"OUT", "END"}, BrokerRepeats(s, r, kind)
        PROVE  \E f \in Frames : wire' = [wire EXCEPT ![s] = Append(@, f)] /\ (f.kind = "END" => f.run \in finished')
    <3> DEFINE f == [run |-> r, kind |-> kind]
    <3>1. f \in Frames /\ f.run \in finished' /\ wire' = [wire EXCEPT ![s] = Append(@, f)]
      BY <2>4 DEF BrokerRepeats, BrokerSends, Frames
    <3> QED BY <3>1
  <2> QED BY <1>2, <2>1, <2>2, <2>3, <2>4 DEF Broker
<1>3. CASE Written
  <2>1. using \in Runs /\ cur \in Runs
    BY <1>3 DEF Written, TurnInv, Resting, TypeOK
  <2> DEFINE f == [run |-> cur, kind |-> "BEGIN"]
  <2>2. f \in Frames /\ f.kind # "END"
    BY <2>1 DEF Frames
  <2> QED BY <1>3, <2>1, <2>2 DEF Written
<1>4. CASE (\E r \in Runs : Run(r) \/ Abort(r)) \/ CloseCalled \/ UNCHANGED vars
  BY <1>4 DEF Run, Abort, CloseCalled, vars, brokerVars
<1>5. CASE Executor /\ ~Written
  BY <1>5 DEF Executor, TakeNext, DrainEnds, Cleaned, Replaced, Spawned, Started, StartFails, Abandoned,
     Opened, Discarded, Released, Completed, Finished, Retired, CommandFails, Failed, CloseSessions,
     CloseSettled, Execute, Open, Goto, Finish, brokerVars
<1> QED BY <1>1, <1>2, <1>3, <1>4, <1>5 DEF Next

EndFrames == \A s \in Runs : \A i \in DOMAIN wire[s] : wire[s][i].kind = "END" => wire[s][i].run \in finished

LEMMA EndFramesStep ==
    ASSUME TypeOK, TurnInv, EndFrames, [Next]_vars
    PROVE  EndFrames'
<1>0. wire \in [Runs -> Seq(Frames)] /\ finished \subseteq finished'
  BY FinishedGrows DEF TypeOK
<1> SUFFICES ASSUME NEW s \in Runs, NEW i \in DOMAIN wire'[s], wire'[s][i].kind = "END"
             PROVE  wire'[s][i].run \in finished'
  BY DEF EndFrames
<1>1. CASE wire'[s] = wire[s]
  BY <1>0, <1>1 DEF EndFrames
<1>2. CASE wire'[s] = <<>>
  BY <1>2
<1>3. CASE wire[s] # <<>> /\ wire'[s] = Tail(wire[s])
  <2>1. i + 1 \in DOMAIN wire[s] /\ wire'[s][i] = wire[s][i + 1]
    BY <1>0, <1>3
  <2> QED BY <1>0, <2>1 DEF EndFrames
<1>4. ASSUME NEW f \in Frames, wire'[s] = Append(wire[s], f), f.kind = "END" => f.run \in finished'
      PROVE  wire'[s][i].run \in finished'
  <2>1. (i \in DOMAIN wire[s] /\ wire'[s][i] = wire[s][i]) \/ wire'[s][i] = f
    BY <1>0, <1>4
  <2> QED BY <1>0, <1>4, <2>1 DEF EndFrames
<1> QED BY <1>0, <1>1, <1>2, <1>3, <1>4, WireStep
\* A command completes with an END of the run under way.
LEMMA SessionCompletes ==
    ASSUME TypeOK, CommandInv, EndFrames, NEW s \in Runs, Session(s), sess'[s].command = "completed"
    PROVE  sess[s].command = "completed" \/ cur \in finished
<1> USE DEF Sessions
<1>0. sess \in [Runs -> SessionRecords] /\ sess[s] \in SessionRecords /\ Listens(sess[s]) /\ Marked(sess[s])
  BY DEF TypeOK, CommandInv, Listens
<1>1. CASE ReadyArrives(s) \/ Ages(s)
  BY <1>0, <1>1 DEF ReadyArrives, Ages, Becomes, SessionRecords
<1>2. CASE IdleTimeout(s)
  BY <1>0, <1>2, ExpiredEnds DEF IdleTimeout, Becomes, EndsOnly
<1>3. CASE LifetimeTimeout(s)
  <2> DEFINE x == [sess[s] EXCEPT !.retired = TRUE, !.life = FALSE]
  <2>1. x \in SessionRecords /\ x.command = sess[s].command
    BY <1>0 DEF SessionRecords
  <2>2. sess'[s] = x \/ sess'[s] = Terminated(ParserFailed([x EXCEPT !.reusable = FALSE]))
    BY <1>0, <1>3 DEF LifetimeTimeout, Becomes
  <2> HIDE DEF x
  <2>3. EndsOnly(x, Terminated(ParserFailed([x EXCEPT !.reusable = FALSE])))
    BY <2>1, ExpiredEnds
  <2> QED BY <2>1, <2>2, <2>3 DEF EndsOnly
<1>4. CASE TerminationEnds(s)
  <2>1. CASE Becomes(s, [Collected(sess[s]) EXCEPT !.termination = "done"])
    <3>1. Collected(sess[s]) \in SessionRecords /\ Collected(sess[s]).command \in {sess[s].command, "rejected"}
      BY <1>0, CollectedEnds
    <3> HIDE DEF Collected
    <3> QED BY <1>0, <2>1, <3>1 DEF Becomes, SessionRecords
  <2>2. CASE Becomes(s, [sess[s] EXCEPT !.termination = "none"])
    BY <1>0, <2>2 DEF Becomes, SessionRecords
  <2> QED BY <1>4, <2>1, <2>2 DEF TerminationEnds
<1>5. CASE ProcessEnds(s)
  <2>1. CASE Becomes(s, [ParserFailed(sess[s]) EXCEPT !.proc = "ending"])
    <3>1. ParserFailed(sess[s]) \in SessionRecords /\ ParserFailed(sess[s]).command \in {sess[s].command, "rejected"}
      BY <1>0, CollectedEnds
    <3> HIDE DEF ParserFailed
    <3> QED BY <1>0, <2>1, <3>1 DEF Becomes, SessionRecords
  <2>2. CASE Becomes(s, Collected(sess[s]))
    BY <1>0, <2>2, CollectedEnds DEF Becomes
  <2> QED BY <1>5, <2>1, <2>2 DEF ProcessEnds
<1>6. CASE Accept(s)
  <2>1. CASE Becomes(s, Poisoned(sess[s]))
    BY <1>0, <2>1, PoisonedEnds DEF Becomes, EndsOnly
  <2>2. CASE Head(wire[s]).kind = "END" /\ HasPrefix(Head(wire[s]))
    <3>1. wire[s] \in Seq(Frames) /\ wire[s] # <<>>
      BY <1>6 DEF Accept, TypeOK
    <3>2. 1 \in DOMAIN wire[s] /\ Head(wire[s]) = wire[s][1]
      BY <3>1
    <3> QED BY <2>2, <3>2 DEF EndFrames, HasPrefix
  <2>3. CASE Becomes(s, [sess[s] EXCEPT !.command = "began"]) \/ Becomes(s, [sess[s] EXCEPT !.sink = TRUE])
    BY <1>0, <2>3 DEF Becomes, SessionRecords
  <2> QED BY <1>6, <2>1, <2>2, <2>3 DEF Accept
<1>7. CASE SinkSettles(s)
  <2>1. CASE Becomes(s, [sess[s] EXCEPT !.sink = FALSE])
    BY <1>0, <2>1 DEF Becomes, SessionRecords
  <2>2. CASE Becomes(s, [Poisoned(sess[s]) EXCEPT !.command = "undelivered"])
    <3>1. Poisoned(sess[s]) \in SessionRecords
      BY <1>0, PoisonedEnds DEF EndsOnly, Marked
    <3> HIDE DEF Poisoned
    <3> QED BY <1>0, <2>2, <3>1 DEF Becomes, SessionRecords
  <2> QED BY <1>7, <2>1, <2>2 DEF SinkSettles
<1> QED BY <1>1, <1>2, <1>3, <1>4, <1>5, <1>6, <1>7 DEF Session

\* What the drain takes for completed has ended at the target.
ResultInv ==
    /\ drain \in {"writing", "executing"} /\ sess[using].command = "completed" => cur \in finished
    /\ drain \in {"finishing", "retiring"} => cur \in finished

LEMMA ResultStep ==
    ASSUME TypeOK, TurnInv, CommandInv, EndFrames, ResultInv, [Next]_vars
    PROVE  ResultInv'
<1> USE DEF Sessions
<1>1. finished \subseteq finished' /\ sess \in [Runs -> SessionRecords] /\ \A s \in Runs : sess[s] \in SessionRecords
  BY FinishedGrows DEF TypeOK
<1>2. drain \in {"writing", "executing", "starting", "opened", "spawning", "finishing"} => using \in Runs
  BY DEF TurnInv, TypeOK, Resting
\* The drain goes on to something else.
<1>3. CASE drain' \notin {"writing", "executing", "finishing", "retiring"}
  BY <1>3 DEF ResultInv
<1>4. ASSUME UNCHANGED <<drain, cur, using>>,
             drain \in {"writing", "executing"} /\ sess'[using].command = "completed"
                => sess[using].command = "completed" \/ cur \in finished
      PROVE  ResultInv'
  BY <1>1, <1>4 DEF ResultInv
<1>5. CASE (\E r \in Runs : Run(r) \/ Abort(r)) \/ CloseCalled \/ DrainEnds \/ CloseSessions \/ CloseSettled \/ UNCHANGED vars
  <2>1. drain' \in {"none", "next", "ending"} \/ UNCHANGED <<drain, cur, using>>
    BY <1>5 DEF Run, Abort, CloseCalled, DrainEnds, AfterDrain, CloseSessions, CloseSettled, vars, runVars
  <2>2. \/ UNCHANGED sess \/ drain \notin {"writing", "executing"}
        \/ sess' = [sess EXCEPT ![using] = Poisoned(@)]
    BY <1>5 DEF Run, Abort, CloseCalled, DrainEnds, CloseSessions, CloseSettled, vars
  <2> QED BY <1>1, <1>2, <1>3, <1>4, <2>1, <2>2, PoisonedEnds DEF EndsOnly
<1>6. CASE TakeNext \/ Replaced \/ Spawned \/ Started \/ StartFails \/ Abandoned \/ Discarded \/ Released
             \/ Finished \/ Retired \/ CommandFails \/ Failed
  <2>1. CASE TakeNext \/ Replaced \/ Spawned \/ Started \/ StartFails \/ Abandoned
    BY <1>3, <2>1 DEF TakeNext, Replaced, Spawned, Started, StartFails, Abandoned, Finish, Goto, Open
  <2>2. CASE Discarded \/ Released \/ Finished \/ Retired \/ CommandFails \/ Failed
    BY <1>3, <2>2 DEF Discarded, Released, Finished, Retired, CommandFails, Failed, Finish, Goto
  <2> QED BY <1>6, <2>1, <2>2
<1>7. ASSUME NEW s \in Runs, Execute(s, sess[s])
      PROVE  ResultInv'
  <2>1. CASE drain' = "releasing"
    BY <1>3, <2>1
  <2>2. CASE /\ drain' = "writing" /\ using' = s
             /\ sess' = [sess EXCEPT ![s] = IF Aborted(cur) THEN Poisoned(CommandBegun(sess[s])) ELSE CommandBegun(sess[s])]
    <3>0. CommandBegun(sess[s]) \in SessionRecords
      BY <1>1, CommandBegunTyped
    <3>1. CommandBegun(sess[s]) \in SessionRecords /\ CommandBegun(sess[s]).command = "active"
      BY <1>1, <3>0 DEF CommandBegun, SessionRecords
    <3>2. Poisoned(CommandBegun(sess[s])).command # "completed"
      BY <3>1, PoisonedEnds DEF EndsOnly
    <3>3. sess'[s] \in {Poisoned(CommandBegun(sess[s])), CommandBegun(sess[s])}
      BY <1>1, <2>2
    <3>4. sess'[s].command # "completed"
      BY <3>1, <3>2, <3>3
    <3> QED BY <2>2, <3>4 DEF ResultInv
  <2> QED BY <1>7, <2>1, <2>2 DEF Execute, Goto
<1>8. CASE Cleaned \/ Opened
  <2>1. (drain = "opened" => using \in Runs) /\ (session # NoRun => session \in Runs)
    BY <1>2 DEF TypeOK
  <2> QED BY <1>3, <1>7, <1>8, <2>1 DEF Cleaned, Opened, Finish, Goto, Open
<1>9. CASE Written
  <2>1. UNCHANGED <<cur, using>> /\ using \in Runs
    BY <1>2, <1>9 DEF Written
  <2>2. CASE drain' = "executing" /\ UNCHANGED sess
    BY <1>1, <1>9, <2>1, <2>2 DEF ResultInv, Written
  <2>3. CASE UNCHANGED drain /\ sess' = [sess EXCEPT ![using] = Poisoned(@)]
    <3>1. Poisoned(sess[using]).command = "completed" => sess[using].command = "completed"
      BY <1>1, <2>1, PoisonedEnds DEF EndsOnly
    <3>2. sess'[using] = Poisoned(sess[using])
      BY <1>1, <2>1, <2>3
    <3> QED BY <1>4, <2>1, <2>3, <3>1, <3>2
  <2> QED BY <1>9, <2>2, <2>3 DEF Written
<1>10. CASE Completed
  <2>1. cur \in finished /\ drain' \in {"finishing", "retiring", "next"} /\ (drain' # "next" => cur' = cur)
    BY <1>10 DEF Completed, ResultInv, Goto, Finish
  <2> QED BY <1>1, <2>1 DEF ResultInv
<1>11. CASE \E s \in Runs : Session(s) \/ Broker(s)
  <2>1. UNCHANGED <<drain, cur, using>>
    BY <1>11, OutsideFrame DEF runVars
  <2>2. ASSUME drain \in {"writing", "executing"}, sess'[using].command = "completed"
        PROVE  sess[using].command = "completed" \/ cur \in finished
    <3>1. CASE UNCHANGED sess
      BY <2>2, <3>1
    <3>2. CASE \E s \in Runs : Session(s)
      BY <1>2, <2>2, <3>2, SessionCommand, SessionCompletes
    <3> QED BY <1>11, <3>1, <3>2 DEF Broker, BrokerOutputs, BrokerEnds, BrokerFatal, BrokerRepeats, BrokerSends
  <2> QED BY <1>4, <2>1, <2>2
<1> QED BY <1>5, <1>6, <1>8, <1>9, <1>10, <1>11 DEF Next, Executor
LEMMA OwnStep ==
    ASSUME TypeOK, TurnInv, ResultInv, AnswerIsOwn, [Next]_vars
    PROVE  AnswerIsOwn'
<1> USE DEF Sessions
<1>1. finished \subseteq finished'
  BY FinishedGrows
<1>2. answer \in [Runs -> {"none", "aborted", "rejected", "failed", "completed"}] /\ output \in [Runs -> SUBSET Runs]
  BY DEF TypeOK
\* Only what has ended is answered as completed.
<1>3. ASSUME UNCHANGED output,
             \A r \in Runs : answer'[r] = "completed" => answer[r] = "completed" \/ r \in finished
      PROVE  AnswerIsOwn'
  BY <1>1, <1>3 DEF AnswerIsOwn
<1>4. UNCHANGED <<answer, output>> => AnswerIsOwn'
  BY <1>3
<1>5. ASSUME NEW r, NEW how, Answered(r, how), how = "completed" => r \in finished, UNCHANGED output
      PROVE  AnswerIsOwn'
  BY <1>2, <1>3, <1>5 DEF Answered
<1>6. ASSUME NEW how, NEW own, NEW s, Finish(how, own, s), how = "completed" => cur \in finished
      PROVE  AnswerIsOwn'
  BY <1>5, <1>6 DEF Finish, brokerVars
<1>7. Outcome # "completed"
  BY DEF Outcome, TypeOK
<1>8. CASE \E r \in Runs : Run(r) \/ Abort(r)
  BY <1>4, <1>5, <1>8 DEF Run, Abort, brokerVars
<1>9. CASE CloseCalled
  BY <1>2, <1>3, <1>9 DEF CloseCalled, brokerVars
<1>10. CASE Cleaned
  BY <1>4, <1>6, <1>10 DEF Cleaned, Open, Goto, Execute, brokerVars
<1>11. CASE Replaced \/ Opened
  BY <1>4, <1>6, <1>11 DEF Replaced, Opened, Open, Goto, Execute, brokerVars
<1>12. CASE Abandoned \/ Discarded \/ Released \/ Failed
  BY <1>6, <1>7, <1>12 DEF Abandoned, Discarded, Released, Failed
<1>13. CASE Completed \/ Finished
  BY <1>4, <1>6, <1>13 DEF Completed, Finished, Goto, ResultInv, brokerVars
<1>14. CASE Retired
  BY <1>6, <1>14 DEF Retired, ResultInv
<1>15. CASE TakeNext \/ DrainEnds \/ Spawned \/ Started \/ StartFails \/ Written \/ CommandFails \/ CloseSessions
              \/ CloseSettled \/ UNCHANGED vars
  BY <1>4, <1>15 DEF TakeNext, DrainEnds, Spawned, Started, StartFails, Written, CommandFails, CloseSessions,
     CloseSettled, Goto, brokerVars, runVars, vars
<1>16. ASSUME NEW s \in Runs, Session(s) \/ Broker(s)
       PROVE  AnswerIsOwn'
  <2>1. CASE Accept(s)
    <3>1. answer' = answer /\ (UNCHANGED output \/ output' = [output EXCEPT ![cur] = @ \cup {cur}])
      BY <2>1 DEF Accept, runVars, HasPrefix
    <3>2. \A r \in Runs : output'[r] \subseteq output[r] \cup {r}
      BY <1>2, <3>1
    <3> QED BY <1>1, <3>1, <3>2 DEF AnswerIsOwn
  <2>2. CASE ~Accept(s)
    BY <1>4, <1>16, <2>2 DEF Session, ReadyArrives, Ages, IdleTimeout, LifetimeTimeout, TerminationEnds, ProcessEnds,
       SinkSettles, SessionOnly, Broker, BrokerOutputs, BrokerEnds, BrokerFatal, BrokerRepeats, BrokerSends,
       runVars, brokerVars
  <2> QED BY <2>1, <2>2
<1> QED BY <1>8, <1>9, <1>10, <1>11, <1>12, <1>13, <1>14, <1>15, <1>16 DEF Next, Executor
----------------------------------------------------------------------------
(* As long as nothing outside goes wrong.                                  *)

\* The frames of the active command, in order.
InOrder(s) ==
    /\ \A i \in DOMAIN wire[s] :
        /\ wire[s][i].run = cur
        /\ wire[s][i].kind = "BEGIN" <=> i = 1 /\ sess[s].command = "active"
        /\ wire[s][i].kind = "END" => i = Len(wire[s]) /\ broker[s].run = NoRun
    /\ wire[s] = <<>> => sess[s].command # "active"
    /\ broker[s].run \in {cur, NoRun}

\* A session that can be used again can be used again, and nothing is on its way to or
\* from the target but the one command that is active.
Healthy(s) ==
    /\ sess[s].proc # "ending" /\ sess[s].command # "undelivered"
    /\ sess[s].reusable =>
        sess[s].ready /\ sess[s].parser = "idle" /\ sess[s].termination = "none"
    /\ sess[s].parser # "fatal" /\ ~HasActiveCommand(sess[s]) => Quiet(s)
    /\ HasActiveCommand(sess[s]) =>
        /\ sess[s].reusable
        /\ drain = "writing" => sess[s].command = "active" /\ Quiet(s)
        /\ drain = "executing" => InOrder(s)

\* No step of #execute fails, but for an abort.
StepsInv ==
    /\ drain = "starting" =>
        LET x == sess[using]
        IN  ~x.reusable /\ ~x.idle /\ ~x.life /\ x.parser # "fatal" /\ x.termination = "none" /\ x.command = "none"
    /\ drain = "opened" => sess[using].reusable
    /\ drain \in {"writing", "executing"} /\ sess[using].command = "rejected" => Aborted(cur)
    /\ drain \in {"abandoning", "failing"} => Aborted(cur)
    /\ drain = "discarding" => closed
    /\ drain # "releasing"

Fine == unclosed = {} /\ (\A s \in Runs : Healthy(s)) /\ StepsInv

LossInv == troubles = 0 => Fine

LEMMA TroublesGrow ==
    ASSUME troubles \in Nat, [Next]_vars, troubles' = 0
    PROVE  troubles = 0 /\ ~Trouble
<1>1. ~Trouble
  BY DEF Trouble
<1>2. ASSUME NEW s \in Sessions, Session(s)
      PROVE  troubles = 0
  <2>1. CASE ReadyArrives(s) \/ Accept(s)
    BY <2>1 DEF ReadyArrives, Accept
  <2>2. CASE Ages(s) \/ IdleTimeout(s) \/ LifetimeTimeout(s)
    BY <2>2 DEF Ages, IdleTimeout, LifetimeTimeout, Calm
  <2>3. CASE TerminationEnds(s) \/ ProcessEnds(s)
    BY <1>1, <2>3 DEF TerminationEnds, ProcessEnds, Calm
  <2>4. CASE SinkSettles(s)
    BY <1>1, <2>4 DEF SinkSettles, Calm
  <2> QED BY <1>2, <2>1, <2>2, <2>3, <2>4 DEF Session
<1>3. CASE \E s \in Sessions : Broker(s)
  BY <1>1, <1>3 DEF Broker, BrokerOutputs, BrokerEnds, BrokerFatal, BrokerRepeats
<1>4. CASE (\E r \in Runs : Run(r) \/ Abort(r)) \/ CloseCalled \/ UNCHANGED vars
  BY <1>1, <1>4 DEF Run, Abort, CloseCalled, vars
<1>5. CASE Executor
  BY <1>1, <1>5 DEF Executor, TakeNext, DrainEnds, Cleaned, Replaced, Spawned, Started, StartFails, Abandoned,
     Opened, Discarded, Released, Written, Completed, Finished, Retired, CommandFails, Failed, CloseSessions,
     CloseSettled, Execute, Open, Finish, Calm
<1> QED BY <1>1, <1>2, <1>3, <1>4, <1>5 DEF Next

LEMMA HealthyEnds ==
    ASSUME TypeOK, CommandInv, NEW s \in Runs, Healthy(s), EndsOnly(sess[s], sess'[s]), Down(sess'[s])
    PROVE  Healthy(s)'
<1>1. sess[s] \in SessionRecords /\ Listens(sess[s])
  BY DEF TypeOK, CommandInv, Sessions, Listens
<1>2. Listens(sess'[s]) /\ sess'[s].proc = sess[s].proc /\ sess'[s].command \in {sess[s].command, "rejected"}
  BY <1>1, EndsOnlyListens DEF EndsOnly
<1>3. ~HasActiveCommand(sess'[s]) /\ ~sess'[s].reusable /\ sess'[s].parser = "fatal"
  BY <1>2 DEF Listens, Down
<1>4. sess'[s].proc # "ending" /\ sess'[s].command # "undelivered"
  BY <1>2 DEF Healthy
<1> QED BY <1>3, <1>4 DEF Healthy

\* What x makes of the session s is as healthy as s was, if it does not concern the command.
LEMMA HealthyKept ==
    ASSUME NEW s \in Runs, Healthy(s), UNCHANGED <<wire[s], broker[s]>>,
           UNCHANGED <<drain, cur>> \/ ~HasActiveCommand(sess[s]),
           sess'[s].proc # "ending", sess'[s].command = sess[s].command,
           sess'[s].reusable = sess[s].reusable, sess'[s].ready = sess[s].ready,
           sess'[s].parser = sess[s].parser, sess'[s].termination = sess[s].termination
    PROVE  Healthy(s)'
<1>1. HasActiveCommand(sess'[s]) <=> HasActiveCommand(sess[s])
  BY DEF HasActiveCommand
<1>2. Quiet(s) => Quiet(s)'
  BY DEF Quiet
<1>3. CASE ~HasActiveCommand(sess[s])
  BY <1>1, <1>2, <1>3 DEF Healthy
<1>4. CASE UNCHANGED <<drain, cur>>
  <2>1. InOrder(s) => InOrder(s)'
    BY <1>4 DEF InOrder
  <2> QED BY <1>1, <1>2, <1>4, <2>1 DEF Healthy
<1> QED BY <1>3, <1>4

\* What is under way for a session that listens belongs to its active command.
LEMMA UnderWay ==
    ASSUME CommandInv, NEW s \in Runs, Healthy(s), sess[s].parser = "idle", ~Quiet(s)
    PROVE  HasActiveCommand(sess[s]) /\ s = using /\ drain = "executing" /\ InOrder(s)
<1>1. HasActiveCommand(sess[s])
  BY DEF Healthy
<1>2. s = using /\ drain \in {"writing", "executing"}
  BY <1>1 DEF CommandInv, Sessions
<1> QED BY <1>1, <1>2 DEF Healthy
\* The parser accepts every frame of a command, and the last one leaves nothing behind.
LEMMA AcceptHealthy ==
    ASSUME TypeOK, CommandInv, NEW s \in Runs, Healthy(s), Accept(s)
    PROVE  Healthy(s)' /\ sess'[s].command # "rejected" /\ drain = "executing"
<1> USE DEF Sessions
<1>1. /\ sess \in [Runs -> SessionRecords] /\ sess[s] \in SessionRecords
      /\ wire \in [Runs -> Seq(Frames)] /\ wire[s] \in Seq(Frames) /\ wire[s] # <<>>
      /\ broker[s] \in [run : Runs \cup {NoRun}, left : Nat]
  BY DEF TypeOK, Accept
<1>2. sess[s].parser = "idle" /\ wire'[s] = Tail(wire[s]) /\ UNCHANGED <<broker, drain, cur>>
  BY <1>1 DEF Accept, runVars
<1>3. HasActiveCommand(sess[s]) /\ drain = "executing" /\ InOrder(s)
  BY <1>1, <1>2, UnderWay DEF Quiet
<1>4. sess[s].reusable /\ sess[s].ready /\ sess[s].termination = "none" /\ sess[s].proc # "ending"
  BY <1>3 DEF Healthy
<1> DEFINE f == Head(wire[s])
<1>5. f = wire[s][1] /\ 1 \in DOMAIN wire[s] /\ f.run = cur /\ (f.kind = "BEGIN" <=> sess[s].command = "active")
  <2>1. f = wire[s][1] /\ 1 \in DOMAIN wire[s]
    BY <1>1
  <2> QED BY <1>3, <2>1 DEF InOrder
<1>6. \A i \in DOMAIN wire'[s] : i + 1 \in DOMAIN wire[s] /\ wire'[s][i] = wire[s][i + 1] /\ i + 1 # 1
  BY <1>1, <1>2
<1>7. Len(wire'[s]) = Len(wire[s]) - 1
  BY <1>1, <1>2
<1>8. ASSUME sess'[s].command = "began"
      PROVE  InOrder(s)'
  <2>1. \A i \in DOMAIN wire'[s] :
          /\ wire'[s][i].run = cur
          /\ wire'[s][i].kind # "BEGIN"
          /\ wire'[s][i].kind = "END" => i + 1 = Len(wire[s]) /\ broker[s].run = NoRun
    BY <1>3, <1>6 DEF InOrder
  <2>2. \A i \in DOMAIN wire'[s] : i + 1 = Len(wire[s]) => i = Len(wire'[s])
    BY <1>1, <1>2
  <2> QED BY <1>2, <1>3, <1>8, <2>1, <2>2 DEF InOrder
<1>9. CASE sess' = [sess EXCEPT ![s] = [sess[s] EXCEPT !.command = "began"]]
  <2>1. /\ sess'[s].command = "began" /\ sess'[s].reusable /\ sess'[s].ready /\ sess'[s].parser = "idle"
        /\ sess'[s].termination = "none" /\ sess'[s].proc # "ending"
    BY <1>1, <1>2, <1>4, <1>9 DEF SessionRecords
  <2> QED BY <1>2, <1>3, <1>8, <2>1 DEF Healthy, HasActiveCommand
<1>10. CASE f.kind = "END" /\ sess' = [sess EXCEPT ![s] = [sess[s] EXCEPT !.command = "completed"]]
  <2>1. /\ sess'[s].command = "completed" /\ sess'[s].reusable /\ sess'[s].ready /\ sess'[s].parser = "idle"
        /\ sess'[s].termination = "none" /\ sess'[s].proc # "ending"
    BY <1>1, <1>2, <1>4, <1>10 DEF SessionRecords
  <2>2. Len(wire[s]) = 1 /\ broker[s].run = NoRun
    BY <1>3, <1>5, <1>10 DEF InOrder
  <2>3. Quiet(s)'
    <3>1. wire'[s] = <<>>
      <4>1. wire'[s] \in Seq(Frames) /\ (wire'[s] # <<>> => 1 \in DOMAIN wire'[s])
        BY <1>1, <1>2
      <4>2. 2 \notin DOMAIN wire[s]
        BY <1>1, <2>2
      <4> QED BY <1>6, <4>1, <4>2
    <3>2. broker[s].left = 0
      BY <2>2 DEF CommandInv
    <3> QED BY <1>1, <1>2, <2>2, <3>1, <3>2 DEF Quiet
  <2> QED BY <1>3, <2>1, <2>3 DEF Healthy, HasActiveCommand
<1>11. CASE f.kind = "OUT" /\ sess' = [sess EXCEPT ![s] = [sess[s] EXCEPT !.sink = TRUE]]
  <2>1. sess[s].command = "began"
    BY <1>3, <1>5, <1>11 DEF HasActiveCommand
  <2>2. /\ sess'[s].command = "began" /\ sess'[s].reusable /\ sess'[s].ready /\ sess'[s].parser = "idle"
        /\ sess'[s].termination = "none" /\ sess'[s].proc # "ending"
    BY <1>1, <1>2, <1>4, <1>11, <2>1 DEF SessionRecords
  <2> QED BY <1>2, <1>3, <1>8, <2>2 DEF Healthy, HasActiveCommand
<1> QED BY <1>3, <1>5, <1>9, <1>10, <1>11 DEF Accept, Becomes, HasPrefix

\* The broker sends the frames of the command it executes, END last.
LEMMA BrokerHealthy ==
    ASSUME TypeOK, TurnInv, CommandInv, NEW s \in Runs, Healthy(s), Broker(s), ~Trouble
    PROVE  Healthy(s)'
<1> USE DEF Sessions
<1>1. /\ sess[s] \in SessionRecords /\ wire \in [Runs -> Seq(Frames)] /\ wire[s] \in Seq(Frames)
      /\ broker \in [Runs -> [run : Runs \cup {NoRun}, left : Nat]]
  BY DEF TypeOK
<1>2. BrokerOutputs(s) \/ BrokerEnds(s)
  BY DEF Broker, BrokerFatal, BrokerRepeats
<1>3. broker[s].run # NoRun /\ sess[s].parser = "idle" /\ UNCHANGED <<sess, drain, cur>>
  BY <1>1, <1>2 DEF BrokerOutputs, BrokerEnds, BrokerSends, runVars, CommandInv
<1>4. HasActiveCommand(sess[s]) /\ drain = "executing" /\ InOrder(s)
  BY <1>1, <1>3, UnderWay DEF Quiet
<1>5. broker[s].run = cur /\ \A i \in DOMAIN wire[s] : wire[s][i].kind # "END"
  BY <1>3, <1>4 DEF InOrder
<1>6. ASSUME NEW kind \in {"OUT", "END"}, wire'[s] = Append(wire[s], [run |-> cur, kind |-> kind]),
             broker'[s].run \in {cur, NoRun}, kind = "END" => broker'[s].run = NoRun
      PROVE  InOrder(s)'
  <2>0. [run |-> cur, kind |-> kind] \in Frames
    BY DEF Frames, TypeOK
  <2>1. Len(wire'[s]) = Len(wire[s]) + 1 /\ wire'[s] # <<>>
    <3>1. wire[s] \in Seq(Frames)
      BY <1>1
    <3>2. \A f \in Frames : LET w == Append(wire[s], f) IN Len(w) = Len(wire[s]) + 1 /\ w # <<>>
      BY <3>1
    <3> QED BY <1>6, <2>0, <3>2
  <2>2. ASSUME NEW i \in DOMAIN wire'[s]
        PROVE  /\ wire'[s][i].run = cur
               /\ wire'[s][i].kind = "BEGIN" <=> i = 1 /\ sess[s].command = "active"
               /\ wire'[s][i].kind = "END" => i = Len(wire'[s]) /\ broker'[s].run = NoRun
    <3>1. CASE i \in DOMAIN wire[s]
      <4>1. wire'[s][i] = wire[s][i]
        BY <1>1, <1>6, <3>1
      <4> QED BY <1>4, <1>5, <3>1, <4>1 DEF InOrder
    <3>2. CASE i = Len(wire[s]) + 1
      <4>1. wire'[s][i] = [run |-> cur, kind |-> kind]
        BY <1>1, <1>6, <3>2
      <4>2. i = 1 => wire[s] = <<>>
        BY <1>1, <3>2
      <4> QED BY <1>4, <1>6, <2>1, <3>2, <4>1, <4>2 DEF InOrder
    <3> QED BY <1>1, <1>6, <3>1, <3>2
  <2> QED BY <1>3, <1>6, <2>1, <2>2 DEF InOrder
<1>7. CASE BrokerOutputs(s)
  <2>1. wire'[s] = Append(wire[s], [run |-> cur, kind |-> "OUT"]) /\ broker'[s].run = cur
    BY <1>1, <1>5, <1>7 DEF BrokerOutputs, BrokerSends
  <2> QED BY <1>3, <1>4, <1>6, <2>1 DEF Healthy
<1>8. CASE BrokerEnds(s)
  <2>1. wire'[s] = Append(wire[s], [run |-> cur, kind |-> "END"]) /\ broker'[s].run = NoRun
    BY <1>1, <1>5, <1>8 DEF BrokerEnds, BrokerSends
  <2> QED BY <1>3, <1>4, <1>6, <2>1 DEF Healthy
<1> QED BY <1>2, <1>7, <1>8
LEMMA SessionHealthy ==
    ASSUME TypeOK, CommandInv, NEW s \in Runs, Healthy(s), Session(s), ~Trouble
    PROVE  Healthy(s)'
<1> USE DEF Sessions
<1>0. sess \in [Runs -> SessionRecords] /\ sess[s] \in SessionRecords /\ Listens(sess[s]) /\ Marked(sess[s])
  BY DEF TypeOK, CommandInv, Listens
<1>1. CASE ReadyArrives(s)
  <2>1. /\ sess'[s] = [sess[s] EXCEPT !.parser = "idle"] /\ sess[s].parser = "preamble"
        /\ UNCHANGED <<wire, broker>>
    BY <1>0, <1>1 DEF ReadyArrives, brokerVars
  <2>2. ~HasActiveCommand(sess[s]) /\ ~sess[s].reusable /\ Quiet(s)
    BY <1>0, <2>1 DEF Listens, Healthy
  <2>3. /\ ~HasActiveCommand(sess'[s]) /\ ~sess'[s].reusable /\ sess'[s].proc = sess[s].proc
        /\ sess'[s].command = sess[s].command
    BY <1>0, <2>1, <2>2 DEF HasActiveCommand, SessionRecords
  <2> QED BY <2>1, <2>2, <2>3 DEF Healthy, Quiet
<1>2. CASE Ages(s)
  <2>1. sess'[s] = [sess[s] EXCEPT !.aged = TRUE] /\ UNCHANGED <<wire, broker, drain, cur>>
    BY <1>0, <1>2 DEF Ages, Becomes, SessionOnly, brokerVars, runVars
  <2> QED BY <1>0, <2>1, HealthyKept DEF SessionRecords, Healthy
<1>3. CASE IdleTimeout(s)
  <2>1. EndsOnly(sess[s], sess'[s]) /\ Down(sess'[s])
    BY <1>0, <1>3, ExpiredEnds DEF IdleTimeout, Becomes
  <2> QED BY <2>1, HealthyEnds
<1>4. CASE LifetimeTimeout(s)
  <2> DEFINE x == [sess[s] EXCEPT !.retired = TRUE, !.life = FALSE]
  <2>1. x \in SessionRecords /\ EndsOnly(sess[s], x)
    BY <1>0 DEF EndsOnly, HasActiveCommand, SessionRecords
  <2>2. CASE sess'[s] = x
    <3>1. UNCHANGED <<wire, broker, drain, cur>>
      BY <1>4 DEF LifetimeTimeout, SessionOnly, brokerVars, runVars
    <3> QED BY <1>0, <2>2, <3>1, HealthyKept DEF SessionRecords, Healthy
  <2>3. CASE sess'[s] = Terminated(ParserFailed([x EXCEPT !.reusable = FALSE]))
    <3> HIDE DEF x
    <3>1. EndsOnly(x, sess'[s]) /\ Down(sess'[s])
      BY <2>1, <2>3, ExpiredEnds
    <3> QED BY <2>1, <3>1, EndsTransitive, HealthyEnds
  <2> QED BY <1>0, <1>4, <2>2, <2>3 DEF LifetimeTimeout, Becomes
<1>5. CASE TerminationEnds(s)
  <2>1. sess'[s] = [Collected(sess[s]) EXCEPT !.termination = "done"]
    BY <1>0, <1>5 DEF TerminationEnds, Becomes
  <2>2. /\ Collected(sess[s]) \in SessionRecords /\ Down(Collected(sess[s])) /\ Collected(sess[s]).proc = "dead"
        /\ Collected(sess[s]).command \in {sess[s].command, "rejected"} /\ ~HasActiveCommand(Collected(sess[s]))
    BY <1>0, CollectedEnds DEF Down
  <2> HIDE DEF Collected
  <2>3. /\ sess'[s].proc = "dead" /\ Down(sess'[s]) /\ ~HasActiveCommand(sess'[s])
        /\ sess'[s].command \in {sess[s].command, "rejected"}
    BY <2>1, <2>2 DEF SessionRecords, Down, HasActiveCommand
  <2> QED BY <2>3 DEF Healthy, Down
<1>6. CASE ProcessEnds(s)
  BY <1>6 DEF ProcessEnds, Healthy
<1>7. CASE Accept(s)
  BY <1>7, AcceptHealthy
<1>8. CASE SinkSettles(s)
  <2>1. sess'[s] = [sess[s] EXCEPT !.sink = FALSE] /\ UNCHANGED <<wire, broker, drain, cur>>
    BY <1>0, <1>8 DEF SinkSettles, Becomes, SessionOnly, brokerVars, runVars
  <2> QED BY <1>0, <2>1, HealthyKept DEF SessionRecords, Healthy
<1> QED BY <1>1, <1>2, <1>3, <1>4, <1>5, <1>6, <1>7, <1>8 DEF Session

\* No timer gets between two steps of the drain that follow on one another.
LEMMA SessionSteps ==
    ASSUME TypeOK, TurnInv, CommandInv, Fine, NEW s \in Runs, Session(s), ~Trouble
    PROVE  StepsInv'
<1> USE DEF Sessions
<1>0. /\ sess \in [Runs -> SessionRecords] /\ sess[s] \in SessionRecords /\ Listens(sess[s]) /\ Marked(sess[s])
      /\ Healthy(s) /\ StepsInv
  BY DEF TypeOK, CommandInv, Listens, Fine
<1>1. UNCHANGED <<drain, cur, using, closer, aborted>>
  BY OutsideFrame DEF runVars
<1>2. drain \in {"starting", "opened", "writing", "executing"} => using \in Runs
  BY DEF TurnInv, TypeOK, Resting
<1>3. CASE s # using
  BY <1>0, <1>1, <1>2, <1>3, SessionCommand DEF StepsInv, Aborted, closed
<1>4. ASSUME s = using,
             drain = "starting" =>
                ~sess'[s].reusable /\ ~sess'[s].idle /\ ~sess'[s].life /\ sess'[s].parser # "fatal"
                /\ sess'[s].termination = "none" /\ sess'[s].command = "none",
             drain = "opened" => sess'[s].reusable,
             drain \in {"writing", "executing"} /\ sess'[s].command = "rejected" => sess[s].command = "rejected"
      PROVE  StepsInv'
  BY <1>0, <1>1, <1>4 DEF StepsInv, Aborted, closed
<1>5. CASE ReadyArrives(s) \/ Ages(s)
  <2>1. sess'[s] = [sess[s] EXCEPT !.parser = "idle"] \/ (sess[s].reusable /\ sess'[s] = [sess[s] EXCEPT !.aged = TRUE])
    BY <1>0, <1>5 DEF ReadyArrives, Ages, Becomes
  <2>2. /\ sess'[s].command = sess[s].command /\ sess'[s].reusable = sess[s].reusable /\ sess'[s].idle = sess[s].idle
        /\ sess'[s].life = sess[s].life /\ sess'[s].termination = sess[s].termination
        /\ sess'[s].parser \in {sess[s].parser, "idle"}
    BY <1>0, <2>1 DEF SessionRecords
  <2> QED BY <1>0, <1>3, <1>4, <2>2 DEF StepsInv
<1>6. CASE IdleTimeout(s)
  <2>1. sess[s].idle /\ drain # "opened" /\ EndsOnly(sess[s], sess'[s])
    BY <1>0, <1>6, ExpiredEnds DEF IdleTimeout, Becomes, Continuing
  <2>2. ~HasActiveCommand(sess[s])
    BY <2>1 DEF CommandInv
  <2>3. sess'[s].command = sess[s].command /\ (s = using => drain # "starting")
    BY <1>0, <2>1, <2>2 DEF EndsOnly, StepsInv
  <2> QED BY <1>3, <1>4, <2>1, <2>3
<1>7. CASE LifetimeTimeout(s)
  <2> DEFINE x == [sess[s] EXCEPT !.retired = TRUE, !.life = FALSE]
  <2>1. x \in SessionRecords /\ x.command = sess[s].command /\ (HasActiveCommand(x) <=> HasActiveCommand(sess[s]))
    BY <1>0 DEF HasActiveCommand, SessionRecords
  <2>2. sess[s].life /\ drain # "opened" /\ (s = using => drain # "starting")
    BY <1>0, <1>7 DEF LifetimeTimeout, Continuing, StepsInv
  <2>3. CASE sess'[s] = x
    BY <1>3, <1>4, <2>1, <2>2, <2>3
  <2>4. CASE ~HasActiveCommand(x) /\ sess'[s] = Terminated(ParserFailed([x EXCEPT !.reusable = FALSE]))
    <3> HIDE DEF x
    <3>1. EndsOnly(x, sess'[s])
      BY <2>1, <2>4, ExpiredEnds
    <3>2. sess'[s].command = sess[s].command
      BY <2>1, <2>4, <3>1 DEF EndsOnly
    <3> QED BY <1>3, <1>4, <2>2, <3>2
  <2> QED BY <1>0, <1>7, <2>3, <2>4 DEF LifetimeTimeout, Becomes
<1>8. CASE TerminationEnds(s)
  <2>1. sess[s].termination = "pending" /\ sess'[s] = [Collected(sess[s]) EXCEPT !.termination = "done"]
    BY <1>0, <1>8 DEF TerminationEnds, Becomes
  <2>2. ~sess[s].reusable /\ ~HasActiveCommand(sess[s])
    BY <1>0, <2>1 DEF Healthy
  <2>3. sess'[s].command = sess[s].command
    <3>1. Collected(sess[s]) \in SessionRecords /\ Collected(sess[s]).command = sess[s].command
      BY <1>0, <2>2, CollectedEnds
    <3> HIDE DEF Collected
    <3> QED BY <2>1, <3>1 DEF SessionRecords
  <2> QED BY <1>0, <1>3, <1>4, <2>1, <2>2, <2>3 DEF StepsInv
<1>9. CASE ProcessEnds(s)
  BY <1>0, <1>9 DEF ProcessEnds, Healthy
<1>10. CASE Accept(s)
  BY <1>0, <1>3, <1>4, <1>10, AcceptHealthy
<1>11. CASE SinkSettles(s)
  <2>1. sess'[s] = [sess[s] EXCEPT !.sink = FALSE]
    BY <1>0, <1>11 DEF SinkSettles, Becomes
  <2>2. /\ sess'[s].command = sess[s].command /\ sess'[s].reusable = sess[s].reusable /\ sess'[s].idle = sess[s].idle
        /\ sess'[s].life = sess[s].life /\ sess'[s].termination = sess[s].termination
        /\ sess'[s].parser = sess[s].parser
    BY <1>0, <2>1 DEF SessionRecords
  <2> QED BY <1>0, <1>3, <1>4, <2>2 DEF StepsInv
<1> QED BY <1>5, <1>6, <1>7, <1>8, <1>9, <1>10, <1>11 DEF Session
\* Steps of the sessions and the broker keep everything fine.
LEMMA OutsideFine ==
    ASSUME TypeOK, TurnInv, CommandInv, Fine, NEW s \in Runs, Session(s) \/ Broker(s), ~Trouble
    PROVE  Fine'
<1> USE DEF Sessions
<1>0. /\ sess \in [Runs -> SessionRecords] /\ wire \in [Runs -> Seq(Frames)]
      /\ broker \in [Runs -> [run : Runs \cup {NoRun}, left : Nat]]
  BY DEF TypeOK
<1>1. UNCHANGED <<drain, cur, using, closer, aborted>>
  BY OutsideFrame DEF runVars
<1>2. ASSUME Session(s)
      PROVE  unclosed' = unclosed /\ \A t \in Runs : t # s => wire'[t] = wire[t] /\ broker'[t] = broker[t]
  <2>1. CASE ReadyArrives(s) \/ Ages(s) \/ IdleTimeout(s) \/ LifetimeTimeout(s) \/ SinkSettles(s)
    BY <2>1 DEF ReadyArrives, Ages, IdleTimeout, LifetimeTimeout, SinkSettles, SessionOnly, closeVars, brokerVars
  <2>2. CASE TerminationEnds(s) \/ ProcessEnds(s)
    BY <1>0, <2>2 DEF TerminationEnds, ProcessEnds, Disconnected, closeVars
  <2>3. CASE Accept(s)
    BY <1>0, <2>3 DEF Accept, closeVars
  <2> QED BY <1>2, <2>1, <2>2, <2>3 DEF Session
<1>3. ASSUME Broker(s)
      PROVE  UNCHANGED <<sess, unclosed>> /\ \A t \in Runs : t # s => wire'[t] = wire[t] /\ broker'[t] = broker[t]
  BY <1>0, <1>3 DEF Broker, BrokerOutputs, BrokerEnds, BrokerFatal, BrokerRepeats, BrokerSends, closeVars
<1>4. \A t \in Runs : Healthy(t)'
  <2>1. Healthy(s)'
    BY SessionHealthy, BrokerHealthy DEF Fine
  <2>2. ASSUME NEW t \in Runs, t # s
        PROVE  Healthy(t)'
    <3>1. sess'[t] = sess[t] /\ wire'[t] = wire[t] /\ broker'[t] = broker[t] /\ Healthy(t)
      BY <1>2, <1>3, <2>2, SessionCommand DEF Fine
    <3> QED BY <1>1, <3>1, HealthyKept DEF Healthy
  <2> QED BY <2>1, <2>2
<1>5. StepsInv'
  <2>1. CASE UNCHANGED sess
    BY <1>1, <2>1 DEF Fine, StepsInv, Aborted, closed
  <2> QED BY <1>3, <2>1, SessionSteps
<1> QED BY <1>2, <1>3, <1>4, <1>5 DEF Fine

\* The command of a run that has not been aborted begins in a session that can take it.
LEMMA ExecuteFine ==
    ASSUME TypeOK, TurnInv, CommandInv, Fine, NEW s \in Runs, sess[s].reusable, Execute(s, sess[s]),
           drain \notin {"writing", "executing"}
    PROVE  Fine'
<1> USE DEF Sessions
<1> DEFINE x == CommandBegun(sess[s])
<1>1. /\ sess \in [Runs -> SessionRecords] /\ sess[s] \in SessionRecords /\ Healthy(s) /\ Marked(sess[s])
      /\ sess[s].ready /\ sess[s].parser = "idle" /\ sess[s].termination = "none" /\ sess[s].proc # "ending"
  BY DEF TypeOK, CommandInv, Fine, Healthy
<1>2. \A t \in Runs : ~HasActiveCommand(sess[t])
  BY DEF CommandInv
<1>3. /\ sess' = [sess EXCEPT ![s] = IF Aborted(cur) THEN Poisoned(x) ELSE x]
      /\ Goto("writing", s, "none") /\ unclosed' = unclosed
  BY <1>1 DEF Execute, NoWait
<1>4. drain' = "writing" /\ using' = s /\ UNCHANGED <<cur, aborted, wire, broker>>
  BY <1>3 DEF Goto, brokerVars
<1>5. /\ x \in SessionRecords /\ x.command = "active" /\ x.reusable /\ x.ready /\ x.parser = "idle" /\ ~x.idle
      /\ x.termination = "none" /\ x.proc = sess[s].proc /\ x.fatal = sess[s].fatal
  BY <1>1 DEF CommandBegun, SessionRecords
<1> HIDE DEF x
<1>6. /\ EndsOnly(x, Poisoned(x)) /\ Down(Poisoned(x)) /\ ~HasActiveCommand(Poisoned(x))
      /\ Poisoned(x).proc # "ending" /\ Poisoned(x).command # "undelivered"
  <2>1. ~x.fatal
    BY <1>1, <1>5 DEF Marked, Down
  <2>2. EndsOnly(x, Poisoned(x)) /\ Down(Poisoned(x))
    BY <1>5, <2>1, PoisonedEnds DEF Marked
  <2>3. Listens(Poisoned(x))
    BY <1>5, <2>2, EndsOnlyListens DEF Listens
  <2> QED BY <1>1, <1>5, <2>2, <2>3 DEF EndsOnly, Down, Listens
<1>7. \A t \in Runs : t # s => Healthy(t)'
  BY <1>1, <1>2, <1>3, <1>4, HealthyKept DEF Fine, Healthy
<1>8. CASE Aborted(cur)
  <2>1. sess'[s] = Poisoned(x)
    BY <1>1, <1>3, <1>8
  <2>2. Healthy(s)'
    BY <1>6, <2>1 DEF Healthy, Down
  <2>3. StepsInv'
    <3>1. Aborted(cur)'
      BY <1>3, <1>4, <1>8 DEF Aborted, closed, Execute, NoWait, AwaitClosed
    <3> QED BY <1>4, <3>1 DEF StepsInv
  <2> QED BY <1>3, <1>7, <2>2, <2>3 DEF Fine
<1>9. CASE ~Aborted(cur)
  <2>1. sess'[s] = x
    BY <1>1, <1>3, <1>9
  <2>2. Quiet(s)'
    BY <1>1, <1>2, <1>4 DEF Healthy, Quiet
  <2>3. Healthy(s)'
    BY <1>1, <1>4, <1>5, <2>1, <2>2 DEF Healthy, HasActiveCommand
  <2>4. StepsInv'
    BY <1>4, <1>5, <2>1 DEF StepsInv
  <2> QED BY <1>3, <1>7, <2>3, <2>4 DEF Fine
<1> QED BY <1>8, <1>9
LEMMA FineStep ==
    ASSUME TypeOK, TurnInv, CommandInv, Fine, [Next]_vars, ~Trouble
    PROVE  Fine'
<1> USE DEF Sessions
<1>0. /\ sess \in [Runs -> SessionRecords] /\ unclosed = {} /\ StepsInv
      /\ \A s \in Runs : sess[s] \in SessionRecords /\ Marked(sess[s]) /\ Healthy(s) /\ sess[s].proc # "ending"
  BY DEF TypeOK, CommandInv, Fine, Healthy
<1>1. drain \in {"spawning", "starting", "opened", "writing", "executing", "finishing"} => using \in Runs
  BY DEF TurnInv, TypeOK, Resting
\* No command is active, or none is disturbed.
<1> DEFINE Free == UNCHANGED <<drain, cur>> \/ drain \notin {"writing", "executing"} \/ ~HasActiveCommand(sess[using])
<1>2. Free => \A s \in Runs : UNCHANGED <<drain, cur>> \/ ~HasActiveCommand(sess[s])
  BY DEF CommandInv
<1>3. ASSUME UNCHANGED <<sess, wire, broker>>, Free
      PROVE  \A s \in Runs : Healthy(s)'
  BY <1>0, <1>2, <1>3, HealthyKept
<1>4. ASSUME NEW S \in SUBSET Runs, Ended(S), UNCHANGED <<wire, broker>>, Free
      PROVE  unclosed' = {} /\ \A s \in Runs : Healthy(s)'
  BY <1>0, <1>2, <1>4, HealthyKept, HealthyEnds DEF Ended
<1>5. ASSUME NEW S \in SUBSET Runs, AwaitClosed(S), UNCHANGED <<wire, broker>>, Free
      PROVE  unclosed' = {} /\ \A s \in Runs : Healthy(s)'
  BY <1>4, <1>5, AwaitClosedEnds
<1>6. ASSUME NEW t \in Runs, NEW x, sess' = [sess EXCEPT ![t] = x], Healthy(t)', UNCHANGED <<wire, broker>>, Free
      PROVE  \A s \in Runs : Healthy(s)'
  BY <1>0, <1>2, <1>6, HealthyKept
<1>7. ASSUME drain' \in {"none", "next", "ending", "cleaning", "replacing", "spawning", "finishing", "retiring"}
      PROVE  StepsInv'
  BY <1>7 DEF StepsInv
<1>8. ASSUME NEW how, NEW own, NEW s, Finish(how, own, s), NoWait, UNCHANGED sess, Free
      PROVE  Fine'
  BY <1>0, <1>3, <1>7, <1>8 DEF Finish, NoWait, brokerVars, Fine
<1>9. ASSUME NEW own, Open(own), Free
      PROVE  Fine'
  BY <1>0, <1>3, <1>7, <1>9 DEF Open, Goto, brokerVars, Fine
<1>10. CASE (\E r \in Runs : Run(r)) \/ DrainEnds \/ CloseSettled \/ UNCHANGED vars
  <2>1. UNCHANGED <<sess, wire, broker, unclosed>> /\ Free
    BY <1>10 DEF Run, DrainEnds, CloseSettled, vars, runVars, closeVars, brokerVars
  <2>2. StepsInv'
    <3>1. CASE drain' # drain
      BY <1>7, <1>10, <3>1 DEF Run, DrainEnds, AfterDrain, CloseSettled, vars, runVars
    <3>2. CASE drain' = drain
      <4>1. UNCHANGED <<using, cur>> /\ aborted \subseteq aborted' /\ (closed => closer' # "none")
        BY <1>10 DEF Run, DrainEnds, CloseSettled, closed, vars, runVars, closeVars
      <4> QED BY <1>0, <2>1, <3>2, <4>1 DEF StepsInv, Aborted, closed
    <3> QED BY <3>1, <3>2
  <2> QED BY <1>0, <1>3, <2>1, <2>2 DEF Fine
<1>11. CASE (\E r \in Runs : Abort(r)) \/ CloseCalled
  <2>1. /\ UNCHANGED <<wire, broker, unclosed, drain, cur, using>> /\ Free
        /\ aborted \subseteq aborted' /\ (closed => closer' # "none")
    BY <1>11 DEF Abort, CloseCalled, closeVars, brokerVars, closed
  <2>2. CASE UNCHANGED sess
    <3>1. StepsInv'
      BY <1>0, <2>1, <2>2 DEF StepsInv, Aborted, closed
    <3> QED BY <1>0, <1>3, <2>1, <2>2, <3>1 DEF Fine
  <2>3. CASE /\ sess' = [sess EXCEPT ![using] = Poisoned(@)] /\ drain \in {"writing", "executing"}
             /\ cur \in aborted' \/ closer' # "none"
    <3>1. PICK t \in Runs : t = using
      BY <1>1, <2>3
    <3>2. sess' = [sess EXCEPT ![t] = Poisoned(sess[t])] /\ sess'[t] = Poisoned(sess[t])
      BY <1>0, <2>3, <3>1
    <3>3. EndsOnly(sess[t], sess'[t]) /\ Down(sess'[t])
      BY <1>0, <3>2, PoisonedEnds
    <3>4. Healthy(t)'
      BY <1>0, <3>3, HealthyEnds
    <3>5. \A s \in Runs : Healthy(s)'
      BY <1>6, <2>1, <3>2, <3>4
    <3>6. StepsInv'
      BY <2>1, <2>3 DEF StepsInv, Aborted, closed
    <3> QED BY <1>0, <2>1, <3>5, <3>6 DEF Fine
  <2> QED BY <1>11, <2>2, <2>3 DEF Abort, CloseCalled, AbortReaches
<1>12. CASE TakeNext
  <2>1. RetiredSessions \in SUBSET Runs
    BY DEF RetiredSessions, TypeOK
  <2> QED BY <1>5, <1>7, <1>12, <2>1 DEF TakeNext, brokerVars, Fine
<1>13. CASE Cleaned
  <2>1. Free /\ drain \notin {"writing", "executing"} /\ (session # NoRun => session \in Runs)
    BY <1>13 DEF Cleaned, TypeOK
  <2>2. CASE \E own : Open(own)
    BY <1>9, <2>1, <2>2
  <2>3. CASE session # NoRun /\ Goto("replacing", session, "none") /\ AwaitClosed({session})
    BY <1>5, <1>7, <2>1, <2>3 DEF Goto, brokerVars, Fine
  <2>4. CASE session # NoRun /\ Reusable(sess[session]) /\ Execute(session, sess[session])
    <3>1. sess[session].reusable
      BY <2>4 DEF Reusable, Looked
    <3> QED BY <2>1, <2>4, <3>1, ExecuteFine
  <2> QED BY <1>0, <1>13, <2>2, <2>3, <2>4 DEF Cleaned
<1>14. CASE Replaced
  BY <1>0, <1>9, <1>14 DEF Replaced
<1>15. CASE Spawned
  <2>1. using \in Runs /\ sess[using] = NewSession /\ Quiet(using)
    BY <1>1, <1>15 DEF Spawned, TurnInv, Untouched
  <2>2. sess' = [sess EXCEPT ![using] = [NewSession EXCEPT !.proc = "live"]] /\ UNCHANGED <<wire, broker, using, unclosed>>
    BY <1>0, <1>15, <2>1 DEF Spawned, closeVars, brokerVars
  <2>3. /\ sess'[using].proc = "live" /\ sess'[using].command = "none" /\ ~sess'[using].reusable
        /\ ~sess'[using].idle /\ ~sess'[using].life /\ sess'[using].parser = "preamble"
        /\ sess'[using].termination = "none"
    BY <1>0, <2>1, <2>2 DEF NewSession
  <2>4. Healthy(using)'
    BY <2>1, <2>2, <2>3 DEF Healthy, Quiet, HasActiveCommand
  <2>5. StepsInv'
    BY <1>15, <2>2, <2>3 DEF Spawned, StepsInv
  <2> QED BY <1>0, <1>6, <1>15, <2>1, <2>2, <2>4, <2>5 DEF Spawned, Fine
<1>16. CASE Started
  <2>1. using \in Runs /\ sess[using].parser = "idle" /\ sess[using].command = "none" /\ sess[using].termination = "none"
    BY <1>0, <1>1, <1>16 DEF Started, StepsInv
  <2>2. Quiet(using) /\ sess[using] \in SessionRecords /\ sess[using].proc # "ending"
    BY <1>0, <2>1 DEF Healthy, HasActiveCommand
  <2>3. /\ sess' = [sess EXCEPT ![using] = [sess[using] EXCEPT !.ready = TRUE, !.reusable = TRUE, !.life = TRUE]]
        /\ UNCHANGED <<wire, broker, using, unclosed>>
    BY <1>0, <1>16, <2>1 DEF Started, closeVars, brokerVars
  <2>4. /\ sess'[using].proc # "ending" /\ sess'[using].command = "none" /\ sess'[using].reusable
        /\ sess'[using].ready /\ sess'[using].parser = "idle" /\ sess'[using].termination = "none"
    BY <1>0, <2>1, <2>2, <2>3 DEF SessionRecords
  <2>5. Healthy(using)'
    BY <2>2, <2>3, <2>4 DEF Healthy, Quiet, HasActiveCommand
  <2>6. StepsInv'
    BY <1>16, <2>3, <2>4 DEF Started, StepsInv
  <2> QED BY <1>0, <1>6, <1>16, <2>1, <2>3, <2>5, <2>6 DEF Started, Fine
<1>17. CASE StartFails
  <2>1. using \in Runs /\ AwaitClosed({using}) /\ UNCHANGED <<wire, broker>> /\ Free
    BY <1>1, <1>17 DEF StartFails, Goto, brokerVars
  <2>2. sess[using].parser # "fatal"
    BY <1>0, <1>17 DEF StartFails, StepsInv, TurnInv, Untouched, NewSession
  <2>3. Aborted(cur) /\ drain' = "abandoning" /\ UNCHANGED <<cur, aborted, closer>>
    BY <1>17, <2>2 DEF StartFails, Goto
  <2>4. StepsInv'
    BY <2>3 DEF StepsInv, Aborted, closed
  <2> QED BY <1>5, <2>1, <2>4 DEF Fine
<1>18. CASE Abandoned \/ Discarded \/ Released \/ Retired \/ Failed
  BY <1>8, <1>18 DEF Abandoned, Discarded, Released, Retired, Failed
<1>19. CASE Opened
  <2>1. using \in Runs /\ drain \notin {"writing", "executing"} /\ sess[using].reusable
    BY <1>0, <1>1, <1>19 DEF Opened, StepsInv
  <2>2. CASE closed /\ Goto("discarding", using, "none") /\ AwaitClosed({using}) /\ UNCHANGED closer
    <3>1. StepsInv'
      BY <2>2 DEF Goto, StepsInv, closed
    <3> QED BY <1>5, <2>1, <2>2, <3>1 DEF Goto, brokerVars, Fine
  <2> QED BY <1>19, <2>1, <2>2, ExecuteFine DEF Opened
<1>20. CASE Written
  <2>1. using \in Runs /\ HasActiveCommand(sess[using]) /\ drain = "writing" /\ cur \in Runs
    BY <1>1, <1>20 DEF Written, TurnInv, Resting, TypeOK
  <2>2. /\ drain' = "executing" /\ broker' = [broker EXCEPT ![using] = [run |-> cur, left |-> MaxOutput]]
        /\ wire' = [wire EXCEPT ![using] = Append(@, [run |-> cur, kind |-> "BEGIN"])]
        /\ UNCHANGED <<sess, cur, using, unclosed, aborted, closer>>
    BY <1>20 DEF Written, closeVars
  <2>3. sess[using].command = "active" /\ Quiet(using)
    BY <1>0, <2>1 DEF Healthy
  <2>4. wire'[using] = <<[run |-> cur, kind |-> "BEGIN"]>> /\ broker'[using].run = cur
    BY <2>1, <2>2, <2>3 DEF Quiet, TypeOK
  <2>5. InOrder(using)'
    BY <2>2, <2>3, <2>4 DEF InOrder
  <2>6. Healthy(using)'
    BY <1>0, <2>1, <2>2, <2>5 DEF Healthy
  <2>7. ASSUME NEW s \in Runs, s # using
        PROVE  Healthy(s)'
    <3>1. ~HasActiveCommand(sess[s]) /\ wire'[s] = wire[s] /\ broker'[s] = broker[s]
      BY <2>2, <2>7 DEF CommandInv, TypeOK
    <3> QED BY <1>0, <2>2, <3>1, HealthyKept
  <2>8. StepsInv'
    BY <2>2, <2>3 DEF StepsInv
  <2> QED BY <1>0, <2>2, <2>6, <2>7, <2>8 DEF Fine
<1>21. CASE Completed
  <2>1. using \in Runs /\ ~HasActiveCommand(sess[using]) /\ Free
    BY <1>1, <1>21 DEF Completed, HasActiveCommand
  <2>2. ASSUME AwaitClosed({using}), drain' \in {"finishing", "retiring"}, UNCHANGED <<wire, broker>>
        PROVE  Fine'
    BY <1>5, <1>7, <2>1, <2>2 DEF Fine
  <2>3. CASE sess' = [sess EXCEPT ![using] = IdleScheduled(sess[using])] /\ Finish("completed", owned, session) /\ NoWait
    <3>0. PICK t \in Runs : t = using
      BY <2>1
    <3>1. /\ sess' = [sess EXCEPT ![t] = IdleScheduled(sess[t])]
          /\ sess'[t].proc = sess[t].proc /\ sess'[t].command = sess[t].command
          /\ sess'[t].reusable = sess[t].reusable /\ sess'[t].ready = sess[t].ready
          /\ sess'[t].parser = sess[t].parser /\ sess'[t].termination = sess[t].termination
          /\ Healthy(t) /\ sess'[t].proc # "ending"
      BY <1>0, <2>3, <3>0 DEF IdleScheduled, SessionRecords
    <3>2. UNCHANGED <<wire, broker, unclosed>> /\ drain' = "next"
      BY <2>3 DEF Finish, NoWait, brokerVars
    <3>3. Healthy(t)'
      BY <2>1, <3>0, <3>1, <3>2, HealthyKept
    <3>4. \A s \in Runs : Healthy(s)'
      BY <1>6, <2>1, <3>1, <3>2, <3>3
    <3>5. StepsInv'
      BY <1>7, <3>2
    <3> QED BY <1>0, <3>2, <3>4, <3>5 DEF Fine
  <2> QED BY <1>21, <2>2, <2>3 DEF Completed, Goto, brokerVars
<1>22. CASE Finished
  BY <1>0, <1>8, <1>22 DEF Finished
<1>23. CASE CommandFails
  <2>1. using \in Runs /\ sess[using].command = "rejected" /\ Aborted(cur) /\ Free
    BY <1>0, <1>1, <1>23 DEF CommandFails, Healthy, StepsInv, HasActiveCommand
  <2>2. drain' = "failing" /\ AwaitEnd(using) /\ UNCHANGED <<wire, broker, cur, aborted, closer>>
    BY <1>23 DEF CommandFails, Goto, brokerVars
  <2>3. StepsInv'
    BY <2>1, <2>2 DEF StepsInv, Aborted, closed
  <2> QED BY <1>4, <2>1, <2>2, <2>3, AwaitEndEnds DEF Fine
<1>24. CASE CloseSessions
  <2>1. owned \in SUBSET Runs /\ AwaitClosed(owned) /\ UNCHANGED <<wire, broker, drain, cur>> /\ drain \in {"none", "ending"}
    BY <1>24 DEF CloseSessions, brokerVars, TypeOK
  <2> QED BY <1>5, <1>7, <2>1 DEF Fine
<1>25. CASE \E s \in Runs : Session(s) \/ Broker(s)
  BY <1>25, OutsideFine
<1> QED BY <1>10, <1>11, <1>12, <1>13, <1>14, <1>15, <1>16, <1>17, <1>18, <1>19, <1>20, <1>21, <1>22, <1>23,
           <1>24, <1>25 DEF Next, Executor
LEMMA NotLostStep ==
    ASSUME TypeOK, Fine, [Next]_vars, ~Trouble, NEW r \in Runs, answer[r] \in {"none", "completed"} \/ Aborted(r)
    PROVE  answer'[r] \in {"none", "completed"} \/ Aborted(r)'
<1> USE DEF Sessions
<1>0. unclosed = {} /\ StepsInv /\ answer \in [Runs -> {"none", "aborted", "rejected", "failed", "completed"}]
  BY DEF Fine, TypeOK
<1>1. ASSUME aborted \subseteq aborted', closed => closer' # "none"
      PROVE  Aborted(r) => Aborted(r)'
  BY <1>1 DEF Aborted, closed
<1>2. ASSUME UNCHANGED <<answer, aborted, closer>>
      PROVE  answer'[r] \in {"none", "completed"} \/ Aborted(r)'
  BY <1>2 DEF Aborted, closed
\* The run under way is completed, or it was aborted.
<1>3. ASSUME NEW how, NEW own, NEW s, Finish(how, own, s), UNCHANGED closer, how = "completed" \/ Aborted(cur)
      PROVE  answer'[r] \in {"none", "completed"} \/ Aborted(r)'
  <2>1. answer' = [answer EXCEPT ![cur] = how] /\ UNCHANGED <<aborted, closer>>
    BY <1>3 DEF Finish, Answered
  <2>2. Aborted(r) => Aborted(r)'
    BY <2>1 DEF Aborted, closed
  <2>3. CASE r = cur
    BY <1>0, <1>3, <2>1, <2>2, <2>3
  <2>4. CASE r # cur
    BY <1>0, <2>1, <2>2, <2>4
  <2> QED BY <2>3, <2>4
<1>4. CASE \E q \in Runs : Run(q)
  <2>1. PICK q \in Runs : Run(q)
    BY <1>4
  <2>2. UNCHANGED closer /\ aborted \subseteq aborted'
    BY <2>1 DEF Run, closeVars
  <2>3. UNCHANGED answer \/ (answer' = [answer EXCEPT ![q] = "rejected"] /\ closed)
        \/ (answer' = [answer EXCEPT ![q] = "aborted"] /\ q \in aborted')
    BY <2>1 DEF Run, Answered
  <2> QED BY <1>0, <1>1, <2>2, <2>3 DEF Aborted, closed
<1>5. CASE \E q \in Runs : Abort(q)
  <2>1. PICK q \in Runs : Abort(q)
    BY <1>5
  <2>2. UNCHANGED closer /\ aborted' = aborted \cup {q}
        /\ (UNCHANGED answer \/ answer' = [answer EXCEPT ![q] = "aborted"])
    BY <2>1 DEF Abort, Answered, closeVars
  <2>3. Aborted(r) => Aborted(r)'
    BY <1>1, <2>2 DEF closed
  <2>4. q \in aborted' => Aborted(q)'
    BY DEF Aborted
  <2> QED BY <1>0, <2>2, <2>3, <2>4
<1>6. CASE CloseCalled
  BY <1>6 DEF CloseCalled, Aborted, closed
<1>7. CASE Cleaned
  BY <1>0, <1>2, <1>7 DEF Cleaned, Open, Goto, Execute, NoWait
<1>8. CASE Replaced \/ Opened
  BY <1>0, <1>2, <1>8 DEF Replaced, Opened, Open, Goto, Execute, NoWait
<1>9. CASE Abandoned \/ Failed
  <2>1. Finish(Outcome, owned \ {using}, session) \/ Finish(Outcome, owned \ {using}, NoRun)
    BY <1>0, <1>9 DEF Abandoned, Failed
  <2>2. Aborted(cur) /\ UNCHANGED closer
    BY <1>0, <1>9 DEF Abandoned, Failed, StepsInv, NoWait
  <2> QED BY <1>3, <2>1, <2>2
<1>10. CASE Discarded
  BY <1>0, <1>3, <1>10 DEF Discarded, StepsInv, NoWait, Aborted
<1>11. CASE Released
  BY <1>0, <1>11 DEF Released, StepsInv
<1>12. CASE Completed \/ Finished
  BY <1>0, <1>2, <1>3, <1>12 DEF Completed, Finished, Goto, NoWait
<1>13. CASE Retired
  BY <1>0, <1>3, <1>13 DEF Retired, NoWait
<1>14. CASE TakeNext \/ DrainEnds \/ Spawned \/ Started \/ StartFails \/ Written \/ CommandFails \/ UNCHANGED vars
  <2>1. CASE TakeNext \/ DrainEnds \/ Spawned \/ Started
    BY <1>2, <2>1 DEF TakeNext, DrainEnds, Spawned, Started, Goto, closeVars, runVars
  <2>2. CASE StartFails \/ Written \/ CommandFails \/ UNCHANGED vars
    BY <1>2, <2>2 DEF StartFails, Written, CommandFails, Goto, closeVars, runVars, vars
  <2> QED BY <1>14, <2>1, <2>2
<1>15. CASE CloseSessions \/ CloseSettled
  <2>1. UNCHANGED <<answer, aborted>> /\ closer' # "none"
    BY <1>15 DEF CloseSessions, CloseSettled
  <2> QED BY <2>1 DEF Aborted, closed
<1>16. CASE \E s \in Runs : Session(s) \/ Broker(s)
  <2>1. UNCHANGED <<answer, aborted, closer>>
    BY <1>16, OutsideFrame DEF runVars
  <2> QED BY <1>2, <2>1
<1> QED BY <1>4, <1>5, <1>6, <1>7, <1>8, <1>9, <1>10, <1>11, <1>12, <1>13, <1>14, <1>15, <1>16 DEF Next, Executor

----------------------------------------------------------------------------
(* Runs are apart.                                                         *)

ApartInv == EndFrames /\ ResultInv /\ LossInv /\ RunsAreApart

LEMMA ApartInit == Init => ApartInv
<1> SUFFICES ASSUME Init PROVE ApartInv
  OBVIOUS
<1> USE DEF Init, Sessions
<1>1. EndFrames /\ ResultInv
  BY DEF EndFrames, ResultInv
<1>2. \A s \in Runs : Healthy(s)
  BY DEF Healthy, NewSession, HasActiveCommand, Quiet
<1>3. LossInv
  BY <1>2 DEF LossInv, Fine, StepsInv
<1>4. RunsAreApart
  BY DEF RunsAreApart, AnswerIsOwn, NoCommandLost
<1> QED BY <1>1, <1>3, <1>4 DEF ApartInv

LEMMA ApartStep == SafeInv /\ ApartInv /\ [Next]_vars => ApartInv'
<1> SUFFICES ASSUME SafeInv, ApartInv, [Next]_vars PROVE ApartInv'
  OBVIOUS
<1>1. TypeOK /\ TurnInv /\ CommandInv /\ EndFrames /\ ResultInv /\ LossInv /\ AnswerIsOwn /\ NoCommandLost
  BY DEF SafeInv, ApartInv, RunsAreApart
<1>2. EndFrames' /\ ResultInv' /\ AnswerIsOwn'
  BY <1>1, EndFramesStep, ResultStep, OwnStep
<1>3. CASE troubles' # 0
  BY <1>2, <1>3 DEF ApartInv, LossInv, RunsAreApart, NoCommandLost
<1>4. CASE troubles' = 0
  <2>1. troubles = 0 /\ ~Trouble
    BY <1>1, <1>4, TroublesGrow DEF TypeOK
  <2>2. Fine
    BY <1>1, <2>1 DEF LossInv
  <2>3. Fine'
    BY <1>1, <2>1, <2>2, FineStep
  <2>4. \A r \in Runs : answer'[r] \in {"none", "completed"} \/ Aborted(r)'
    BY <1>1, <2>1, <2>2, NotLostStep DEF NoCommandLost
  <2> QED BY <1>2, <2>3, <2>4 DEF ApartInv, LossInv, RunsAreApart, NoCommandLost
<1> QED BY <1>3, <1>4

\* However runs share sessions, are aborted and close() is called: a run is completed only
\* when its own command has ended at the target, its sink gets its own output only, and as
\* long as nothing outside goes wrong no timer, replacement or abort of another run costs
\* it its command (PersistentProtocolParser, the idle and the lifetime timer, #execute).
THEOREM SharedWithoutTrace == Spec => []RunsAreApart
<1>1. Init => SafeInv /\ ApartInv
  BY SafeInit, ApartInit
<1>2. SafeInv /\ ApartInv /\ [Next]_vars => (SafeInv /\ ApartInv)'
  BY SafeStep, ApartStep
<1>3. ApartInv => RunsAreApart
  BY DEF ApartInv
<1> QED BY <1>1, <1>2, <1>3, PTL DEF Spec
=============================================================================
