------------------------ MODULE PuttySharedExecutor ------------------------
(***************************************************************************)
(* Commands over one persistent plink session (src/infra/                  *)
(* putty-shared-executor.ts): PuttySharedExecutor queues runs and executes *)
(* them one at a time, PuttyPersistentSession owns a process with an idle  *)
(* and a lifetime timer, PersistentProtocolParser matches the frames that  *)
(* the broker at the target sends against the one active command.          *)
(*                                                                         *)
(* An error anywhere in a session poisons it: it is terminated and another *)
(* one is opened for the next command.  A run opens at most one session,   *)
(* so a session is named by the run that opened it.                        *)
(***************************************************************************)
EXTENDS Naturals, Sequences, FiniteSets, SequencesExt

CONSTANTS
    Runs,                   \* calls of run()
    NoRun,
    MaxTroubles,            \* bound: what processes, the target and sinks do wrong
    MaxOutput               \* bound: output frames of a command

ASSUME PuttyAssumption == NoRun \notin Runs /\ MaxTroubles \in Nat /\ MaxOutput \in Nat

Sessions == Runs

VARIABLES
    queue,                  \* #queue
    state,                  \* "new", "queued", "active" or "answered"
    answer,                 \* what the promise of run() was settled with
    aborted,                \* runs whose own signal is aborted
    drain,                  \* where #drainQueue stands
    cur,                    \* the run it executes
    error,                  \* how that run is answered unless it was aborted
    session,                \* #session
    using,                  \* the session of the run under way
    owned,                  \* #ownedSessions
    closer,                 \* where close() stands
    waiting,                \* sessions whose termination is awaited
    unclosed,               \* those of them that could not be terminated
    sess,                   \* PuttyPersistentSession and its parser
    wire,                   \* frames on their way from the broker
    broker,                 \* the command the broker executes, and the output left
    finished,               \* runs whose command has ended at the target
    output,                 \* output[r]: whose output the sink of r was given
    troubles

runVars == <<queue, state, answer, drain, cur, error, session, using, owned>>
closeVars == <<closer, waiting, unclosed>>
brokerVars == <<wire, broker, finished, output>>
vars == <<runVars, aborted, closeVars, sess, brokerVars, troubles>>

\* proc "ending": stdout has ended, the process was not collected yet.
\* command: what became of the last command; sink: an append to its sink is pending.
NewSession ==
    [proc |-> "none", parser |-> "preamble", command |-> "none", sink |-> FALSE,
     ready |-> FALSE, reusable |-> FALSE, retired |-> FALSE, fatal |-> FALSE,
     idle |-> FALSE, life |-> FALSE, aged |-> FALSE, termination |-> "none"]

Init ==
    /\ queue = <<>> /\ state = [r \in Runs |-> "new"] /\ answer = [r \in Runs |-> "none"]
    /\ drain = "none" /\ cur = NoRun /\ error = "none"
    /\ session = NoRun /\ using = NoRun /\ owned = {} /\ aborted = {}
    /\ closer = "none" /\ waiting = {} /\ unclosed = {}
    /\ sess = [s \in Sessions |-> NewSession]
    /\ wire = [s \in Sessions |-> <<>>] /\ broker = [s \in Sessions |-> [run |-> NoRun, left |-> 0]]
    /\ finished = {} /\ output = [r \in Runs |-> {}] /\ troubles = 0

closed == closer # "none"

\* A run under way has the signal of its caller and that of the executor's lifetime.
Aborted(r) == r \in aborted \/ closed

Calm == UNCHANGED troubles
Trouble == troubles < MaxTroubles /\ troubles' = troubles + 1

----------------------------------------------------------------------------
(* PuttyPersistentSession: what its methods make of its fields.            *)

HasActiveCommand(x) == x.command \in {"active", "began"}

\* PersistentProtocolParser.fail: aborts a pending append and rejects the command.
ParserFailed(x) ==
    IF x.parser = "fatal" THEN x
    ELSE [x EXCEPT !.parser = "fatal", !.sink = FALSE,
                   !.command = IF HasActiveCommand(x) THEN "rejected" ELSE @]

TimersCleared(x) == [x EXCEPT !.idle = FALSE, !.life = FALSE]

\* #terminate, memoized until it fails; without a process there is nothing to do.
Terminated(x) ==
    IF x.termination # "none" THEN x
    ELSE [TimersCleared(x) EXCEPT !.termination = IF x.proc = "none" THEN "done" ELSE "pending"]

\* #poison: the first error counts.
Poisoned(x) ==
    IF x.fatal THEN x
    ELSE Terminated(ParserFailed([x EXCEPT !.fatal = TRUE, !.ready = FALSE, !.reusable = FALSE]))

\* close()
Closed(x) == Terminated(ParserFailed([TimersCleared(x) EXCEPT !.reusable = FALSE, !.retired = TRUE]))

\* The getter "reusable" retires a session that has reached its maximum lifetime.
Looked(x) ==
    IF ~(x.reusable /\ x.aged) THEN x
    ELSE IF HasActiveCommand(x) THEN [x EXCEPT !.retired = TRUE]
    ELSE Closed(x)

Reusable(x) == Looked(x).reusable /\ ~Looked(x).retired

\* Mutant: the idle timer runs on.
CommandBegunIdling(x) == [x EXCEPT !.command = "active"]

\* beginCommand
CommandBegun(x) == [x EXCEPT !.idle = FALSE, !.command = "active"]

\* The sessions of S are now as in after, and their termination is awaited.
Await(S, after) ==
    /\ sess' = after
    /\ waiting' = {s \in S : after[s].termination = "pending"}
    /\ unclosed' = {}

\* #closeSessions, #closeOwnedSession
AwaitClosed(S) == Await(S, [s \in Sessions |-> IF s \in S THEN Closed(sess[s]) ELSE sess[s]])

\* The end of a session that failed a command.
AwaitEnd(s) == Await({s}, [sess EXCEPT ![s] = Terminated(Poisoned(@))])

NoWait == UNCHANGED <<waiting, unclosed, closer>>
Settled == waiting = {}

----------------------------------------------------------------------------
(* run(), the queue and its aborts.                                        *)

Answered(r, how) ==
    /\ state' = [state EXCEPT ![r] = "answered"]
    /\ answer' = [answer EXCEPT ![r] = how]

\* run(), with ensureDrain
Run(r) ==
    /\ state[r] = "new"
    /\ \/ closed /\ Answered(r, "rejected") /\ UNCHANGED <<queue, drain, aborted>>
       \/ /\ ~closed                           \* called with an aborted signal
          /\ Answered(r, "aborted") /\ aborted' = aborted \cup {r}
          /\ UNCHANGED <<queue, drain>>
       \/ /\ ~closed
          /\ queue' = Append(queue, r)
          /\ state' = [state EXCEPT ![r] = "queued"]
          /\ drain' = IF drain = "none" THEN "next" ELSE drain
          /\ UNCHANGED <<answer, aborted>>
    /\ UNCHANGED <<cur, error, session, using, owned, closeVars, sess, brokerVars, troubles>>

\* An abort in execute(): a command that has not completed poisons its session.
AbortReaches(r) ==
    /\ r = cur /\ drain \in {"writing", "executing"}
    /\ HasActiveCommand(sess[using])

\* The caller's signal: a queued run leaves the queue, an active one may be torn down.
Abort(r) ==
    /\ state[r] \in {"queued", "active"} /\ r \notin aborted
    /\ aborted' = aborted \cup {r}
    /\ IF state[r] = "queued"
       THEN /\ \E i \in DOMAIN queue : queue[i] = r /\ queue' = RemoveAt(queue, i)
            /\ Answered(r, "aborted")
       ELSE UNCHANGED <<queue, state, answer>>
    /\ sess' = IF AbortReaches(r) THEN [sess EXCEPT ![using] = Poisoned(@)] ELSE sess
    /\ UNCHANGED <<drain, cur, error, session, using, owned, closeVars, brokerVars, troubles>>

\* Mutant: a session that could not be closed is left to itself.
NoneRetired == {}

\* #closeRetiredSessions
RetiredSessions == owned \ {session}

\* #drainQueue goes on to the next run; #execute first closes what earlier runs left.
TakeNext ==
    /\ drain = "next" /\ ~closed /\ queue # <<>>
    /\ cur' = Head(queue) /\ queue' = Tail(queue)
    /\ state' = [state EXCEPT ![Head(queue)] = "active"]
    /\ drain' = "cleaning"
    /\ AwaitClosed(RetiredSessions) /\ UNCHANGED closer
    /\ UNCHANGED <<answer, error, session, using, owned, aborted, brokerVars, troubles>>

\* Mutant: the drain that has ended is not followed by another one.
AfterDrainNothing == "none"

\* ensureDrain: runs queued while the drain was settling get another one.
AfterDrain == IF ~closed /\ queue # <<>> THEN "next" ELSE "none"

DrainEnds ==
    /\ \/ drain = "next" /\ (closed \/ queue = <<>>) /\ drain' = "ending"
       \/ drain = "ending" /\ drain' = AfterDrain
    /\ UNCHANGED <<queue, state, answer, cur, error, session, using, owned>>
    /\ UNCHANGED <<aborted, closeVars, sess, brokerVars, troubles>>

----------------------------------------------------------------------------
(* #execute: each step ends at an await or answers the run.                *)

\* The run is answered; own and current are #ownedSessions and #session then.
Finish(how, own, current) ==
    /\ Answered(cur, how)
    /\ owned' = own /\ session' = current
    /\ cur' = NoRun /\ using' = NoRun /\ error' = "none" /\ drain' = "next"
    /\ UNCHANGED <<queue, aborted, brokerVars, troubles>>

Goto(step, s, err) ==
    /\ drain' = step /\ using' = s /\ error' = err
    /\ UNCHANGED <<queue, state, answer, cur, aborted, brokerVars>>

\* The outcome of a run that ended with an error.
Outcome == IF Aborted(cur) THEN "aborted" ELSE error

\* open(): the session is owned before anything of it can fail.
Open(own) ==
    /\ Goto("spawning", cur, "none")
    /\ owned' = own \cup {cur} /\ session' = NoRun
    /\ UNCHANGED <<sess, waiting, unclosed, closer, troubles>>

\* session.execute() up to its first await, x being the session.  It refuses a
\* session that is not ready and a parser that has ended; those are closed.
Execute(s, x) ==
    /\ UNCHANGED <<owned, troubles>>
    /\ \/ /\ x.ready /\ x.reusable /\ x.parser = "idle"
          /\ sess' = [sess EXCEPT ![s] = IF Aborted(cur) THEN Poisoned(CommandBegun(x)) ELSE CommandBegun(x)]
          /\ Goto("writing", s, "none")
          /\ session' = s /\ NoWait
       \/ /\ ~(x.ready /\ x.reusable /\ x.parser = "idle")
          /\ AwaitClosed({s}) /\ UNCHANGED closer
          /\ Goto("releasing", s, IF x.ready /\ x.reusable THEN "rejected" ELSE "failed")
          /\ session' = NoRun

Cleaned ==
    LET own == (owned \cap {session}) \cup unclosed
    IN  /\ drain = "cleaning" /\ Settled
        /\ \/ unclosed # {} /\ Finish("rejected", own, session) /\ NoWait /\ UNCHANGED sess
           \/ unclosed = {} /\ session = NoRun /\ Open({})
           \/ /\ unclosed = {} /\ session # NoRun /\ ~Reusable(sess[session])
              /\ Goto("replacing", session, "none")
              /\ session' = NoRun /\ owned' = own /\ Calm
              /\ AwaitClosed({session}) /\ UNCHANGED closer
           \/ /\ unclosed = {} /\ session # NoRun /\ Reusable(sess[session])
              /\ Execute(session, sess[session])

Replaced ==
    /\ drain = "replacing" /\ Settled
    /\ \/ unclosed # {} /\ Finish("rejected", owned, NoRun) /\ NoWait /\ UNCHANGED sess
       \/ unclosed = {} /\ Open(owned \ {using})

\* #start: the process is spawned, and the parser sees READY.
Spawned ==
    /\ drain = "spawning"
    /\ sess' = [sess EXCEPT ![using].proc = "live"]
    /\ drain' = "starting"
    /\ UNCHANGED <<queue, state, answer, cur, error, session, using, owned>>
    /\ UNCHANGED <<aborted, closeVars, brokerVars, troubles>>

ReadyArrives(s) ==
    /\ sess[s].proc = "live" /\ sess[s].parser = "preamble"
    /\ sess' = [sess EXCEPT ![s].parser = "idle"]
    /\ UNCHANGED <<runVars, aborted, closeVars, brokerVars, troubles>>

Started ==
    /\ drain = "starting" /\ sess[using].parser = "idle"
    /\ sess' = [sess EXCEPT ![using].ready = TRUE, ![using].reusable = TRUE, ![using].life = TRUE]
    /\ drain' = "opened"
    /\ UNCHANGED <<queue, state, answer, cur, error, session, using, owned>>
    /\ UNCHANGED <<aborted, closeVars, brokerVars, troubles>>

\* #start rejects, and open() closes the session: aborted, timed out, not spawned,
\* another host, or the process ended or wrote nonsense before READY.
StartFails ==
    /\ drain \in {"spawning", "starting"}
    /\ \/ Aborted(cur) /\ Calm /\ Goto("abandoning", using, "failed")
       \/ Trouble /\ Goto("abandoning", using, "failed")
       \/ drain = "spawning" /\ Trouble /\ Goto("abandoning", using, "rejected")
       \/ /\ sess[using].parser = "fatal" /\ Calm
          /\ Goto("abandoning", using, IF sess[using].fatal THEN "rejected" ELSE "failed")
    /\ AwaitClosed({using}) /\ UNCHANGED closer
    /\ UNCHANGED <<session, owned>>

\* Steps that await a close and then answer: with a session that could not be closed
\* the run is rejected, and the session stays owned to be closed later.
Abandoned ==
    /\ drain = "abandoning" /\ Settled
    /\ \/ unclosed # {} /\ Finish("rejected", owned, session)
       \/ unclosed = {} /\ Finish(Outcome, owned \ {using}, session)
    /\ NoWait /\ UNCHANGED sess

Opened ==
    /\ drain = "opened"
    /\ \/ /\ closed
          /\ Goto("discarding", using, "none")
          /\ AwaitClosed({using}) /\ UNCHANGED closer
          /\ UNCHANGED <<session, owned, troubles>>
       \/ ~closed /\ Execute(using, sess[using])

Discarded ==
    /\ drain = "discarding" /\ Settled
    /\ Finish("aborted", owned \ ({using} \ unclosed), session)
    /\ NoWait /\ UNCHANGED sess

Released ==
    /\ drain = "releasing" /\ Settled
    /\ \/ unclosed # {} /\ Finish("rejected", owned, session)
       \/ unclosed = {} /\ Finish(Outcome, owned \ {using}, session)
    /\ NoWait /\ UNCHANGED sess

\* The frame is written, or the pipe fails.
Written ==
    /\ drain = "writing" /\ HasActiveCommand(sess[using])
    /\ \/ /\ sess[using].proc = "live" /\ drain' = "executing" /\ Calm
          /\ broker' = [broker EXCEPT ![using] = [run |-> cur, left |-> MaxOutput]]
          /\ wire' = [wire EXCEPT ![using] = Append(@, [run |-> cur, kind |-> "BEGIN"])]
          /\ UNCHANGED sess
       \/ /\ Trouble
          /\ sess' = [sess EXCEPT ![using] = Poisoned(@)]
          /\ UNCHANGED <<drain, broker, wire>>
    /\ UNCHANGED <<queue, state, answer, cur, error, session, using, owned, finished, output>>
    /\ UNCHANGED <<aborted, closeVars>>

\* #scheduleIdleTimer
IdleScheduled(x) == [x EXCEPT !.idle = x.reusable /\ ~x.retired]

\* END was accepted: a retired session is closed first, one found too old afterwards.
Completed ==
    LET x == sess[using]
    IN  /\ drain = "executing" /\ x.command = "completed" /\ Calm
        /\ \/ /\ x.retired
              /\ Goto("finishing", using, "none")
              /\ AwaitClosed({using}) /\ UNCHANGED closer
              /\ UNCHANGED <<session, owned>>
           \/ /\ ~x.retired /\ Reusable(IdleScheduled(x))
              /\ sess' = [sess EXCEPT ![using] = IdleScheduled(x)]
              /\ Finish("completed", owned, session) /\ NoWait
           \/ /\ ~x.retired /\ ~Reusable(IdleScheduled(x))
              /\ Goto("retiring", using, "none")
              /\ AwaitClosed({using}) /\ UNCHANGED closer
              /\ session' = NoRun /\ UNCHANGED owned

Finished ==
    /\ drain = "finishing" /\ Settled
    /\ \/ unclosed = {} /\ Finish("completed", owned \ {using}, NoRun) /\ NoWait /\ UNCHANGED sess
       \/ /\ unclosed # {} /\ Calm
          /\ Goto("failing", using, "rejected")
          /\ AwaitEnd(using) /\ UNCHANGED closer
          /\ UNCHANGED <<session, owned>>

Retired ==
    /\ drain = "retiring" /\ Settled
    /\ \/ unclosed = {} /\ Finish("completed", owned \ {using}, session)
       \/ unclosed # {} /\ Finish(IF Aborted(cur) THEN "aborted" ELSE "rejected", owned, session)
    /\ NoWait /\ UNCHANGED sess

\* The command was rejected: execute() poisons the session and awaits its end.
CommandFails ==
    /\ drain \in {"writing", "executing"} /\ sess[using].command \in {"rejected", "undelivered"}
    /\ Goto("failing", using, IF sess[using].command = "undelivered" THEN "rejected" ELSE "failed")
    /\ AwaitEnd(using) /\ UNCHANGED closer
    /\ Calm /\ UNCHANGED <<session, owned>>

Failed ==
    /\ drain = "failing" /\ Settled
    /\ \/ unclosed # {} /\ Finish("rejected", owned, session)
       \/ unclosed = {} /\ Finish(Outcome, owned \ {using}, NoRun)
    /\ NoWait /\ UNCHANGED sess

----------------------------------------------------------------------------
(* close(); one that failed may be called again.                           *)

CloseCalled ==
    /\ closer \in {"none", "failed"}
    /\ closer' = "draining"
    /\ queue' = <<>>
    /\ state' = [r \in Runs |-> IF state[r] = "queued" THEN "answered" ELSE state[r]]
    /\ answer' = [r \in Runs |-> IF state[r] = "queued" THEN "rejected" ELSE answer[r]]
    /\ sess' = IF cur # NoRun /\ AbortReaches(cur) THEN [sess EXCEPT ![using] = Poisoned(@)] ELSE sess
    /\ UNCHANGED <<drain, cur, error, session, using, owned, waiting, unclosed>>
    /\ UNCHANGED <<aborted, brokerVars, troubles>>

CloseSessions ==
    /\ closer = "draining" /\ drain \in {"none", "ending"}
    /\ AwaitClosed(owned)
    /\ closer' = "closing" /\ session' = NoRun
    /\ UNCHANGED <<queue, state, answer, drain, cur, error, using, owned>>
    /\ UNCHANGED <<aborted, brokerVars, troubles>>

CloseSettled ==
    /\ closer = "closing" /\ Settled
    /\ closer' = IF unclosed = {} THEN "closed" ELSE "failed"
    /\ owned' = unclosed
    /\ UNCHANGED <<queue, state, answer, drain, cur, error, session, using, waiting, unclosed>>
    /\ UNCHANGED <<aborted, sess, brokerVars, troubles>>

----------------------------------------------------------------------------
(* Timers and the end of the process.                                      *)

SessionOnly == UNCHANGED <<runVars, aborted, closeVars, brokerVars>>
Becomes(s, x) == sess' = [sess EXCEPT ![s] = x]

\* maxLifetimeMs have passed since the session was created.
Ages(s) ==
    /\ sess[s].reusable /\ ~sess[s].aged
    /\ Becomes(s, [sess[s] EXCEPT !.aged = TRUE]) /\ Calm /\ SessionOnly

\* The drain is to be continued by a microtask, which runs before any timer does.
Continuing ==
    \/ drain \in {"next", "ending", "opened"}
    \/ drain = "executing" /\ ~HasActiveCommand(sess[using])
    \/ drain \in {"cleaning", "replacing", "abandoning", "discarding", "releasing",
                  "finishing", "retiring", "failing"} /\ Settled

IdleTimeout(s) ==
    /\ sess[s].idle /\ ~Continuing
    /\ Becomes(s, Terminated(ParserFailed([sess[s] EXCEPT !.reusable = FALSE])))
    /\ Calm /\ SessionOnly

LifetimeTimeout(s) ==
    LET x == [sess[s] EXCEPT !.retired = TRUE, !.life = FALSE]
    IN  /\ sess[s].life /\ sess[s].aged /\ ~Continuing
        /\ Becomes(s, IF HasActiveCommand(x) THEN x
                      ELSE Terminated(ParserFailed([x EXCEPT !.reusable = FALSE])))
        /\ Calm /\ SessionOnly

\* #monitorProcess.  The age of a session that cannot be reused is never looked at.
Collected(x) ==
    [TimersCleared(ParserFailed(x)) EXCEPT !.proc = "dead", !.aged = FALSE,
                                           !.ready = FALSE, !.reusable = FALSE]

\* Nothing more comes from the broker.
Disconnected(s) ==
    /\ wire' = [wire EXCEPT ![s] = <<>>]
    /\ broker' = [broker EXCEPT ![s] = [run |-> NoRun, left |-> 0]]

\* The process tree is gone and both pumps have ended, or could not be killed.
TerminationEnds(s) ==
    /\ sess[s].termination = "pending"
    /\ waiting' = waiting \ {s}
    /\ \/ /\ ~sess[s].sink /\ Calm
          /\ Becomes(s, [Collected(sess[s]) EXCEPT !.termination = "done"])
          /\ Disconnected(s)
          /\ UNCHANGED unclosed
       \/ /\ sess[s].proc # "dead" /\ Trouble
          /\ Becomes(s, [sess[s] EXCEPT !.termination = "none"])
          /\ unclosed' = unclosed \cup ({s} \cap waiting)
          /\ UNCHANGED <<wire, broker>>
    /\ UNCHANGED <<runVars, aborted, closer, finished, output>>

\* plink ends by itself: stdout ends first (endOfStream), then the process is collected.
ProcessEnds(s) ==
    /\ \/ /\ sess[s].proc = "live" /\ sess[s].termination = "none" /\ Trouble
          /\ Becomes(s, [ParserFailed(sess[s]) EXCEPT !.proc = "ending"])
       \/ sess[s].proc = "ending" /\ Calm /\ Becomes(s, Collected(sess[s]))
    /\ Disconnected(s)
    /\ UNCHANGED <<runVars, aborted, closeVars, finished, output>>

----------------------------------------------------------------------------
(* The broker, and the parser that reads what it sends.                    *)

BrokerSends(s, f) ==
    /\ sess[s].proc = "live" /\ sess[s].parser = "idle"     \* else nobody listens
    /\ wire' = [wire EXCEPT ![s] = Append(@, f)]
    /\ UNCHANGED <<runVars, aborted, closeVars, sess, output>>

BrokerOutputs(s) ==
    /\ broker[s].left > 0
    /\ broker' = [broker EXCEPT ![s].left = @ - 1]
    /\ BrokerSends(s, [run |-> broker[s].run, kind |-> "OUT"])
    /\ UNCHANGED <<finished, troubles>>

BrokerEnds(s) ==
    /\ broker[s].run # NoRun
    /\ broker' = [broker EXCEPT ![s] = [run |-> NoRun, left |-> 0]]
    /\ finished' = finished \cup {broker[s].run}
    /\ BrokerSends(s, [run |-> broker[s].run, kind |-> "END"])
    /\ UNCHANGED troubles

\* __ash_fatal: the frame was refused, or the command could not be run.
BrokerFatal(s) ==
    /\ broker[s].run # NoRun /\ Trouble
    /\ broker' = [broker EXCEPT ![s] = [run |-> NoRun, left |-> 0]]
    /\ BrokerSends(s, [run |-> NoRun, kind |-> "FATAL"])
    /\ UNCHANGED finished

\* Something of an earlier command comes again or late.
BrokerRepeats(s, r, kind) ==
    /\ r \in finished /\ Trouble
    /\ BrokerSends(s, [run |-> r, kind |-> kind])
    /\ UNCHANGED <<broker, finished>>

\* The frame starts with the prefix of the active command.
HasPrefix(f) == f.run = cur

\* #acceptLine
Accept(s) ==
    LET x == sess[s]  f == Head(wire[s])
        fits == HasActiveCommand(x) /\ HasPrefix(f)
                /\ (f.kind = "BEGIN" <=> x.command = "active")
    IN  /\ wire[s] # <<>> /\ x.parser = "idle" /\ ~x.sink
        /\ wire' = [wire EXCEPT ![s] = Tail(@)]
        /\ \/ ~fits /\ Becomes(s, Poisoned(x)) /\ UNCHANGED output
           \/ fits /\ f.kind = "BEGIN" /\ Becomes(s, [x EXCEPT !.command = "began"]) /\ UNCHANGED output
           \/ fits /\ f.kind = "END" /\ Becomes(s, [x EXCEPT !.command = "completed"]) /\ UNCHANGED output
           \/ /\ fits /\ f.kind = "OUT" /\ Becomes(s, [x EXCEPT !.sink = TRUE])
              /\ output' = [output EXCEPT ![cur] = @ \cup {f.run}]
        /\ UNCHANGED <<runVars, aborted, closeVars, broker, finished, troubles>>

\* The sink has taken the output, or fails.
SinkSettles(s) ==
    /\ sess[s].sink
    /\ \/ Calm /\ Becomes(s, [sess[s] EXCEPT !.sink = FALSE])
       \/ Trouble /\ Becomes(s, [Poisoned(sess[s]) EXCEPT !.command = "undelivered"])
    /\ SessionOnly

----------------------------------------------------------------------------
Executor ==
    \/ TakeNext \/ DrainEnds \/ Cleaned \/ Replaced \/ Spawned \/ Started \/ StartFails
    \/ Abandoned \/ Opened \/ Discarded \/ Released \/ Written \/ Completed \/ Finished
    \/ Retired \/ CommandFails \/ Failed \/ CloseSessions \/ CloseSettled

Session(s) ==
    \/ ReadyArrives(s) \/ Ages(s) \/ IdleTimeout(s) \/ LifetimeTimeout(s)
    \/ TerminationEnds(s) \/ ProcessEnds(s) \/ Accept(s) \/ SinkSettles(s)

Broker(s) ==
    \/ BrokerOutputs(s) \/ BrokerEnds(s) \/ BrokerFatal(s)
    \/ \E r \in Runs, kind \in {"OUT", "END"} : BrokerRepeats(s, r, kind)

Next ==
    \/ Executor \/ CloseCalled
    \/ \E r \in Runs : Run(r) \/ Abort(r)
    \/ \E s \in Sessions : Session(s) \/ Broker(s)

Spec == Init /\ [][Next]_vars

\* Node continues what is settled, a kill returns, and every execution has a timeout
\* that aborts its run.  Nothing is assumed of the target, of sinks or of the timers.
FairSpec ==
    /\ Spec
    /\ WF_vars(Executor)
    /\ WF_vars(\E s \in Sessions : TerminationEnds(s))
    /\ WF_vars(\E r \in Runs : state[r] = "active" /\ Abort(r))

----------------------------------------------------------------------------
(* Properties.                                                             *)

Alive == {s \in Sessions : sess[s].proc \in {"live", "ending"}}

\* However sessions are poisoned, timed out and replaced, there is never more than one
\* plink process, the executor knows it, and none is left once close() has resolved.
\* A session that could not be terminated is closed again before another is opened.
OneProcess ==
    /\ Cardinality(Alive) <= 1
    /\ Alive \subseteq owned
    /\ closer = "closed" => Alive = {}

\* A result is given only for a command that has ended at the target, and a sink only
\* gets the output of its own command, also when frames of earlier commands come late.
AnswerIsOwn ==
    \A r \in Runs :
        /\ answer[r] = "completed" => r \in finished
        /\ output[r] \subseteq {r}

\* Timers, replacements and the aborts of other runs cost no command: as long as
\* nothing outside goes wrong, a run is completed unless it was aborted or the
\* executor was closed.
NoCommandLost ==
    troubles = 0 =>
        \A r \in Runs : answer[r] \in {"none", "completed"} \/ Aborted(r)

\* The session is shared without a trace: a run gets its own answer and loses nothing to
\* the runs and timers before it (PersistentProtocolParser, the idle and lifetime timers).
RunsAreApart == AnswerIsOwn /\ NoCommandLost

\* Every run is answered and every close() ends, also when the target is silent, a
\* sink blocks for ever or a session cannot be terminated: again and again nobody waits.
EverybodyAnswered ==
    []<>(/\ \A r \in Runs : state[r] \in {"new", "answered"}
         /\ closer \in {"none", "closed", "failed"})
============================================================================
