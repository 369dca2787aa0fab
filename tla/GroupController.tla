-------------------------- MODULE GroupController --------------------------
(***************************************************************************)
(* One group run of the MCP process (src/mcp/groups.ts): a coordinator     *)
(* that dispatches a daemon task per machine, a few at a time, and tool    *)
(* calls that poll and cancel it.  A request to the daemon is sent, is     *)
(* processed there, and its reply arrives later or never; refreshes and    *)
(* cancels of the same member may be in flight together.                   *)
(***************************************************************************)
EXTENDS Naturals, FiniteSets

CONSTANTS
    N,                      \* machines in the group, swept in parallel (up to 4)
    Concurrency,            \* child tasks the group may have active
    MaxFailures,            \* bound: requests whose reply is lost
    MaxCancels              \* bound: ssh_group_cancel calls

ASSUME GroupControllerAssumption ==
    /\ N \in 1..4
    /\ Concurrency \in Nat \ {0}
    /\ MaxFailures \in Nat
    /\ MaxCancels \in Nat

VARIABLES
    batch,                  \* the handle: "none", "live" or "evicted"
    member,                 \* member[m]: member.state; `state` is a task's in TaskStore
    hasRun,                 \* members with a runId
    cancelling,             \* batch.cancelling
    completedAt,            \* batch.completedAt is set
    work,                   \* batch.work: "none", "refreshing", "starting"
    cancelCall,             \* the cancel tool call: "none", "waiting", "requesting"
    statusReq,              \* statusReq[m]: task.status request in flight
    startReq,               \* startReq[m]: task.start request in flight
    cancelReq,              \* cancelReq[m]: task.cancel request in flight
    child,                  \* child[m]: the daemon task of m
    stopAsked,              \* children whose daemon task was asked to stop
    starts,                 \* starts[m]: tasks the daemon started for m
    missed,                 \* history: members whose task.cancel was lost
    failures,               \* lost replies so far
    cancels                 \* cancel calls so far

memberVars == <<member, hasRun>>
requestVars == <<statusReq, startReq, cancelReq>>
daemonVars == <<child, stopAsked, starts, missed>>
groupVars == <<batch, memberVars, cancelling, completedAt, work, cancelCall, requestVars,
               daemonVars, failures, cancels>>

Members == 1..N
TaskTerminal == {"succeeded", "failed", "timed_out", "cancelled"}
TERMINAL == TaskTerminal \cup {"skipped"}
MemberStates == TERMINAL \cup {"queued", "running", "unknown"}

\* A request is idle, sent, or processed with the state the daemon replied.
Replies == {"running", "refused"} \cup TaskTerminal
Requests == {"idle", "sent"} \cup Replies
AllIdle(req) == \A m \in Members : req[m] = "idle"

AllTerminal == \A m \in Members : member[m] \in TERMINAL

GroupInit ==
    /\ batch = "none"
    /\ member = [m \in Members |-> "skipped"]
    /\ hasRun = {}
    /\ cancelling = FALSE
    /\ completedAt = FALSE
    /\ work = "none"
    /\ cancelCall = "none"
    /\ statusReq = [m \in Members |-> "idle"]
    /\ startReq = [m \in Members |-> "idle"]
    /\ cancelReq = [m \in Members |-> "idle"]
    /\ child = [m \in Members |-> "none"]
    /\ stopAsked = {}
    /\ starts = [m \in Members |-> 0]
    /\ missed = {}
    /\ failures = 0
    /\ cancels = 0

\* ssh_group_start for a group whose enabled machines are E; #snapshot of a group
\* without enabled machines is complete at once.
Start(E) ==
    /\ batch = "none"
    /\ batch' = "live"
    /\ member' = [m \in Members |-> IF m \in E THEN "queued" ELSE "skipped"]
    /\ completedAt' = (E = {})
    /\ UNCHANGED <<hasRun, cancelling, work, cancelCall, requestVars, daemonVars, failures, cancels>>

----------------------------------------------------------------------------
(* #cycle: refresh every member with a live task, then dispatch.           *)

\* The members a sweep over the group sends a request for.
Pollable == {m \in hasRun : member[m] \notin TERMINAL}

Sent(S) == [m \in Members |-> IF m \in S THEN "sent" ELSE "idle"]

\* The timer of #schedule, or ssh_group_status, begins a cycle when none runs.  A
\* cancel that waited for the last cycle resumes before anything else does.
BeginCycle ==
    /\ batch = "live" /\ work = "none" /\ cancelCall # "waiting"
    /\ work' = "refreshing"
    /\ statusReq' = Sent(Pollable)
    /\ UNCHANGED <<batch, memberVars, cancelling, completedAt, cancelCall, startReq, cancelReq>>
    /\ UNCHANGED <<daemonVars, failures, cancels>>

\* Mutant: an ended member keeps its slot.
ActiveEver == hasRun \cup {m \in Members : member[m] = "unknown"}

Active == {m \in Members : member[m] \notin TERMINAL /\ (m \in hasRun \/ member[m] = "unknown")}

\* Mutant: a start whose reply was lost is tried again.
StartableAgain == {m \in Members : member[m] = "queued" \/ (member[m] = "unknown" /\ m \notin hasRun)}

Startable == {m \in Members : member[m] = "queued"}

\* The first queued members, as many as there are free slots.
Selected ==
    {m \in Startable :
       Cardinality({q \in Startable : q < m}) + Cardinality(Active) < Concurrency}

\* #snapshot: completion is recorded once.
Snapshot == completedAt' = (completedAt \/ \A m \in Members : member'[m] \in TERMINAL)

Dispatch ==
    /\ work = "refreshing" /\ AllIdle(statusReq)
    /\ IF cancelling \/ Selected = {}
         THEN /\ work' = "none"
              /\ UNCHANGED startReq
         ELSE /\ work' = "starting"
              /\ startReq' = Sent(Selected)
    /\ UNCHANGED memberVars
    /\ IF work' = "none" THEN Snapshot ELSE UNCHANGED completedAt
    /\ UNCHANGED <<batch, cancelling, cancelCall, statusReq, cancelReq, daemonVars, failures, cancels>>

EndCycle ==
    /\ work = "starting" /\ AllIdle(startReq)
    /\ work' = "none"
    /\ UNCHANGED memberVars
    /\ Snapshot
    /\ UNCHANGED <<batch, cancelling, cancelCall, requestVars, daemonVars, failures, cancels>>

----------------------------------------------------------------------------
(* Replies.                                                                *)

ApplyOnly(m, s) ==
    /\ member' = [member EXCEPT ![m] = s]
    /\ UNCHANGED <<batch, cancelling, completedAt, work, cancelCall, child, stopAsked, starts, cancels>>

\* A transport error, or EXECUTION_NOT_FOUND for a task the daemon has forgotten.
Lost(m) == failures < MaxFailures /\ failures' = failures + 1

StatusReply(m) ==
    /\ statusReq[m] \in Replies
    /\ ApplyOnly(m, IF statusReq[m] = "refused" THEN "unknown" ELSE statusReq[m])
    /\ statusReq' = [statusReq EXCEPT ![m] = "idle"]
    /\ UNCHANGED <<hasRun, startReq, cancelReq, failures, missed>>

StatusLost(m) ==
    /\ statusReq[m] # "idle" /\ Lost(m)
    /\ ApplyOnly(m, "unknown")
    /\ statusReq' = [statusReq EXCEPT ![m] = "idle"]
    /\ UNCHANGED <<hasRun, startReq, cancelReq, missed>>

\* A refused start is an RpcRemoteError: the daemon started nothing.
StartedState(reply) == IF reply = "refused" THEN "failed" ELSE reply

StartReply(m) ==
    /\ startReq[m] \in Replies
    /\ ApplyOnly(m, StartedState(startReq[m]))
    /\ hasRun' = IF startReq[m] = "refused" THEN hasRun ELSE hasRun \cup {m}
    /\ startReq' = [startReq EXCEPT ![m] = "idle"]
    /\ UNCHANGED <<statusReq, cancelReq, failures, missed>>

StartOutcomeUnknown == "unknown"

\* The connection breaks before or after the daemon accepted the task.
StartLost(m) ==
    /\ startReq[m] # "idle" /\ Lost(m)
    /\ ApplyOnly(m, StartOutcomeUnknown)
    /\ startReq' = [startReq EXCEPT ![m] = "idle"]
    /\ UNCHANGED <<hasRun, statusReq, cancelReq, missed>>

CancelReply(m) ==
    /\ cancelReq[m] \in Replies
    /\ ApplyOnly(m, IF cancelReq[m] = "refused" THEN "unknown" ELSE cancelReq[m])
    /\ cancelReq' = [cancelReq EXCEPT ![m] = "idle"]
    /\ UNCHANGED <<hasRun, statusReq, startReq, failures, missed>>

CancelLost(m) ==
    /\ cancelReq[m] # "idle" /\ Lost(m)
    /\ ApplyOnly(m, "unknown")
    /\ cancelReq' = [cancelReq EXCEPT ![m] = "idle"]
    /\ missed' = missed \cup {m}
    /\ UNCHANGED <<hasRun, statusReq, startReq>>

----------------------------------------------------------------------------
(* ssh_group_cancel                                                        *)

BeginCancel ==
    /\ batch = "live" /\ cancelCall = "none" /\ cancels < MaxCancels
    /\ cancels' = cancels + 1
    /\ cancelling' = TRUE
    /\ member' = [m \in Members |-> IF member[m] = "queued" THEN "cancelled" ELSE member[m]]
    /\ cancelCall' = "waiting"
    /\ UNCHANGED <<batch, hasRun, completedAt, work, requestVars, daemonVars, failures>>

\* Mutant: the cancel does not wait for the cycle under way.
MayRequestAtOnce == TRUE

\* if (batch.work) await batch.work
MayRequestCancels == work = "none"

RequestCancels ==
    /\ cancelCall = "waiting" /\ MayRequestCancels
    /\ cancelCall' = "requesting"
    /\ cancelReq' = Sent(Pollable)
    /\ UNCHANGED <<batch, memberVars, cancelling, completedAt, work, statusReq, startReq>>
    /\ UNCHANGED <<daemonVars, failures, cancels>>

EndCancel ==
    /\ cancelCall = "requesting" /\ AllIdle(cancelReq)
    /\ cancelCall' = "none"
    /\ UNCHANGED memberVars
    /\ Snapshot
    /\ UNCHANGED <<batch, cancelling, work, requestVars, daemonVars, failures, cancels>>

----------------------------------------------------------------------------
(* The daemon, as the requests see it.                                     *)

DaemonOnly ==
    UNCHANGED <<batch, memberVars, cancelling, completedAt, work, cancelCall, failures, cancels>>

Known(m) == IF child[m] \in {"running"} \cup TaskTerminal THEN child[m] ELSE "refused"

DaemonStart(m) ==
    /\ startReq[m] = "sent"
    /\ \/ /\ startReq' = [startReq EXCEPT ![m] = "running"]
          /\ child' = [child EXCEPT ![m] = "running"]
          /\ starts' = [starts EXCEPT ![m] = @ + 1]
       \/ /\ startReq' = [startReq EXCEPT ![m] = "refused"]
          /\ UNCHANGED <<child, starts>>
    /\ DaemonOnly
    /\ UNCHANGED <<statusReq, cancelReq, stopAsked, missed>>

DaemonStatus(m) ==
    /\ statusReq[m] = "sent"
    /\ statusReq' = [statusReq EXCEPT ![m] = Known(m)]
    /\ DaemonOnly
    /\ UNCHANGED <<startReq, cancelReq, daemonVars>>

DaemonCancel(m) ==
    /\ cancelReq[m] = "sent"
    /\ cancelReq' = [cancelReq EXCEPT ![m] = Known(m)]
    /\ stopAsked' = IF child[m] = "running" THEN stopAsked \cup {m} ELSE stopAsked
    /\ DaemonOnly
    /\ UNCHANGED <<statusReq, startReq, child, starts, missed>>

ChildEnds(m) ==
    /\ child[m] = "running"
    /\ \E s \in IF m \in stopAsked THEN {"cancelled"} ELSE {"succeeded", "failed"} :
         child' = [child EXCEPT ![m] = s]
    /\ DaemonOnly
    /\ UNCHANGED <<requestVars, stopAsked, starts, missed>>

\* The task store drops an ended task after its TTL.
ChildForgotten(m) ==
    /\ child[m] \in TaskTerminal
    /\ child' = [child EXCEPT ![m] = "forgotten"]
    /\ DaemonOnly
    /\ UNCHANGED <<requestVars, stopAsked, starts, missed>>

\* 24 hours after completedAt the handle is dropped by the next use or start.  No
\* request is in flight that long, and by then a refresh has told every state.
Evict ==
    /\ batch = "live" /\ completedAt
    /\ work = "none" /\ cancelCall = "none"
    /\ \A m \in Pollable : member[m] = "unknown" /\ child[m] = "forgotten"
    /\ batch' = "evicted"
    /\ UNCHANGED <<memberVars, cancelling, completedAt, work, cancelCall, requestVars>>
    /\ UNCHANGED <<daemonVars, failures, cancels>>

----------------------------------------------------------------------------

GroupNext ==
    \/ \E E \in SUBSET Members : Start(E)
    \/ BeginCycle \/ Dispatch \/ EndCycle
    \/ BeginCancel \/ RequestCancels \/ EndCancel
    \/ \E m \in Members :
         \/ StatusReply(m) \/ StatusLost(m) \/ StartReply(m) \/ StartLost(m)
         \/ CancelReply(m) \/ CancelLost(m)
         \/ DaemonStart(m) \/ DaemonStatus(m) \/ DaemonCancel(m)
         \/ ChildEnds(m) \/ ChildForgotten(m)
    \/ Evict

GroupSpec == GroupInit /\ [][GroupNext]_groupVars

\* A call to the daemon is carried out and answered.
Call(m) ==
    \/ DaemonStart(m) \/ StartReply(m)
    \/ DaemonStatus(m) \/ StatusReply(m)
    \/ DaemonCancel(m) \/ CancelReply(m)

\* The timer keeps cycling while the group is not complete, the daemon answers, and
\* child tasks end because executions have a timeout.
GroupFairSpec ==
    /\ GroupSpec
    /\ WF_groupVars((~AllTerminal /\ BeginCycle) \/ Dispatch \/ EndCycle)
    /\ WF_groupVars(RequestCancels \/ EndCancel)
    /\ \A m \in Members : WF_groupVars(Call(m)) /\ WF_groupVars(ChildEnds(m))

----------------------------------------------------------------------------
(* Properties.                                                             *)

GroupTypeOK ==
    /\ batch \in {"none", "live", "evicted"}
    /\ member \in [Members -> MemberStates]
    /\ hasRun \in SUBSET Members
    /\ cancelling \in BOOLEAN
    /\ completedAt \in BOOLEAN
    /\ work \in {"none", "refreshing", "starting"}
    /\ cancelCall \in {"none", "waiting", "requesting"}
    /\ statusReq \in [Members -> Requests]
    /\ startReq \in [Members -> Requests]
    /\ cancelReq \in [Members -> Requests]
    /\ child \in [Members -> {"none", "running", "forgotten"} \cup TaskTerminal]
    /\ stopAsked \in SUBSET Members
    /\ missed \in SUBSET Members
    /\ starts \in [Members -> Nat]
    /\ failures \in 0..MaxFailures
    /\ cancels \in 0..MaxCancels

\* However many replies are lost and polls repeated, a machine gets the group's
\* command at most once.
StartedAtMostOnce == \A m \in Members : starts[m] <= 1

\* At most concurrency tasks of the group run at the daemon, also when the outcome
\* of a start is unknown and when refreshes and cancels overlap.
ConcurrencyBound == GroupTypeOK /\ Cardinality({m \in Members : child[m] = "running"}) <= Concurrency

\* Lost replies and overlapping refreshes neither repeat a command nor exceed the
\* concurrency the caller asked for (#cycle counts an unknown start as active).
StartsBounded == StartedAtMostOnce /\ ConcurrencyBound

\* The group is never reported complete while one of its tasks still runs.
CompleteIsTrue ==
    completedAt => \A m \in Members : child[m] # "running"

\* Once a cancel call has answered, every task of the group that still runs was asked
\* to stop, the starts in flight when the call came included: only a member whose
\* start or whose task.cancel got no answer may be missed.
CancelReachesAll ==
    cancels > 0 /\ cancelCall = "none" =>
        \A m \in hasRun : child[m] = "running" => m \in stopAsked \cup missed

\* What the group reports is true of the daemon: complete means nothing runs, and an
\* answered cancel means everything that runs was asked to stop (#snapshot, cancel).
ReportsAreTrue == CompleteIsTrue /\ CancelReachesAll

\* A group run ends: every member reaches a terminal state, unless one stays unknown
\* for good, because its start got no answer or the daemon forgot its task.  Such a
\* member keeps its slot, so members may stay queued behind it.
GroupSettles ==
    []<>(batch # "none" =>
        \/ AllTerminal
        \/ \E m \in Members : member[m] = "unknown" /\ (m \notin hasRun \/ child[m] = "forgotten"))

\* What docs/machine-groups.md and the tool description promise: a handle with a
\* running or unknown member is never evicted.
OnlyFinishedEvicted ==
    [][batch' = "evicted" /\ batch = "live" => AllTerminal]_groupVars
============================================================================
