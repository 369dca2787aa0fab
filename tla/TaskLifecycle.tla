--------------------------- MODULE TaskLifecycle ---------------------------
(***************************************************************************)
(* What the daemon promises the holder of a runId, whatever the store does *)
(* to keep its memory bounded: a run begins once, is asked to stop at most *)
(* once and for one reason, ends once with one outcome, and may be         *)
(* forgotten only after it has ended.  A run that was asked to stop ends   *)
(* with the reason it was asked to stop for.                               *)
(***************************************************************************)

CONSTANT Runs               \* the runs that may ever be started

VARIABLES
    phase,                  \* phase[r]: where the run is in its life
    stop,                   \* stop[r]: why it was asked to stop, or "none"
    outcome                 \* outcome[r]: how it ended, "none" before and once gone

vars == <<phase, stop, outcome>>

StopReasons == {"cancelled", "timed_out"}
Outcomes == {"succeeded", "failed", "timed_out", "cancelled"}

Init ==
    /\ phase = [r \in Runs |-> "fresh"]
    /\ stop = [r \in Runs |-> "none"]
    /\ outcome = [r \in Runs |-> "none"]

Fresh == {r \in Runs : phase[r] = "fresh"}
Running == {r \in Runs : phase[r] = "running"}
Ended == {r \in Runs : phase[r] = "ended"}

\* Forgetting a set of ended runs, which every operation may do on the way.
Forget(S) ==
    /\ phase' = [r \in Runs |-> IF r \in S THEN "gone" ELSE phase[r]]
    /\ stop' = stop
    /\ outcome' = [r \in Runs |-> IF r \in S THEN "none" ELSE outcome[r]]

Begin(b, S) ==
    /\ phase' = [r \in Runs |-> IF r = b THEN "running"
                                ELSE IF r \in S THEN "gone" ELSE phase[r]]
    /\ stop' = stop
    /\ outcome' = [r \in Runs |-> IF r \in S THEN "none" ELSE outcome[r]]

\* A set of runs is asked to stop: the ones already asked keep their reason.
RequestStop(R, why, S) ==
    /\ phase' = [r \in Runs |-> IF r \in S THEN "gone" ELSE phase[r]]
    /\ stop' = [r \in Runs |->
                  IF r \in R /\ stop[r] = "none" THEN why ELSE stop[r]]
    /\ outcome' = [r \in Runs |-> IF r \in S THEN "none" ELSE outcome[r]]

End(e, o) ==
    /\ stop[e] # "none" => o = stop[e]
    /\ phase' = [phase EXCEPT ![e] = "ended"]
    /\ outcome' = [outcome EXCEPT ![e] = o]
    /\ stop' = stop

Next ==
    \/ \E S \in SUBSET Ended :
         \/ Forget(S)
         \/ \E r \in Fresh : Begin(r, S)
         \/ \E R \in SUBSET Running, why \in StopReasons : RequestStop(R, why, S)
    \/ \E r \in Running, o \in Outcomes : End(r, o)

Spec == Init /\ [][Next]_vars
============================================================================
