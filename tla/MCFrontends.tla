---------------------------- MODULE MCFrontends ----------------------------
(***************************************************************************)
(* The two ways into the gateway, side by side: the management page        *)
(* (TestUiServer) and the pipe (RpcSession), the latter once with room for *)
(* every connection and once for a single one.  They share no state, so a  *)
(* behaviour is one of the part `under` names.                             *)
(***************************************************************************)
EXTENDS TestUiServer, Sequences

CONSTANTS Conns, Requests, MaxInflight, MaxConnections

VARIABLES under, client, server, link, up, down, settling, conn, promise, exec, gate, serving

Rpc == INSTANCE RpcSession
\* The same pipe with room for one connection, so that this limit is met.
Crowded == INSTANCE RpcSession WITH MaxConnections <- 1

rpcVars == <<client, server, link, up, down, settling, conn, promise, exec, gate, serving>>
allVars == <<under, vars, rpcVars>>

AllInit == /\ under \in {"page", "pipe", "crowded pipe"}
           /\ Init /\ Rpc!Init

AllNext == \/ under = "page" /\ Next /\ UNCHANGED <<under, rpcVars>>
           \/ under = "pipe" /\ Rpc!Next /\ UNCHANGED <<under, vars>>
           \/ under = "crowded pipe" /\ Crowded!Next /\ UNCHANGED <<under, vars>>

\* The fairness of each part, as its module explains it; no step of the pipe's depends on the limit of connections.
PageFairness ==
    /\ \A s \in Slots : WF_vars(under = "page" /\ Handler(s))
    /\ WF_vars(under = "page" /\ Monitoring /\ UNCHANGED serverVars)
    /\ WF_vars(under = "page" /\ Working /\ UNCHANGED serverVars)
    /\ WF_vars(under = "page" /\ Expire /\ UNCHANGED serverVars)
PipeFairness ==
    /\ WF_rpcVars(under # "page" /\ \E c \in Conns : Rpc!ServerStep(c))
    /\ WF_rpcVars(under # "page" /\ \E c \in Conns : Rpc!ClientReceives(c) \/ Rpc!ClientSeesDown(c))
    /\ WF_rpcVars(under # "page" /\ \E r \in Requests : Rpc!RequestTimeout(r))

AllSpec == AllInit /\ [][AllNext]_allVars /\ PageFairness /\ PipeFairness

-----------------------------------------------------------------------------
(* The properties of the session and of the pipe.                          *)

\* PuTTY's setting is not lost: whenever it holds the temporary value the one to put back
\* is recorded where a restart finds it (TemporaryIsMarked), and close() is past the
\* preparer only when it was put back or the failure was reported (CloseRestores).
SettingNotLost == TemporaryIsMarked /\ CloseRestores

\* RpcSession!StopsOnlyItsOwn: an execution is asked to stop only for its own caller or
\* its own connection.
StopsOnlyItsOwn == Rpc!StopsOnlyItsOwn

\* RpcSession!NothingKeptInVain: an execution nobody waits for is asked to stop, and a
\* peer that never authenticates gives its connection back.
NothingKeptInVain == Rpc!NothingKeptInVain
=============================================================================
