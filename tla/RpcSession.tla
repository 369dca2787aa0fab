----------------------------- MODULE RpcSession -----------------------------
(***************************************************************************)
(* The pipe between a client and the daemon: GatewayRpcClient of           *)
(* src/shared/rpc-client.ts, PipeRpcServer of src/daemon/pipe-server.ts,   *)
(* the activation gate and the dispatcher.  A client opens a connection,   *)
(* authenticates it, sends requests and gives each a deadline; an aborted  *)
(* or overdue execution is cancelled by a second request on the same       *)
(* connection, and a connection that goes down cancels what it started.    *)
(*                                                                         *)
(* Frames keep their order and are lost only with the connection.  The     *)
(* execution service behind the dispatcher is external to this module: it  *)
(* files a request in the very call that dispatches it, stops it when      *)
(* cancelled and answers it some time (module ExecService).                *)
(***************************************************************************)
EXTENDS Naturals, Sequences, FiniteSets

CONSTANTS Conns,           \* bound: connections ever opened, numbered from 1
          Requests,        \* bound: executions ever requested
          MaxInflight,     \* maxInflightRequestsPerConnection
          MaxConnections   \* maxConnections

VARIABLES client,   \* client[c]: "new", "opening", "open" or "closed"
          server,   \* server[c]: "none", "accepted", "open" (it has a context) or "closed"
          link,     \* link[c]: "none", "up", "ended" (by the client) or "down"
          up, down, \* up[c], down[c]: frames on their way to the server and back
          settling, \* settling[c]: requests that start nothing whose dispatch has not settled yet
          conn,     \* conn[r]: the connection a request was made on
          promise,  \* promise[r]: what the caller of the client has: "none", "pending", "aborted" (and
                    \* still pending), "answered" or "rejected"
          exec,     \* exec[r]: the execution: "none", "running", "stopping" or "ended"
          gate,     \* the activation gate is open
          serving   \* the server listens

rpcVars == <<client, server, link, up, down, settling, conn, promise, exec, gate, serving>>

NoConn == 0
Run(r) == [what |-> "run", of |-> r]
CancelOf(r) == [what |-> "cancel", of |-> r]
Open == [what |-> "open", of |-> 0]

Init == /\ client = [c \in Conns |-> "new"] /\ server = [c \in Conns |-> "none"]
        /\ link = [c \in Conns |-> "none"]
        /\ up = [c \in Conns |-> <<>>] /\ down = [c \in Conns |-> <<>>]
        /\ settling = [c \in Conns |-> 0]
        /\ conn = [r \in Requests |-> NoConn]
        /\ promise = [r \in Requests |-> "none"] /\ exec = [r \in Requests |-> "none"]
        /\ gate = FALSE /\ serving = TRUE

TypeOK == /\ client \in [Conns -> {"new", "opening", "open", "closed"}]
          /\ server \in [Conns -> {"none", "accepted", "open", "closed"}]
          /\ link \in [Conns -> {"none", "up", "ended", "down"}]
          /\ settling \in [Conns -> 0 .. MaxInflight]
          /\ conn \in [Requests -> Conns \cup {NoConn}]
          /\ promise \in [Requests -> {"none", "pending", "aborted", "answered", "rejected"}]
          /\ exec \in [Requests -> {"none", "running", "stopping", "ended"}]

Of(c) == {r \in Requests : conn[r] = c}
Connected(c) == server[c] \in {"accepted", "open"}
Waiting(r) == promise[r] \in {"pending", "aborted"}   \* in #pending
\* Connections are numbered as they are opened.
NextConn(c) == \A d \in Conns : d < c => client[d] # "new"
Alive(c) == link[c] \in {"up", "ended"}

\* socket.destroy(): what is still on its way to the server is not read any more.
Destroyed(c) == /\ link' = [link EXCEPT ![c] = "down"]
                /\ up' = [up EXCEPT ![c] = <<>>]
                /\ settling' = [settling EXCEPT ![c] = 0]

-----------------------------------------------------------------------------
\* The client.

\* connect: the socket connects and session.open is sent.  A connection beyond the limit is destroyed at once.
Connect(c) ==
    /\ client[c] = "new" /\ serving /\ NextConn(c)
    /\ client' = [client EXCEPT ![c] = "opening"]
    /\ IF Cardinality({d \in Conns : Connected(d)}) >= MaxConnections
       THEN link' = [link EXCEPT ![c] = "down"] /\ server' = [server EXCEPT ![c] = "closed"] /\ UNCHANGED up
       ELSE /\ link' = [link EXCEPT ![c] = "up"] /\ server' = [server EXCEPT ![c] = "accepted"]
            /\ up' = [up EXCEPT ![c] = <<Open>>]
    /\ UNCHANGED <<down, settling, conn, promise, exec, gate, serving>>

\* A peer that connects and then says nothing.
ConnectSilently(c) ==
    /\ client[c] = "new" /\ serving /\ NextConn(c)
    /\ Cardinality({d \in Conns : Connected(d)}) < MaxConnections
    /\ client' = [client EXCEPT ![c] = "opening"]
    /\ link' = [link EXCEPT ![c] = "up"] /\ server' = [server EXCEPT ![c] = "accepted"]
    /\ UNCHANGED <<up, down, settling, conn, promise, exec, gate, serving>>

\* #sendRequest: the request waits in #pending and its frame is written.
Send(c, r) ==
    /\ client[c] = "open"
    /\ promise[r] = "none" /\ \A q \in Requests : q < r => promise[q] # "none"
    /\ promise' = [promise EXCEPT ![r] = "pending"]
    /\ conn' = [conn EXCEPT ![r] = c]
    /\ up' = [up EXCEPT ![c] = IF Alive(c) THEN Append(@, Run(r)) ELSE @]
    /\ UNCHANGED <<client, server, link, down, settling, exec, gate, serving>>

\* Mutant: an aborted request is only rejected.
SentCancelNever(c, r) == UNCHANGED up

\* exec.cancel on the same connection; with a closed client it is refused.
SentCancel(c, r) == up' = [up EXCEPT ![c] = IF client[c] = "open" /\ link[c] = "up" THEN Append(@, CancelOf(r)) ELSE @]

\* The abort listener of run and check, there until the promise is settled.
Abort(r) == /\ promise[r] = "pending"
            /\ promise' = [promise EXCEPT ![r] = "aborted"]
            /\ SentCancel(conn[r], r)
            /\ UNCHANGED <<client, server, link, down, settling, conn, exec, gate, serving>>

\* The deadline of a request: it is cancelled, then rejected; a late answer finds it gone from #pending.
RequestTimeout(r) == /\ Waiting(r)
                     /\ promise' = [promise EXCEPT ![r] = "rejected"]
                     /\ SentCancel(conn[r], r)
                     /\ UNCHANGED <<client, server, link, down, settling, conn, exec, gate, serving>>

\* What a client that is closed no longer reads.
Unread(c) == down' = [down EXCEPT ![c] = <<>>]
Rejected(c) == promise' = [r \in Requests |-> IF r \in Of(c) /\ Waiting(r) THEN "rejected" ELSE promise[r]]

\* #acceptResponse for the frame at the head.
ClientReceives(c) ==
    /\ client[c] \in {"opening", "open"} /\ down[c] # <<>>
    /\ LET frame == Head(down[c]) IN
       /\ client' = IF frame = Open THEN [client EXCEPT ![c] = "open"] ELSE client
       /\ promise' = IF frame.what = "run" /\ Waiting(frame.of)
                     THEN [promise EXCEPT ![frame.of] = "answered"] ELSE promise
    /\ down' = [down EXCEPT ![c] = Tail(@)]
    /\ UNCHANGED <<server, link, up, settling, conn, exec, gate, serving>>

\* close(), also after a handshake that failed or timed out: the socket is ended behind the frames already written.
ClientCloses(c) ==
    /\ client[c] \in {"opening", "open"}
    /\ client' = [client EXCEPT ![c] = "closed"]
    /\ link' = [link EXCEPT ![c] = IF @ = "up" THEN "ended" ELSE @]
    /\ Rejected(c) /\ Unread(c)
    /\ UNCHANGED <<server, up, settling, conn, exec, gate, serving>>
\* The socket's error and close events: every pending request fails.
ClientSeesDown(c) ==
    /\ client[c] \in {"opening", "open"} /\ link[c] = "down"
    /\ client' = [client EXCEPT ![c] = "closed"]
    /\ Rejected(c) /\ Unread(c)
    /\ UNCHANGED <<server, link, up, settling, conn, exec, gate, serving>>
\* The client's process dies.
ClientDies(c) ==
    /\ client[c] \in {"opening", "open"} /\ link[c] = "up"
    /\ client' = [client EXCEPT ![c] = "closed"]
    /\ Rejected(c) /\ Unread(c)
    /\ Destroyed(c)
    /\ UNCHANGED <<server, conn, exec, gate, serving>>

-----------------------------------------------------------------------------
\* The server.

\* #acceptFrame, session.open: the session gets its context and the handshake timer is cleared.
AcceptOpen(c) ==
    /\ server[c] = "accepted" /\ Alive(c)
    /\ up[c] # <<>> /\ Head(up[c]) = Open
    /\ server' = [server EXCEPT ![c] = "open"]
    /\ up' = [up EXCEPT ![c] = Tail(@)]
    /\ down' = [down EXCEPT ![c] = IF client[c] = "opening" THEN Append(@, Open) ELSE @]
    /\ UNCHANGED <<client, link, settling, conn, promise, exec, gate, serving>>

\* A token or protocol version that does not match: the connection is destroyed.
RejectOpen(c) ==
    /\ server[c] = "accepted" /\ Alive(c)
    /\ up[c] # <<>> /\ Head(up[c]) = Open
    /\ Destroyed(c)
    /\ UNCHANGED <<client, server, down, conn, promise, exec, gate, serving>>

HandshakeTimeout(c) ==
    /\ server[c] = "accepted" /\ Alive(c)
    /\ Destroyed(c)
    /\ UNCHANGED <<client, server, down, conn, promise, exec, gate, serving>>

\* exec.cancel reaches an execution of the session that accepts cancellation.
Stopped(S) == exec' = [r \in Requests |-> IF r \in S /\ exec[r] = "running" THEN "stopping" ELSE exec[r]]

\* inflightRequests: what the connection runs and what is still being refused or cancelled.  One request too
\* many and the whole connection is destroyed.
Executing(c) == {r \in Of(c) : exec[r] \in {"running", "stopping"}}
OverLimit(c) == Cardinality(Executing(c)) + settling[c] >= MaxInflight
AcceptRun(c) ==
    /\ server[c] = "open" /\ Alive(c)
    /\ up[c] # <<>> /\ Head(up[c]).what = "run"
    /\ LET r == Head(up[c]).of IN
       IF OverLimit(c) THEN Destroyed(c) /\ UNCHANGED <<down, exec>>
       ELSE /\ up' = [up EXCEPT ![c] = Tail(@)]
            /\ IF gate THEN exec' = [exec EXCEPT ![r] = "running"] /\ UNCHANGED <<down, settling>>
               ELSE /\ down' = [down EXCEPT ![c] = IF client[c] = "open" THEN Append(@, Run(r)) ELSE @]
                    /\ settling' = [settling EXCEPT ![c] = @ + 1]
                    /\ UNCHANGED exec
            /\ UNCHANGED link
    /\ UNCHANGED <<client, server, conn, promise, gate, serving>>

AcceptCancel(c) ==
    /\ server[c] = "open" /\ Alive(c)
    /\ up[c] # <<>> /\ Head(up[c]).what = "cancel"
    /\ IF OverLimit(c) THEN Destroyed(c) /\ UNCHANGED exec
       ELSE /\ up' = [up EXCEPT ![c] = Tail(@)]
            /\ settling' = [settling EXCEPT ![c] = @ + 1]
            /\ IF gate THEN Stopped({Head(up[c]).of}) ELSE UNCHANGED exec
            /\ UNCHANGED link
    /\ UNCHANGED <<client, server, down, conn, promise, gate, serving>>

\* A cancel or a refusal is over: frames that came in one chunk are accepted before that.
DispatchSettles(c) ==
    /\ settling[c] > 0
    /\ settling' = [settling EXCEPT ![c] = @ - 1]
    /\ UNCHANGED <<client, server, link, up, down, conn, promise, exec, gate, serving>>

\* The dispatched call settles: the answer is written unless the socket is gone,
ExecEnds(r) ==
    /\ exec[r] \in {"running", "stopping"}
    /\ exec' = [exec EXCEPT ![r] = "ended"]
    /\ down' = [down EXCEPT ![conn[r]] = IF Alive(conn[r]) /\ client[conn[r]] = "open" THEN Append(@, Run(r)) ELSE @]
    /\ UNCHANGED <<client, server, link, up, settling, conn, promise, gate, serving>>
\* or it is too large for a frame or for what already waits to be read: the connection is destroyed instead.
AnswerTooLarge(r) ==
    /\ exec[r] \in {"running", "stopping"} /\ Alive(conn[r])
    /\ exec' = [exec EXCEPT ![r] = "ended"]
    /\ Destroyed(conn[r])
    /\ UNCHANGED <<client, server, down, conn, promise, gate, serving>>

\* The client's end is read after its last frame, and answered by closing.
PeerEnded(c) ==
    /\ link[c] = "ended" /\ up[c] = <<>> /\ Connected(c)
    /\ Destroyed(c)
    /\ UNCHANGED <<client, server, down, conn, promise, exec, gate, serving>>

\* Mutant: disconnect() stops what runs, whoever started it.
CloseConnectionOfAll(c) ==
    /\ Connected(c) /\ link[c] = "down"
    /\ server' = [server EXCEPT ![c] = "closed"]
    /\ IF server[c] = "open" THEN Stopped(Requests) ELSE UNCHANGED exec
    /\ UNCHANGED <<client, link, up, down, settling, conn, promise, gate, serving>>

\* #closeConnection: the session's executions are cancelled.
CloseConnection(c) ==
    /\ Connected(c) /\ link[c] = "down"
    /\ server' = [server EXCEPT ![c] = "closed"]
    /\ IF server[c] = "open" THEN Stopped(Of(c)) ELSE UNCHANGED exec
    /\ UNCHANGED <<client, link, up, down, settling, conn, promise, gate, serving>>

\* activate(), once the configuration is committed.
Activate == /\ ~gate /\ serving
            /\ gate' = TRUE
            /\ UNCHANGED <<client, server, link, up, down, settling, conn, promise, exec, serving>>

\* close(): every connection is destroyed and no more are accepted.
CloseServer ==
    /\ serving
    /\ serving' = FALSE
    /\ link' = [c \in Conns |-> IF Connected(c) THEN "down" ELSE link[c]]
    /\ up' = [c \in Conns |-> <<>>] /\ settling' = [c \in Conns |-> 0]
    /\ UNCHANGED <<client, server, down, conn, promise, exec, gate>>

ClientStep(c) == Connect(c) \/ ConnectSilently(c) \/ ClientReceives(c) \/ ClientCloses(c) \/ ClientSeesDown(c)
                 \/ ClientDies(c)
ServerStep(c) == AcceptOpen(c) \/ RejectOpen(c) \/ HandshakeTimeout(c) \/ AcceptRun(c) \/ AcceptCancel(c) \/ PeerEnded(c)
                 \/ DispatchSettles(c) \/ CloseConnection(c)

Next == \/ \E c \in Conns : ClientStep(c) \/ ServerStep(c) \/ \E r \in Requests : Send(c, r)
        \/ \E r \in Requests : Abort(r) \/ RequestTimeout(r) \/ ExecEnds(r) \/ AnswerTooLarge(r)
        \/ Activate \/ CloseServer

Spec == Init /\ [][Next]_rpcVars

(***************************************************************************)
(* Fairness: both ends keep reading, an event is delivered, and a timer    *)
(* fires.  Of an execution it is assumed only that it ends once it has     *)
(* been asked to stop.                                                     *)
(***************************************************************************)
Fairness == /\ WF_rpcVars(\E c \in Conns : ServerStep(c))
            /\ WF_rpcVars(\E c \in Conns : ClientReceives(c) \/ ClientSeesDown(c))
            /\ WF_rpcVars(\E r \in Requests : RequestTimeout(r))

FairSpec == Spec /\ Fairness

-----------------------------------------------------------------------------
(***************************************************************************)
(* An execution nobody waits for does not go on: once the client was       *)
(* answered otherwise, aborted, overdue, closed or dead, the execution is  *)
(* asked to stop, whichever of the cancel, the limit and the loss of the   *)
(* connection got there first.                                             *)
(***************************************************************************)
NoOrphan == \A r \in Requests : []<>(exec[r] # "running" \/ promise[r] = "pending")

(***************************************************************************)
(* An execution is asked to stop only because its own caller gave it up or *)
(* its own connection went down.                                           *)
(***************************************************************************)
StopsOnlyItsOwn == \A r \in Requests :
    exec[r] = "stopping" => promise[r] \in {"aborted", "rejected"} \/ link[conn[r]] = "down"

(***************************************************************************)
(* A peer that never authenticates does not keep one of the connections:   *)
(* the handshake timer gives it back.                                      *)
(***************************************************************************)
HandshakeEnds == \A c \in Conns : []<>(server[c] # "accepted")

(***************************************************************************)
(* Neither an execution nor a connection is kept for nobody.               *)
(***************************************************************************)
NothingKeptInVain == NoOrphan /\ HandshakeEnds
=============================================================================
