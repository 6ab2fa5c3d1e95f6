------------------------------- MODULE Forward -------------------------------
(***************************************************************************)
(* The open tunnel of internal/gcloud/tunnel.go: TCPTunnelWithPassphrase   *)
(* with its listener and the goroutine that accepts connections, and for   *)
(* each connection handleConnection, which dials a websocket to the        *)
(* workstation and forwards what comes from there (down), and the          *)
(* goroutine it starts, which forwards what the client sends (up).         *)
(*                                                                         *)
(* What the two send is left out: a read returns data, blocks, or fails.   *)
(***************************************************************************)
CONSTANT Conn  \* the connections of local clients, each made at most once

VARIABLES
    cancelled,  \* the context of the tunnel is cancelled
    main,       \* where TCPTunnelWithPassphrase is
    listener,   \* the listener on the local port
    acceptor,   \* where the accepting goroutine is
    errChan,    \* its error is in errChan, which has room for one
    client,     \* the local end of each connection
    left,       \* its client has disconnected
    ws,         \* the websocket of each connection
    dropped,    \* the workstation, or the network, has closed it
    cctx,       \* the context of the connection is cancelled
    up,         \* where the goroutine from client to workstation is
    down        \* where handleConnection is

tunnelVars == <<cancelled, main, listener, acceptor, errChan>>
connVars == <<client, left, ws, dropped, cctx, up, down>>
vars == <<tunnelVars, connVars>>

TypeOK ==
    /\ cancelled \in BOOLEAN
    /\ main \in {"listen", "serve", "returned"}
    /\ listener \in {"none", "open", "closed"}
    /\ acceptor \in {"none", "check", "accept", "report", "ended"}
    /\ errChan \in BOOLEAN
    /\ client \in [Conn -> {"away", "waiting", "open", "closed"}]
    /\ left \in [Conn -> BOOLEAN]
    /\ ws \in [Conn -> {"none", "open", "closed"}]
    /\ dropped \in [Conn -> BOOLEAN]
    /\ cctx \in [Conn -> BOOLEAN]
    /\ up \in [Conn -> {"none", "check", "read", "write", "ended"}]
    /\ down \in [Conn -> {"none", "dial", "check", "read", "write", "closeWs", "closeClient",
                          "cancel", "ended"}]

Init ==
    /\ cancelled = FALSE
    /\ main = "listen"
    /\ listener = "none"
    /\ acceptor = "none"
    /\ errChan = FALSE
    /\ client = [c \in Conn |-> "away"]
    /\ left = [c \in Conn |-> FALSE]
    /\ ws = [c \in Conn |-> "none"]
    /\ dropped = [c \in Conn |-> FALSE]
    /\ cctx = [c \in Conn |-> FALSE]
    /\ up = [c \in Conn |-> "none"]
    /\ down = [c \in Conn |-> "none"]

-----------------------------------------------------------------------------
(* The user quits: m.cancel() in the terminal UI.                          *)
Cancel ==
    /\ ~cancelled
    /\ cancelled' = TRUE
    /\ UNCHANGED <<main, listener, acceptor, errChan, connVars>>

Listen ==
    /\ main = "listen"
    /\ main' = "serve"
    /\ listener' = "open"
    /\ acceptor' = "check"
    /\ UNCHANGED <<cancelled, errChan, connVars>>

(* The port is taken.                                                      *)
ListenFails ==
    /\ main = "listen"
    /\ main' = "returned"
    /\ UNCHANGED <<cancelled, listener, acceptor, errChan, connVars>>

(* Mutation of Serve: the listener is left open.                           *)
ServeKeepsListener ==
    /\ main = "serve"
    /\ cancelled \/ errChan
    /\ main' = "returned"
    /\ UNCHANGED <<cancelled, listener, acceptor, errChan, connVars>>

(* The final select, and the deferred close of the listener, which resets  *)
(* the connections nobody has accepted yet.                                *)
Serve ==
    /\ main = "serve"
    /\ \/ cancelled /\ UNCHANGED errChan
       \/ errChan /\ errChan' = FALSE
    /\ main' = "returned"
    /\ listener' = "closed"
    /\ client' = [c \in Conn |-> IF client[c] = "waiting" THEN "closed" ELSE client[c]]
    /\ UNCHANGED <<cancelled, acceptor, left, ws, dropped, cctx, up, down>>

(* The accepting goroutine looks at the context before every Accept.       *)
AcceptorChecks ==
    /\ acceptor = "check"
    /\ acceptor' = IF cancelled THEN "report" ELSE "accept"
    /\ UNCHANGED <<cancelled, main, listener, errChan, connVars>>

Accept(c) ==
    /\ acceptor = "accept" /\ listener = "open" /\ client[c] = "waiting"
    /\ client' = [client EXCEPT ![c] = "open"]
    /\ down' = [down EXCEPT ![c] = "dial"]
    /\ acceptor' = "check"
    /\ UNCHANGED <<cancelled, main, listener, errChan, left, ws, dropped, cctx, up>>

(* Mutation of AcceptFails: a failed Accept is reported like a cancellation. *)
AcceptFailureReported ==
    /\ acceptor = "accept"
    /\ acceptor' = "report"
    /\ UNCHANGED <<cancelled, main, listener, errChan, connVars>>

(* Accept fails on a closed listener, or for want of file descriptors.     *)
AcceptFails ==
    /\ acceptor = "accept"
    /\ acceptor' = "check"
    /\ UNCHANGED <<cancelled, main, listener, errChan, connVars>>

AcceptorReports ==
    /\ acceptor = "report" /\ ~errChan
    /\ errChan' = TRUE
    /\ acceptor' = "ended"
    /\ UNCHANGED <<cancelled, main, listener, connVars>>

-----------------------------------------------------------------------------
(* The two ends of a connection, outside of the program.                   *)
ClientConnects(c) ==
    /\ listener = "open" /\ client[c] = "away"
    /\ client' = [client EXCEPT ![c] = "waiting"]
    /\ UNCHANGED <<tunnelVars, left, ws, dropped, cctx, up, down>>

ClientLeaves(c) ==
    /\ client[c] \in {"waiting", "open"} /\ ~left[c]
    /\ left' = [left EXCEPT ![c] = TRUE]
    /\ UNCHANGED <<tunnelVars, client, ws, dropped, cctx, up, down>>

WorkstationDrops(c) ==
    /\ ws[c] = "open" /\ ~dropped[c]
    /\ dropped' = [dropped EXCEPT ![c] = TRUE]
    /\ UNCHANGED <<tunnelVars, client, left, ws, cctx, up, down>>

-----------------------------------------------------------------------------
(* handleConnection: connectWebsocket, the goroutine, and the loop.        *)
DialSucceeds(c) ==
    /\ down[c] = "dial"
    /\ ws' = [ws EXCEPT ![c] = "open"]
    /\ up' = [up EXCEPT ![c] = "check"]
    /\ down' = [down EXCEPT ![c] = "check"]
    /\ UNCHANGED <<tunnelVars, client, left, dropped, cctx>>

(* Mutation of DialFails: the connection is left in a state of its own.    *)
DialFailsUnhandled(c) ==
    /\ down[c] = "dial"
    /\ down' = [down EXCEPT ![c] = "failed"]
    /\ UNCHANGED <<tunnelVars, client, left, ws, dropped, cctx, up>>

(* The deferred closes come later: nobody closes the client's connection.  *)
DialFails(c) ==
    /\ down[c] = "dial"
    /\ down' = [down EXCEPT ![c] = "ended"]
    /\ UNCHANGED <<tunnelVars, client, left, ws, dropped, cctx, up>>

DownGoes(c, l) ==
    /\ down' = [down EXCEPT ![c] = l]
    /\ UNCHANGED <<tunnelVars, client, left, ws, dropped, cctx, up>>

(* Mutation of DownChecks: the loop also ends with the tunnel.             *)
DownChecksTunnel(c) ==
    /\ down[c] = "check"
    /\ DownGoes(c, IF cctx[c] \/ cancelled THEN "closeWs" ELSE "read")

DownChecks(c) == down[c] = "check" /\ DownGoes(c, IF cctx[c] THEN "closeWs" ELSE "read")

(* The workstation sends something; ReadMessage waits until it does.       *)
DownReads(c) == down[c] = "read" /\ ~dropped[c] /\ DownGoes(c, "write")

DownReadFails(c) == down[c] = "read" /\ dropped[c] /\ DownGoes(c, "closeWs")

DownWrites(c) == down[c] = "write" /\ DownGoes(c, "check")

DownWriteFails(c) == down[c] = "write" /\ left[c] /\ DownGoes(c, "closeWs")

(* The deferred calls, last one first.                                     *)
CloseWs(c) ==
    /\ down[c] = "closeWs"
    /\ ws' = [ws EXCEPT ![c] = "closed"]
    /\ down' = [down EXCEPT ![c] = "closeClient"]
    /\ UNCHANGED <<tunnelVars, client, left, dropped, cctx, up>>

(* Mutation of CloseClient: only the websocket is closed.                  *)
KeepClient(c) == down[c] = "closeClient" /\ DownGoes(c, "cancel")

CloseClient(c) ==
    /\ down[c] = "closeClient"
    /\ client' = [client EXCEPT ![c] = "closed"]
    /\ down' = [down EXCEPT ![c] = "cancel"]
    /\ UNCHANGED <<tunnelVars, left, ws, dropped, cctx, up>>

DownCancels(c) ==
    /\ down[c] = "cancel"
    /\ cctx' = [cctx EXCEPT ![c] = TRUE]
    /\ down' = [down EXCEPT ![c] = "ended"]
    /\ UNCHANGED <<tunnelVars, client, left, ws, dropped, up>>

-----------------------------------------------------------------------------
(* The goroutine from the client to the workstation.                       *)
UpGoes(c, l) ==
    /\ up' = [up EXCEPT ![c] = l]
    /\ UNCHANGED <<tunnelVars, client, left, ws, dropped, cctx, down>>

(* It cancels the context of the connection when it returns.               *)
UpEnds(c) ==
    /\ up' = [up EXCEPT ![c] = "ended"]
    /\ cctx' = [cctx EXCEPT ![c] = TRUE]
    /\ UNCHANGED <<tunnelVars, client, left, ws, dropped, down>>

UpChecks(c) == up[c] = "check" /\ IF cctx[c] THEN UpEnds(c) ELSE UpGoes(c, "read")

(* The client sends something; Read waits until it does.                   *)
UpReads(c) == up[c] = "read" /\ client[c] = "open" /\ ~left[c] /\ UpGoes(c, "write")

UpReadFails(c) == up[c] = "read" /\ (client[c] = "closed" \/ left[c]) /\ UpEnds(c)

UpWrites(c) == up[c] = "write" /\ ws[c] = "open" /\ UpGoes(c, "check")

UpWriteFails(c) == up[c] = "write" /\ (ws[c] = "closed" \/ dropped[c]) /\ UpEnds(c)

-----------------------------------------------------------------------------
AcceptsOne == \E c \in Conn : Accept(c)

Acceptor == AcceptorChecks \/ AcceptsOne \/ AcceptorReports

Down(c) ==
    \/ DialSucceeds(c) \/ DialFails(c) \/ DownChecks(c) \/ DownReadFails(c) \/ DownWrites(c)
    \/ CloseWs(c) \/ CloseClient(c) \/ DownCancels(c)

Up(c) == UpChecks(c) \/ UpReadFails(c) \/ UpWrites(c) \/ UpWriteFails(c)

Peers(c) ==
    \/ ClientConnects(c) \/ ClientLeaves(c) \/ WorkstationDrops(c)
    \/ DownReads(c) \/ DownWriteFails(c) \/ UpReads(c)

Next ==
    \/ Cancel \/ Listen \/ ListenFails \/ Serve
    \/ Acceptor \/ AcceptFails
    \/ \E c \in Conn : Down(c) \/ Up(c) \/ Peers(c)

Spec == Init /\ [][Next]_vars

(* The goroutines run, a dial ends, and what is written is taken or        *)
(* refused.  An open listener fails now and then, but not for ever.        *)
(* Nobody promises to send, to leave, to drop or to cancel.                *)
FairSpec ==
    /\ Spec
    /\ WF_vars(Listen) /\ WF_vars(Serve)
    /\ WF_vars(Acceptor) /\ SF_vars(AcceptsOne)
    /\ WF_vars(listener = "closed" /\ AcceptFails)
    /\ \A c \in Conn : WF_vars(Down(c)) /\ WF_vars(Up(c))

-----------------------------------------------------------------------------
(* The accepting goroutine never waits to report its error (tunnel.go 75,  *)
(* 82): the one place of errChan is enough, also when nobody reads it.     *)
ReportNeverBlocks == acceptor = "report" => ~errChan

(* An open tunnel returns only when it is cancelled: no failing Accept and *)
(* no connection ends it (tunnel.go 85-91, 112-120).                       *)
TunnelStaysOpen == [][main = "serve" /\ main' = "returned" => cancelled]_vars

(* A connection is taken down only when one of its two ends is gone, not   *)
(* by the other connections and not by the end of the tunnel: it has a     *)
(* context of its own (tunnel.go 261).                                     *)
EndsForAReason ==
    \A c \in Conn :
        cctx[c] \/ down[c] \in {"closeWs", "closeClient", "cancel"} => left[c] \/ dropped[c]

(* If the workstation drops a connection, both goroutines end and the      *)
(* client's connection is closed: closing it is what wakes up the          *)
(* goroutine that reads from it (tunnel.go 264, 276).                      *)
DropEndsConnection ==
    \A c \in Conn :
        dropped[c] ~> (down[c] = "ended" /\ up[c] = "ended" /\ client[c] = "closed")

(* A cancelled tunnel returns, and its accepting goroutine with it         *)
(* (tunnel.go 65, 81-90, 113); no client is left waiting: it is accepted,  *)
(* however slow the other connections are, or reset (93).                  *)
TunnelEnds ==
    /\ cancelled ~> (main = "returned" /\ acceptor \in {"none", "ended"})
    /\ \A c \in Conn : client[c] = "waiting" ~> client[c] # "waiting"

=============================================================================
