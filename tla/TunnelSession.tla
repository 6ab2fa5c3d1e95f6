---------------------------- MODULE TunnelSession ----------------------------
(***************************************************************************)
(* One run of `gws tunnel` (cmd/tunnel.go): the terminal UI, of which      *)
(* ExitDecision says what matters here; the goroutine of the operation,    *)
(* which stops (with --restart), starts and tunnels the workstation        *)
(* (internal/gcloud); the hook after the UI has left, which stops it; the  *)
(* mutex and the cached client both share; and the workstation itself.     *)
(*                                                                         *)
(* A read of the workstation's state and the request that follows from it  *)
(* are separate steps.  What the environment may do to a session is a      *)
(* parameter, so that a run can say which of it a promise survives.        *)
(***************************************************************************)
EXTENDS ExitDecision

CONSTANT Faults  \* what may happen to the session, a subset of AllFaults

AllFaults == {
    "hangup",       \* the terminal is closed (SIGHUP)
    "login",        \* no stored token can be refreshed: a browser login is needed
    "expiry",       \* the access token expires
    "slow_server",  \* a start request is under way for a while
    "start",        \* a workstation doesn't come up: it is stopped again
    "rpc"}          \* a call fails, or runs into its deadline

ASSUME FaultsAssumption == Faults \subseteq AllFaults

VARIABLES
    restart,     \* flagRestart
    stage,       \* the call of the operation: restart, start or tunnel
    op,          \* where the operation is in it
    seen,        \* the state its last GetWorkstation returned
    hook,        \* where the command is after p.Run
    hookSeen,    \* the state its GetWorkstation returned
    mutex,       \* clientMu: who holds it
    client,      \* cachedClient: whose context its token source is bound to
    fresh,       \* the access token of the client has not expired
    ws,          \* the state of the workstation
    startSent,   \* a start request is under way to the server
    sawStopped,  \* history: the workstation was stopped during the session
    calm         \* history: nothing has happened that stop-on-exit doesn't survive

opVars == <<stage, op, seen>>
hookVars == <<hook, hookSeen>>
clientVars == <<mutex, client, fresh>>
history == <<sawStopped, calm>>
cloudVars == <<ws, startSent, history>>
sessionVars == <<restart, opVars, hookVars, clientVars, cloudVars>>
vars == <<exitVars, sessionVars>>

WorkstationState == {"STOPPED", "STARTING", "RUNNING", "STOPPING"}

TypeOK ==
    /\ ExitTypeOK
    /\ restart \in BOOLEAN
    /\ stage \in {"restart", "start", "tunnel"}
    /\ op \in {"setup", "login", "read", "act", "waitStop", "sending", "waitStart", "poll",
               "listening", "returned"}
    /\ seen \in WorkstationState
    /\ hook \in {"idle", "setup", "login", "read", "act", "close", "over"}
    /\ hookSeen \in WorkstationState
    /\ mutex \in {"free", "op", "hook"}
    /\ client \in {"none", "op", "hook"}
    /\ fresh \in BOOLEAN
    /\ ws \in WorkstationState
    /\ startSent \in BOOLEAN
    /\ sawStopped \in BOOLEAN
    /\ calm \in BOOLEAN

Init ==
    /\ ExitInit
    /\ restart \in BOOLEAN
    /\ stage = IF restart THEN "restart" ELSE "start"
    /\ op = "setup"
    /\ seen = "STOPPED"
    /\ hook = "idle"
    /\ hookSeen = "STOPPED"
    /\ mutex = "free"
    /\ client = "none"
    /\ fresh = TRUE
    /\ ws \in WorkstationState
    /\ startSent = FALSE
    /\ sawStopped = (ws = "STOPPED")
    /\ calm = TRUE

-----------------------------------------------------------------------------
(* The process lives until the client is closed after the hook.            *)
Alive == hook # "over"

(* A call needs a live context and a token: a fresh one, or a source whose *)
(* context still allows to refresh it.                                     *)
SourceAlive == client = "hook" \/ (client = "op" /\ ~cancelled)

CanCall(live) == live /\ (fresh \/ SourceAlive)

CallWorks(live) == CanCall(live) /\ fresh' = TRUE

CallFails(live) == (~CanCall(live) \/ "rpc" \in Faults) /\ fresh' = fresh

(* Mutation of StopRequest: a state the program doesn't know.              *)
StopRequestUnknown == ws' = "UNSPECIFIED"

(* The server takes a stop request.                                        *)
StopRequest == ws' = IF ws \in {"RUNNING", "STARTING"} THEN "STOPPING" ELSE ws

(* The server takes a start request.                                       *)
StartRequest == ws' = IF ws = "STOPPED" THEN "STARTING" ELSE ws

-----------------------------------------------------------------------------
(* The operation.  Every stage begins with setup: client, then GetWorkstation. *)
OpSetup ==
    /\ Alive /\ op = "setup" /\ mutex = "free"
    /\ IF client = "none"
       THEN op' = "login" /\ mutex' = "op"
       ELSE op' = "read" /\ mutex' = mutex
    /\ UNCHANGED <<exitVars, restart, stage, seen, hookVars, client, fresh, cloudVars>>

(* Mutation of OpLoginFails: clientMu is not released.                     *)
OpLoginFailsLocked ==
    /\ Alive /\ op = "login"
    /\ cancelled \/ "rpc" \in Faults
    /\ op' = "returned"
    /\ UNCHANGED <<exitVars, restart, stage, seen, hookVars, clientVars, cloudVars>>

(* Login returns, by refreshing the stored token or with the user's help,  *)
(* and the client keeps the context of the login.                          *)
OpLogsIn ==
    /\ Alive /\ op = "login" /\ ~cancelled
    /\ op' = "read"
    /\ mutex' = "free"
    /\ client' = "op"
    /\ fresh' = TRUE
    /\ UNCHANGED <<exitVars, restart, stage, seen, hookVars, cloudVars>>

(* Login gives up: its context was cancelled, or the exchange failed.      *)
OpLoginFails ==
    /\ Alive /\ op = "login"
    /\ cancelled \/ "rpc" \in Faults
    /\ op' = "returned"
    /\ mutex' = "free"
    /\ UNCHANGED <<exitVars, restart, stage, seen, hookVars, client, fresh, cloudVars>>

OpReads ==
    /\ Alive /\ op = "read" /\ CallWorks(~cancelled)
    /\ seen' = ws
    /\ op' = IF stage = "tunnel" THEN "listening" ELSE "act"
    /\ UNCHANGED <<exitVars, restart, stage, hookVars, mutex, client, cloudVars>>

InCall ==
    \/ op \in {"read", "waitStop", "sending", "waitStart", "poll"}
    \/ op = "act" /\ stage = "restart" /\ seen # "STOPPED"
    \/ op = "act" /\ stage = "start" /\ seen = "STOPPED"

(* The wait for a start has a context of its own, which nothing cancels.   *)
OpContext == ~cancelled \/ op = "waitStart"

(* A call that fails ends the operation.                                   *)
OpCallFails ==
    /\ Alive /\ InCall
    /\ CallFails(OpContext)
    /\ op' = "returned"
    /\ UNCHANGED <<exitVars, restart, stage, seen, hookVars, mutex, client, cloudVars>>

EnterStage(s) == stage' = s /\ op' = "setup"

(* StopWorkstation: the request unless it is stopped, then wait for it.    *)
OpRequestsStop ==
    /\ Alive /\ op = "act" /\ stage = "restart" /\ seen # "STOPPED"
    /\ CallWorks(~cancelled)
    /\ StopRequest
    /\ op' = "waitStop"
    /\ UNCHANGED <<exitVars, restart, stage, seen, hookVars, mutex, client, startSent, history>>

OpFindsStopped ==
    /\ Alive /\ op = "act" /\ stage = "restart" /\ seen = "STOPPED"
    /\ EnterStage("start")
    /\ UNCHANGED <<exitVars, restart, seen, hookVars, clientVars, cloudVars>>

(* Mutation of OpStopCompletes: the restart doesn't wait for the stop.     *)
OpStopNotAwaited ==
    /\ Alive /\ op = "waitStop" /\ CallWorks(~cancelled)
    /\ EnterStage("start")
    /\ UNCHANGED <<exitVars, restart, seen, hookVars, mutex, client, cloudVars>>

OpStopCompletes ==
    /\ Alive /\ op = "waitStop" /\ ws = "STOPPED" /\ CallWorks(~cancelled)
    /\ EnterStage("start")
    /\ UNCHANGED <<exitVars, restart, seen, hookVars, mutex, client, cloudVars>>

(* StartWorkstation: the request if it is stopped.  The call returns when  *)
(* the server has taken it; the wait after that cannot be cancelled.       *)
OpRequestsStart ==
    /\ Alive /\ op = "act" /\ stage = "start" /\ seen = "STOPPED"
    /\ CallWorks(~cancelled)
    /\ \/ op' = "waitStart" /\ StartRequest /\ UNCHANGED <<startSent, calm>>
       \/ /\ "slow_server" \in Faults
          /\ op' = "sending" /\ startSent' = TRUE /\ calm' = FALSE /\ UNCHANGED ws
    /\ UNCHANGED <<exitVars, restart, stage, seen, hookVars, mutex, client, sawStopped>>

OpStartCompletes ==
    /\ Alive /\ op = "waitStart" /\ ws = "RUNNING" /\ CallWorks(TRUE)
    /\ EnterStage("tunnel")
    /\ UNCHANGED <<exitVars, restart, seen, hookVars, mutex, client, cloudVars>>

OpStartAborted ==
    /\ Alive /\ op = "waitStart" /\ ws \in {"STOPPING", "STOPPED"}
    /\ op' = "returned"
    /\ UNCHANGED <<exitVars, restart, stage, seen, hookVars, clientVars, cloudVars>>

(* A running workstation is tunnelled at once, and so is a stopping one.   *)
OpNeedsNoStart ==
    /\ Alive /\ op = "act" /\ stage = "start" /\ seen \in {"RUNNING", "STOPPING"}
    /\ EnterStage("tunnel")
    /\ UNCHANGED <<exitVars, restart, seen, hookVars, clientVars, cloudVars>>

(* Somebody else is starting it: waitForWorkstationRunning.                *)
OpPolls ==
    /\ Alive /\ op = "act" /\ stage = "start" /\ seen = "STARTING"
    /\ op' = "poll"
    /\ UNCHANGED <<exitVars, restart, stage, seen, hookVars, clientVars, cloudVars>>

OpPollSucceeds ==
    /\ Alive /\ op = "poll" /\ ws = "RUNNING" /\ CallWorks(~cancelled)
    /\ EnterStage("tunnel")
    /\ UNCHANGED <<exitVars, restart, seen, hookVars, mutex, client, cloudVars>>

(* Mutation of OpPollTimesOut: only the context ends the poll.             *)
OpPollNeverTimesOut ==
    /\ Alive /\ op = "poll" /\ cancelled
    /\ op' = "returned"
    /\ UNCHANGED <<exitVars, restart, stage, seen, hookVars, clientVars, cloudVars>>

(* time.After(StartTimeout) ends the poll, whatever has become of the start. *)
OpPollTimesOut ==
    /\ Alive /\ op = "poll"
    /\ op' = "returned"
    /\ UNCHANGED <<exitVars, restart, stage, seen, hookVars, clientVars, cloudVars>>

(* TCPTunnelWithPassphrase listens until its context is cancelled.         *)
OpTunnelCancelled ==
    /\ Alive /\ op = "listening" /\ cancelled
    /\ op' = "returned"
    /\ UNCHANGED <<exitVars, restart, stage, seen, hookVars, clientVars, cloudVars>>

(* What the operation does by itself.  Its calls are certain to fail only  *)
(* when their context or the token source is dead ...                      *)
OpWorks ==
    \/ OpSetup \/ OpReads
    \/ cancelled /\ OpLoginFails
    \/ ~CanCall(OpContext) /\ OpCallFails
    \/ OpRequestsStop \/ OpFindsStopped \/ OpStopCompletes
    \/ OpRequestsStart \/ OpStartCompletes \/ OpStartAborted
    \/ OpNeedsNoStart \/ OpPolls \/ OpPollSucceeds \/ OpPollTimesOut
    \/ OpTunnelCancelled

(* ... and may otherwise fail, but nothing ends a wait by failing it.      *)
OpFails == OpLoginFails \/ OpCallFails

-----------------------------------------------------------------------------
(* Mutation of HookBegins: the workstation is stopped whatever was answered. *)
HookAlwaysRuns ==
    /\ gone /\ hook = "idle"
    /\ hook' = "setup"
    /\ UNCHANGED <<exitVars, restart, opVars, hookSeen, clientVars, cloudVars>>

(* The hook after p.Run: StopWorkstationsForContexts with ten seconds.     *)
HookBegins ==
    /\ gone /\ hook = "idle"
    /\ hook' = IF stop THEN "setup" ELSE "close"
    /\ UNCHANGED <<exitVars, restart, opVars, hookSeen, clientVars, cloudVars>>

(* The wait for the mutex has no deadline.                                 *)
HookSetup ==
    /\ hook = "setup" /\ mutex = "free"
    /\ IF client = "none"
       THEN hook' = "login" /\ mutex' = "hook"
       ELSE hook' = "read" /\ mutex' = mutex
    /\ UNCHANGED <<exitVars, restart, opVars, hookSeen, client, fresh, cloudVars>>

HookLogsIn ==
    /\ hook = "login"
    /\ hook' = "read"
    /\ mutex' = "free"
    /\ client' = "hook"
    /\ fresh' = TRUE
    /\ UNCHANGED <<exitVars, restart, opVars, hookSeen, cloudVars>>

(* Nobody logs in within ten seconds, or the exchange fails.               *)
HookLoginFails ==
    /\ hook = "login"
    /\ Faults \cap {"login", "rpc"} # {}
    /\ hook' = "close"
    /\ mutex' = "free"
    /\ UNCHANGED <<exitVars, restart, opVars, hookSeen, client, fresh, cloudVars>>

HookReads ==
    /\ hook = "read" /\ CallWorks(TRUE)
    /\ hookSeen' = ws
    /\ hook' = "act"
    /\ UNCHANGED <<exitVars, restart, opVars, mutex, client, cloudVars>>

(* StopWorkstationNow: the request unless it is stopped, without a wait.   *)
HookRequestsStop ==
    /\ hook = "act" /\ hookSeen # "STOPPED" /\ CallWorks(TRUE)
    /\ StopRequest
    /\ hook' = "close"
    /\ UNCHANGED <<exitVars, restart, opVars, hookSeen, mutex, client, startSent, history>>

(* Mutation of HookFindsStopped: only a running workstation is stopped.    *)
HookFindsNotRunning ==
    /\ hook = "act" /\ hookSeen # "RUNNING"
    /\ hook' = "close"
    /\ UNCHANGED <<exitVars, restart, opVars, hookSeen, clientVars, cloudVars>>

HookFindsStopped ==
    /\ hook = "act" /\ hookSeen = "STOPPED"
    /\ hook' = "close"
    /\ UNCHANGED <<exitVars, restart, opVars, hookSeen, clientVars, cloudVars>>

(* The error of a failed call is discarded.                                *)
HookCallFails ==
    /\ hook = "read" \/ (hook = "act" /\ hookSeen # "STOPPED")
    /\ CallFails(TRUE)
    /\ hook' = "close"
    /\ calm' = FALSE
    /\ UNCHANGED <<exitVars, restart, opVars, hookSeen, mutex, client, ws, startSent, sawStopped>>

(* The command has returned; run closes the client, under the mutex, and   *)
(* the process ends.                                                       *)
CloseClient ==
    /\ hook = "close" /\ mutex = "free"
    /\ hook' = "over"
    /\ UNCHANGED <<exitVars, restart, opVars, hookSeen, clientVars, cloudVars>>

HookWorks ==
    \/ HookBegins \/ HookSetup \/ HookLoginFails \/ HookReads
    \/ HookRequestsStop \/ HookFindsStopped \/ HookCallFails
    \/ CloseClient

-----------------------------------------------------------------------------
(* The service, which also goes on when the process has ended.             *)
ServerTakesStart ==
    /\ startSent
    /\ startSent' = FALSE
    /\ StartRequest
    /\ op' = IF Alive /\ op = "sending" THEN "waitStart" ELSE op
    /\ UNCHANGED <<exitVars, restart, stage, seen, hookVars, clientVars, history>>

ServerStarts ==
    /\ ws = "STARTING"
    /\ ws' = "RUNNING"
    /\ UNCHANGED <<exitVars, restart, opVars, hookVars, clientVars, startSent, history>>

(* The start fails: the operation on the server ends with an error.        *)
ServerFailsToStart ==
    /\ "start" \in Faults /\ ws = "STARTING"
    /\ ws' = "STOPPED"
    /\ sawStopped' = TRUE
    /\ UNCHANGED <<exitVars, restart, opVars, hookVars, clientVars, startSent, calm>>

ServerStops ==
    /\ ws = "STOPPING"
    /\ ws' = "STOPPED"
    /\ sawStopped' = TRUE
    /\ UNCHANGED <<exitVars, restart, opVars, hookVars, clientVars, startSent, calm>>

ServerWorks == ServerTakesStart \/ ServerStarts \/ ServerFailsToStart \/ ServerStops

TokenExpires ==
    /\ "expiry" \in Faults /\ client # "none" /\ fresh
    /\ fresh' = FALSE
    /\ calm' = FALSE
    /\ UNCHANGED <<exitVars, restart, opVars, hookVars, mutex, client, ws, startSent, sawStopped>>

-----------------------------------------------------------------------------
(* The terminal UI: it learns that the operation has returned, and it is   *)
(* the tunnel command's, which doesn't quit for that.                      *)
UiStep ==
    /\ \/ UserStep
       \/ Finish /\ op = "returned" /\ UNCHANGED leaving
    /\ UNCHANGED sessionVars

(* The terminal is closed: the loop ends, the operation isn't cancelled.   *)
HangsUp ==
    /\ "hangup" \in Faults /\ Hangup
    /\ calm' = (calm /\ (cancelled \/ done))
    /\ UNCHANGED <<restart, opVars, hookVars, clientVars, ws, startSent, sawStopped>>

UiLeaves == Leave /\ UNCHANGED sessionVars

Next ==
    \/ UiStep \/ HangsUp \/ UiLeaves
    \/ OpLogsIn \/ OpWorks \/ OpFails
    \/ HookLogsIn \/ HookWorks
    \/ ServerWorks
    \/ TokenExpires

Spec == Init /\ [][Next]_vars

(* The goroutines run, the loop ends when told to, and the service carries *)
(* out or fails what it was asked to: the wait for a start, which has no   *)
(* deadline, ends with that and with nothing else.  A login is only        *)
(* certain to come about if it needs no user; the user, the terminal, the  *)
(* token and the failures promise nothing, but that every call of the hook *)
(* has ended when its ten seconds are over.                                *)
FairSpec ==
    /\ Spec
    /\ WF_vars(UiLeaves)
    /\ WF_vars(OpWorks)
    /\ WF_vars("login" \notin Faults /\ OpLogsIn)
    /\ WF_vars(HookWorks)
    /\ WF_vars("login" \notin Faults /\ HookLogsIn)
    /\ WF_vars(ServerWorks)

-----------------------------------------------------------------------------
(* README.md 356, stopWorkstationOnExitTunnel: "stops the cloud            *)
(* workstation when the SSH tunnel exits".  When the process ends with     *)
(* stop-on-exit decided, and the session ever had a client, the            *)
(* workstation is stopped or stopping and nothing will start it again.     *)
StopOnExit ==
    hook = "over" /\ stop /\ client # "none"
        => ws \in {"STOPPED", "STOPPING"} /\ ~startSent

(* What of it the code keeps: unless the terminal was closed on a running  *)
(* operation, the token expired, a start request was taken late or a call  *)
(* of the hook failed, stop-on-exit leaves nothing running, wherever the   *)
(* operation was when the user quit (cmd/tunnel.go 69-93).                 *)
CalmStopOnExit == calm => StopOnExit

(* clientMu is held exactly during a login, so the operation and the hook  *)
(* never log in at the same time and never overwrite each other's client   *)
(* (client.go 35-55).                                                      *)
ClientMutex ==
    /\ mutex = "op" <=> op = "login"
    /\ mutex = "hook" <=> hook = "login"

(* With --restart nothing is started or tunnelled before the workstation   *)
(* was seen to stop (cmd/tunnel.go 40-44, client.go 509-536).              *)
RestartCycles == restart /\ stage # "restart" => sawStopped

(* A session turns a workstation off only if the user restarts it or the   *)
(* exit decision says so, whatever fails (cmd/tunnel.go 82, client.go 483).*)
ConsentedStops == [][ws' = "STOPPING" /\ ws # "STOPPING" => restart \/ (gone /\ stop)]_vars

(* A session whose operation was cancelled or has returned when the UI     *)
(* left ends, whatever fails on the way.  (If the terminal was closed      *)
(* during a browser login the hook waits for the client mutex for ever.)   *)
QuitEnds == gone /\ (cancelled \/ done) ~> ~Alive

(* The operation gets to listening, gives up, or is in a browser login,    *)
(* for good: no state it may find the workstation in keeps it waiting, nor *)
(* one that fails to start, whoever was starting it (client.go 96, 138).   *)
TunnelSettles == <>[](op \in {"login", "listening", "returned"} \/ ~Alive)
=============================================================================
