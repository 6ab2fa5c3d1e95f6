-------------------------------- MODULE Login --------------------------------
(***************************************************************************)
(* One command that logs in (Login, or CodeLogin for `gws login') and then *)
(* uses its token (TokenSourceWithRefreshCheck), while another process may *)
(* log out (internal/gcloud/auth.go, types/config.go, cmd/logout.go).      *)
(*                                                                         *)
(* The browser login is a goroutine that waits for the first result in a   *)
(* channel of capacity one, and one handler per request to the callback    *)
(* server, each of which puts its result there.  The login, the handlers,  *)
(* the calls and the periodic check all store tokens through               *)
(* Config.SetToken, which takes no lock.                                   *)
(***************************************************************************)
EXTENDS TokenStore, Sequences, FiniteSets

CONSTANTS Request,   \* requests to the callback server
          Failed,    \* the result of a login without a token
          Unloaded   \* Config.Token is nil: the configuration was not loaded

ASSUME LoginAssumption ==
    /\ Failed \notin Nat /\ Unloaded \notin Nat
    /\ {"login", "call", "check"} \cap Request = {}

User == {"call", "check"}               \* Token() and periodicCheck
Writer == Request \cup User \cup {"login"}

VARIABLES at,         \* where each of them is
          tok,        \* the token (or result) it carries
          kind,       \* the command: CodeLogin ("code"), a command with a loaded
                      \* configuration ("browser"), a first setup ("setup")
          cancelled,  \* the command's context
          server,     \* the callback server
          results,    \* shutdownChan
          mem,        \* Config.Token
          current,    \* the token of the oauth2 token source
          last,       \* lastToken
          minted,     \* tokens issued so far
          alive,      \* the command has not exited
          logout,     \* where a `gws logout' in another process is
          alone,      \* history: no two writers stored at once
          outAlone    \* history: no command ran when the logout began

login == <<at, tok, kind, cancelled, server, results, mem, current, last, minted, alive>>
vars == <<login, logout, alone, outAlone, store>>

Result == Token \cup {NoToken, Failed}

TypeOK ==
    /\ StoreOK
    /\ at \in [Writer -> {"idle", "prompt", "browser", "wait", "close", "exchange", "set", "save",
                          "reply", "note", "returned"}]
    /\ tok \in [Writer -> Result]
    /\ kind \in {"code", "browser", "setup"}
    /\ server \in {"none", "starting", "open", "closed"}
    /\ results \in Seq(Result) /\ Len(results) <= 1
    /\ mem \in Token \cup {NoToken, Unloaded}
    /\ current \in Token \cup {NoToken} /\ last \in Token \cup {NoToken}
    /\ minted \in 0 .. MaxToken
    /\ logout \in {"idle", "file", "done"}
    /\ {cancelled, alive, alone, outAlone} \subseteq BOOLEAN

(* A loaded configuration has what LoadToken returned.  Token 1 may have   *)
(* been stored, and a copy of it left in the other place.                  *)
Init ==
    /\ minted = 1
    /\ keyring \in {NoToken, 1} /\ file \in {NoToken, 1}
    /\ answers \in BOOLEAN /\ steady = TRUE
    /\ kind \in {"code", "browser", "setup"}
    /\ mem = IF kind = "setup" THEN Unloaded ELSE Loaded
    /\ at = [w \in Writer |-> "idle"] /\ tok = [w \in Writer |-> NoToken]
    /\ cancelled = FALSE /\ alive = TRUE
    /\ server = "none" /\ results = <<>>
    /\ current = NoToken /\ last = NoToken
    /\ logout = "idle" /\ alone = TRUE /\ outAlone = FALSE

-----------------------------------------------------------------------------
Goto(w, l) == at' = [at EXCEPT ![w] = l]

Carry(w, t) == tok' = [tok EXCEPT ![w] = t]

(* Google issues a new token; nothing is issued to a cancelled context.    *)
Issue(w) == ~cancelled /\ minted < MaxToken /\ minted' = minted + 1 /\ Carry(w, minted + 1)

Storing == {w \in Writer : at[w] \in {"set", "save"}}

(* What SetToken is called with, from wherever w goes on afterwards.       *)
StartsStoring(w) == Goto(w, "set") /\ alone' = (alone /\ Storing = {})

Return(r) == Goto("login", "returned") /\ Carry("login", r)

(* The stored token is tried first; it may still be valid.                 *)
Refresh ==
    /\ alive /\ at["login"] = "idle" /\ mem \in Token
    /\ \/ Issue("login")
       \/ Carry("login", mem) /\ UNCHANGED minted
    /\ StartsStoring("login")
    /\ UNCHANGED <<kind, cancelled, server, results, mem, current, last, alive, logout, outAlone, store>>

(* No token, or the refresh fails, also because the login was cancelled.   *)
RefreshFails ==
    /\ alive /\ at["login"] = "idle"
    /\ Goto("login", IF kind = "code" THEN "prompt" ELSE "browser")
    /\ UNCHANGED <<tok, kind, cancelled, server, results, mem, current, last, minted, alive, logout,
                   alone, outAlone, store>>

(* CodeLogin: a code is pasted, and exchanged or not, or the wait is       *)
(* cancelled.                                                              *)
PasteCode ==
    /\ alive /\ at["login"] = "prompt"
    /\ Issue("login")
    /\ StartsStoring("login")
    /\ UNCHANGED <<kind, cancelled, server, results, mem, current, last, alive, logout, outAlone, store>>

PasteFails ==
    /\ alive /\ at["login"] = "prompt"
    /\ Return(Failed)
    /\ UNCHANGED <<kind, cancelled, server, results, mem, current, last, minted, alive, logout,
                   alone, outAlone, store>>

(* Login: a free port is found and the browser opened.                     *)
OpenBrowser ==
    /\ alive /\ at["login"] = "browser"
    /\ \/ Goto("login", "wait") /\ server' = "starting" /\ UNCHANGED tok
       \/ Return(Failed) /\ UNCHANGED server
    /\ UNCHANGED <<kind, cancelled, results, mem, current, last, minted, alive, logout,
                   alone, outAlone, store>>

(* ListenAndServe: the port may have been taken since.                     *)
Listen ==
    /\ alive /\ server = "starting"
    /\ \/ server' = "open" /\ UNCHANGED results
       \/ server' = "closed" /\ results' = Append(results, Failed)
    /\ UNCHANGED <<at, tok, kind, cancelled, mem, current, last, minted, alive, logout,
                   alone, outAlone, store>>

(* A request: with the right state and a code, or without.                 *)
Callback(r) ==
    /\ alive /\ server = "open" /\ at[r] = "idle"
    /\ \/ Goto(r, "exchange") /\ UNCHANGED tok
       \/ Goto(r, "reply") /\ Carry(r, Failed)
    /\ UNCHANGED <<kind, cancelled, server, results, mem, current, last, minted, alive, logout,
                   alone, outAlone, store>>

Exchange(r) ==
    /\ alive /\ at[r] = "exchange"
    /\ \/ Issue(r) /\ StartsStoring(r)
       \/ Goto(r, "reply") /\ Carry(r, Failed) /\ UNCHANGED <<minted, alone>>
    /\ UNCHANGED <<kind, cancelled, server, results, mem, current, last, alive, logout, outAlone, store>>

(* Mutation of Reply: the channel has no buffer.                           *)
ReplyUnbuffered(r) ==
    /\ alive /\ at[r] = "reply" /\ at["login"] = "wait" /\ results = <<>>
    /\ results' = Append(results, tok[r])
    /\ Goto(r, "returned") /\ Carry(r, NoToken)
    /\ UNCHANGED <<kind, cancelled, server, mem, current, last, minted, alive, logout,
                   alone, outAlone, store>>

(* Mutation of Reply: the handler doesn't wait for room.                   *)
ReplyAtOnce(r) ==
    /\ alive /\ at[r] = "reply"
    /\ results' = Append(results, tok[r])
    /\ Goto(r, "returned") /\ Carry(r, NoToken)
    /\ UNCHANGED <<kind, cancelled, server, mem, current, last, minted, alive, logout,
                   alone, outAlone, store>>

(* The handler waits for room in the channel.                              *)
Reply(r) ==
    /\ alive /\ at[r] = "reply" /\ results = <<>>
    /\ results' = Append(results, tok[r])
    /\ Goto(r, "returned") /\ Carry(r, NoToken)
    /\ UNCHANGED <<kind, cancelled, server, mem, current, last, minted, alive, logout,
                   alone, outAlone, store>>

TakeResult ==
    /\ alive /\ at["login"] = "wait" /\ results # <<>>
    /\ Carry("login", Head(results)) /\ results' = Tail(results)
    /\ Goto("login", "close") /\ server' = "closed"
    /\ UNCHANGED <<kind, cancelled, mem, current, last, minted, alive, logout, alone, outAlone, store>>

WaitCancelled ==
    /\ alive /\ at["login"] = "wait" /\ cancelled
    /\ Carry("login", Failed)
    /\ Goto("login", "close") /\ server' = "closed"
    /\ UNCHANGED <<kind, cancelled, results, mem, current, last, minted, alive, logout,
                   alone, outAlone, store>>

Handled == \A r \in Request : at[r] \in {"idle", "returned"}

(* server.Shutdown waits for the handlers or for the context.              *)
Shutdown ==
    /\ alive /\ at["login"] = "close" /\ (Handled \/ cancelled)
    /\ Goto("login", "returned")
    /\ UNCHANGED <<tok, kind, cancelled, server, results, mem, current, last, minted, alive, logout,
                   alone, outAlone, store>>

-----------------------------------------------------------------------------
(* Where a writer goes on when its token is stored.                        *)
After(w) == IF w = "login" THEN "returned" ELSE IF w \in User THEN "note" ELSE "reply"

(* Config.SetToken: the token is changed in memory and, if it is another   *)
(* one, saved.  A configuration without a token gets it first and then     *)
(* finds no difference.                                                    *)
SetMemory(w) ==
    /\ alive /\ at[w] = "set"
    /\ mem' = tok[w]
    /\ Goto(w, IF mem \in {Unloaded, tok[w]} THEN After(w) ELSE "save")
    /\ UNCHANGED <<tok, kind, cancelled, server, results, current, last, minted, alive, logout,
                   alone, outAlone, store>>

SaveToken(w) ==
    /\ alive /\ at[w] = "save"
    /\ Save(tok[w])
    /\ Goto(w, After(w))
    /\ UNCHANGED <<tok, kind, cancelled, server, results, mem, current, last, minted, alive, logout,
                   alone, outAlone>>

LoggedIn == at["login"] = "returned" /\ tok["login"] \in Token

(* What the oauth2 token source starts with.                               *)
SourceToken == IF current = NoToken THEN tok["login"] ELSE current

(* A call asks the source for its token, or the ten-minute check does: it  *)
(* is the one it has or, if that has expired, a new one.  One that was     *)
(* noted before needs nothing.                                             *)
Ask(u) ==
    /\ alive /\ LoggedIn /\ at[u] = "idle"
    /\ u = "check" => ~cancelled
    /\ \/ Issue(u) /\ current' = minted + 1
       \/ Carry(u, SourceToken) /\ current' = SourceToken /\ UNCHANGED minted
    /\ tok'[u] # last
    /\ StartsStoring(u)
    /\ UNCHANGED <<kind, cancelled, server, results, mem, last, alive, logout, outAlone, store>>

Note(u) ==
    /\ alive /\ at[u] = "note"
    /\ last' = tok[u]
    /\ Goto(u, "idle") /\ Carry(u, NoToken)
    /\ UNCHANGED <<kind, cancelled, server, results, mem, current, minted, alive, logout,
                   alone, outAlone, store>>

Cancel ==
    /\ "cancel" \in Faults /\ alive /\ ~cancelled
    /\ cancelled' = TRUE
    /\ UNCHANGED <<at, tok, kind, server, results, mem, current, last, minted, alive, logout,
                   alone, outAlone, store>>

(* The command ends: what it had in memory is gone.                        *)
Exit ==
    /\ alive /\ at["login"] = "returned"
    /\ alive' = FALSE
    /\ at' = [w \in Writer |-> "idle"] /\ tok' = [w \in Writer |-> NoToken]
    /\ server' = "closed" /\ results' = <<>>
    /\ mem' = NoToken /\ current' = NoToken /\ last' = NoToken
    /\ UNCHANGED <<kind, cancelled, minted, logout, alone, outAlone, store>>

(* `gws logout' in another process: the keyring, then the file.            *)
LogoutKeyring ==
    /\ logout = "idle"
    /\ ForgetKeyring
    /\ logout' = "file" /\ outAlone' = ~alive
    /\ UNCHANGED <<login, alone>>

LogoutFile ==
    /\ logout = "file"
    /\ ForgetFile
    /\ logout' = "done"
    /\ UNCHANGED <<login, alone, outAlone>>

Turn == KeyringTurns /\ UNCHANGED <<login, logout, alone, outAlone>>

LoginWorks == Refresh \/ RefreshFails \/ OpenBrowser \/ Listen \/ TakeResult \/ WaitCancelled \/ Shutdown

HandlerWorks(r) == Exchange(r) \/ Reply(r)

Stores(w) == SetMemory(w) \/ SaveToken(w)

Next ==
    \/ LoginWorks \/ PasteCode \/ PasteFails
    \/ \E r \in Request : Callback(r) \/ HandlerWorks(r)
    \/ \E w \in Writer : Stores(w)
    \/ \E u \in User : Ask(u) \/ Note(u)
    \/ Cancel \/ Exit \/ LogoutKeyring \/ LogoutFile \/ Turn

Spec == Init /\ [][Next]_vars

(* The goroutines run; a read of the terminal ends when it is cancelled.   *)
(* Nobody promises a request, a code or a cancel.                          *)
FairSpec ==
    /\ Spec
    /\ WF_vars(LoginWorks) /\ WF_vars(cancelled /\ PasteFails)
    /\ \A r \in Request : WF_vars(HandlerWorks(r))
    /\ \A w \in Writer : WF_vars(Stores(w))

-----------------------------------------------------------------------------
(* A loaded command that stores one token after the other, with a keyring  *)
(* that doesn't change and without a logout, leaves in the store exactly   *)
(* what it has in memory, whatever was in either place before.             *)
StoreFollowsMemory ==
    (alive /\ alone /\ steady /\ logout = "idle" /\ kind # "setup" /\ Storing = {})
        => Loaded = mem

(* After a logout nothing is left to load in either place, unless a        *)
(* command was running, whose next refresh stores a token again, or the    *)
(* keyring didn't answer for a while.                                      *)
LogoutForgets == logout = "done" /\ outAlone /\ steady => Loaded = NoToken

(* A cancelled login returns, wherever it is, however many handlers wait   *)
(* for the channel.                                                        *)
CancelEndsLogin == cancelled ~> (at["login"] = "returned" \/ ~alive)

(* A browser login that has its result returns although the user may never *)
(* press a key, as long as at most two requests have reached the server: a *)
(* third one waits for a channel nobody reads, and the shutdown for it.    *)
Crowded == Cardinality({r \in Request : at[r] # "idle"}) > 2

DecidedLoginReturns == at["login"] = "close" ~> (at["login"] = "returned" \/ Crowded \/ ~alive)

(* Both: every login of which something has been decided returns.          *)
LoginReturns == CancelEndsLogin /\ DecidedLoginReturns
=============================================================================
