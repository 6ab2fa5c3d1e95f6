--------------------------- MODULE ShutdownPrompt ---------------------------
(***************************************************************************)
(* The terminal UI model of internal/tui/tui.go as the tunnel command runs *)
(* it: bubbletea's event loop delivers one message at a time to Update,    *)
(* and Update answers with commands whose messages arrive later.  Two such *)
(* commands matter here: the countdown tick, delivered one second or more  *)
(* after it was requested, and tea.Quit, whose message ends the loop.      *)
(* Between the two, keys and ticks are still handled.                      *)
(*                                                                         *)
(* The first group of variables are the fields of Model and the messages   *)
(* in flight; `shown' and `answer' are history, no action's guard reads    *)
(* them.                                                                   *)
(***************************************************************************)
EXTENDS Integers

CONSTANTS
    HookEnabled,  \* Model.ShutdownHookEnabled: TRUE for the tunnel command
    AutoQuit,     \* Model.AutoQuit: TRUE for start, stop, restart and launch
    Timeout,      \* shutdownConfirmTimeout, in seconds
    Period,       \* time units in a second
    MaxOpens      \* bound: how often the prompt is opened

ASSUME PromptAssumption ==
    /\ HookEnabled \in BOOLEAN
    /\ AutoQuit \in BOOLEAN
    /\ Timeout \in Nat \ {0}
    /\ Period \in Nat \ {0}
    /\ MaxOpens \in Nat

VARIABLES
    confirming,  \* ShutdownConfirming
    rem,         \* ShutdownConfirmRem
    selected,    \* ShutdownConfirmSelected: 0 is Stop, 1 is Don't Stop
    hookActive,  \* ShutdownHookActive
    flag,        \* StopWorkstationOnExitTunnel of the current context
    quitting,    \* Quitting
    cancelled,   \* m.cancel() was called
    done,        \* Done
    quitMsg,     \* a tea.QuitMsg is on its way to the event loop
    exited,      \* the event loop has returned
    opened,      \* how often the prompt was opened
    tick,        \* the chain of ticks each opening started: the age of its
                 \* outstanding tick, or Off
    shown,       \* history: how long the prompt has been open
    answer       \* history: the last answer, until the user toggles

modelVars == <<confirming, rem, selected, hookActive, flag, quitting, cancelled, done>>
loopVars == <<quitMsg, exited, opened, tick>>
vars == <<modelVars, loopVars, shown, answer>>

Off == -1
Chain == 1 .. MaxOpens
Full == Period * Timeout  \* the time the prompt promises to wait

TypeOK ==
    /\ confirming \in BOOLEAN
    /\ rem \in 0 .. Timeout
    /\ selected \in {0, 1}
    /\ hookActive \in BOOLEAN
    /\ flag \in BOOLEAN
    /\ quitting \in BOOLEAN
    /\ cancelled \in BOOLEAN
    /\ done \in BOOLEAN
    /\ quitMsg \in BOOLEAN
    /\ exited \in BOOLEAN
    /\ opened \in 0 .. MaxOpens
    /\ tick \in [Chain -> Off .. Period]
    /\ shown \in 0 .. Full
    /\ answer \in {"none", "stop", "keep"}

Init ==
    /\ flag \in BOOLEAN
    /\ hookActive = (HookEnabled /\ flag)
    /\ confirming = FALSE
    /\ rem = 0
    /\ selected = 0
    /\ quitting = FALSE
    /\ cancelled = FALSE
    /\ done = FALSE
    /\ quitMsg = FALSE
    /\ exited = FALSE
    /\ opened = 0
    /\ tick = [k \in Chain |-> Off]
    /\ shown = 0
    /\ answer = "none"

-----------------------------------------------------------------------------
(* m.Quitting = true; m.cancel(); return m, tea.Quit                       *)
QuitProgram ==
    /\ quitting' = TRUE
    /\ cancelled' = TRUE
    /\ quitMsg' = TRUE

(* Ctrl+C opens the prompt if stop-on-exit is on and it is not open yet.   *)
OpenPrompt ==
    /\ ~exited /\ HookEnabled /\ hookActive /\ ~confirming
    /\ opened < MaxOpens
    /\ confirming' = TRUE
    /\ rem' = Timeout
    /\ opened' = opened + 1
    /\ tick' = [tick EXCEPT ![opened + 1] = 0]
    /\ shown' = 0
    /\ UNCHANGED <<selected, hookActive, flag, quitting, cancelled, done, quitMsg, exited,
                   answer>>

(* Mutation of InterruptQuits: quits although stop-on-exit is on.          *)
InterruptNeverAsks ==
    /\ ~exited
    /\ QuitProgram
    /\ answer' = IF confirming THEN "stop" ELSE answer
    /\ UNCHANGED <<confirming, rem, selected, hookActive, flag, done, exited, opened, tick, shown>>

(* Ctrl+C quits otherwise: with an open prompt this keeps the hook active. *)
InterruptQuits ==
    /\ ~exited
    /\ confirming \/ ~(HookEnabled /\ hookActive)
    /\ QuitProgram
    /\ answer' = IF confirming THEN "stop" ELSE answer
    /\ UNCHANGED <<confirming, rem, selected, hookActive, flag, done, exited, opened, tick, shown>>

(* Esc closes the prompt.  A tick it has requested stays outstanding.      *)
Escape ==
    /\ ~exited /\ confirming
    /\ confirming' = FALSE
    /\ rem' = 0
    /\ selected' = 0
    /\ UNCHANGED <<hookActive, flag, quitting, cancelled, done, loopVars, shown, answer>>

(* Left or h selects Stop, right or l selects Don't Stop.                  *)
Select(button) ==
    /\ ~exited /\ confirming
    /\ selected' = button
    /\ UNCHANGED <<confirming, rem, hookActive, flag, quitting, cancelled, done, loopVars,
                   shown, answer>>

AnswerStop ==
    /\ confirming' = FALSE
    /\ QuitProgram
    /\ answer' = "stop"
    /\ UNCHANGED hookActive

AnswerKeep ==
    /\ confirming' = FALSE
    /\ hookActive' = FALSE
    /\ QuitProgram
    /\ answer' = "keep"

(* Enter triggers the selected button.                                     *)
Enter ==
    /\ ~exited /\ confirming
    /\ IF selected = 0 THEN AnswerStop ELSE AnswerKeep
    /\ UNCHANGED <<rem, selected, flag, done, exited, opened, tick, shown>>

(* The y and n keys answer whatever is selected.                           *)
YesKey ==
    /\ ~exited /\ confirming
    /\ AnswerStop
    /\ UNCHANGED <<rem, selected, flag, done, exited, opened, tick, shown>>

NoKey ==
    /\ ~exited /\ confirming
    /\ AnswerKeep
    /\ UNCHANGED <<rem, selected, flag, done, exited, opened, tick, shown>>

(* Any key but Ctrl+C quits once the operation has ended: no question, no  *)
(* cancel, and Quitting stays false.                                       *)
AnyKeyWhenDone ==
    /\ ~exited /\ done /\ ~confirming
    /\ quitMsg' = TRUE
    /\ UNCHANGED <<modelVars, exited, opened, tick, shown, answer>>

(* The s key flips the flag of the context, saves it and follows it.       *)
ToggleHook ==
    /\ ~exited /\ HookEnabled /\ ~confirming /\ ~done
    /\ flag' = ~flag
    /\ hookActive' = flag'
    /\ answer' = "none"
    /\ UNCHANGED <<confirming, rem, selected, quitting, cancelled, done, loopVars, shown>>

(* opDoneMsg or errMsg: the operation has returned.                        *)
OperationEnds(failed) ==
    /\ ~exited /\ ~done
    /\ done' = TRUE
    /\ quitMsg' = (quitMsg \/ (AutoQuit /\ ~failed))
    /\ UNCHANGED <<confirming, rem, selected, hookActive, flag, quitting, cancelled,
                   exited, opened, tick, shown, answer>>

-----------------------------------------------------------------------------
(* A tick is delivered a second after it was requested, or later.          *)
Due(k) == ~exited /\ tick[k] = Period

TickAfterClose(k) ==
    /\ Due(k) /\ ~confirming
    /\ tick' = [tick EXCEPT ![k] = Off]
    /\ UNCHANGED <<modelVars, quitMsg, exited, opened, shown, answer>>

(* Mutations of TickCountsDown: the next tick is not requested; it is      *)
(* requested without its delay; the last second is counted down as well.   *)
TickNotRenewed(k) ==
    /\ Due(k) /\ confirming /\ rem > 1
    /\ rem' = rem - 1
    /\ tick' = [tick EXCEPT ![k] = Off]
    /\ UNCHANGED <<confirming, selected, hookActive, flag, quitting, cancelled, done,
                   quitMsg, exited, opened, shown, answer>>

TickWithoutDelay(k) ==
    /\ Due(k) /\ confirming /\ rem > 1
    /\ rem' = rem - 1
    /\ tick' = [tick EXCEPT ![k] = Period]
    /\ UNCHANGED <<confirming, selected, hookActive, flag, quitting, cancelled, done,
                   quitMsg, exited, opened, shown, answer>>

TickPastZero(k) ==
    /\ Due(k) /\ confirming
    /\ rem' = rem - 1
    /\ tick' = [tick EXCEPT ![k] = 0]
    /\ UNCHANGED <<confirming, selected, hookActive, flag, quitting, cancelled, done,
                   quitMsg, exited, opened, shown, answer>>

TickCountsDown(k) ==
    /\ Due(k) /\ confirming /\ rem > 1
    /\ rem' = rem - 1
    /\ tick' = [tick EXCEPT ![k] = 0]
    /\ UNCHANGED <<confirming, selected, hookActive, flag, quitting, cancelled, done,
                   quitMsg, exited, opened, shown, answer>>

(* Mutation of TickConfirms: the default of the timeout is Don't Stop.     *)
TickKeeps(k) ==
    /\ Due(k) /\ confirming /\ rem <= 1
    /\ rem' = rem - 1
    /\ tick' = [tick EXCEPT ![k] = Off]
    /\ confirming' = FALSE
    /\ hookActive' = FALSE
    /\ QuitProgram
    /\ answer' = "stop"
    /\ UNCHANGED <<selected, flag, done, exited, opened, shown>>

TickConfirms(k) ==
    /\ Due(k) /\ confirming /\ rem <= 1
    /\ rem' = rem - 1
    /\ tick' = [tick EXCEPT ![k] = Off]
    /\ AnswerStop
    /\ UNCHANGED <<selected, flag, done, exited, opened, shown>>

(* Time passes for every outstanding tick and for the open prompt.         *)
Aged(t) == IF t \in 0 .. Period - 1 THEN t + 1 ELSE t

Elapse ==
    /\ ~exited
    /\ tick' = [k \in Chain |-> Aged(tick[k])]
    /\ shown' = IF confirming /\ shown < Full THEN shown + 1 ELSE shown
    /\ UNCHANGED <<modelVars, quitMsg, exited, opened, answer>>

(* SIGHUP: the signal goroutine sends a QuitMsg and does nothing else.     *)
TerminalCloses ==
    /\ ~exited /\ ~quitMsg
    /\ quitMsg' = TRUE
    /\ UNCHANGED <<modelVars, exited, opened, tick, shown, answer>>

(* The loop receives a QuitMsg and Run returns.                            *)
LoopReturns ==
    /\ ~exited /\ quitMsg
    /\ exited' = TRUE
    /\ UNCHANGED <<modelVars, quitMsg, opened, tick, shown, answer>>

Keys ==
    \/ OpenPrompt
    \/ InterruptQuits
    \/ Escape
    \/ \E button \in {0, 1} : Select(button)
    \/ Enter
    \/ YesKey
    \/ NoKey
    \/ AnyKeyWhenDone
    \/ ToggleHook

Ticks == \E k \in Chain : TickAfterClose(k) \/ TickCountsDown(k) \/ TickConfirms(k)

Next ==
    \/ Keys
    \/ \E failed \in BOOLEAN : OperationEnds(failed)
    \/ Ticks
    \/ Elapse
    \/ TerminalCloses
    \/ LoopReturns

Spec == Init /\ [][Next]_vars

(* Timers run and the loop takes what is sent to it.  Nothing is assumed   *)
(* of the user, the operation or the terminal.                             *)
FairSpec == Spec /\ WF_vars(Elapse) /\ WF_vars(Ticks) /\ WF_vars(LoopReturns)

-----------------------------------------------------------------------------
(* An open prompt always has its own tick outstanding, so that its timeout *)
(* (tui.go 325-338) cannot be lost.                                        *)
PromptIsArmed == confirming => opened > 0 /\ tick[opened] # Off

(* Ctrl+C opens the prompt only with the hook active, the s key does not   *)
(* reach it while it is open: whoever sees the prompt has something to     *)
(* stop (tui.go 197-282).                                                  *)
PromptOnlyWhenActive == confirming => hookActive

(* The hook and the flag of the configuration agree until the user has     *)
(* decided to quit, and after that the hook is never active without the    *)
(* flag: StopWorkstationsForContexts reads the flag again and would        *)
(* silently do nothing.                                                    *)
HookFollowsConfig ==
    /\ hookActive => flag /\ HookEnabled
    /\ ~quitting => hookActive = (HookEnabled /\ flag)

(* The last answer decides, whatever arrives between the answer and the    *)
(* end of the loop: Stop, by key or by timeout, leaves the hook active and *)
(* Don't Stop leaves it inactive.                                          *)
AnswerDecides ==
    /\ answer = "stop" => hookActive /\ flag
    /\ answer = "keep" => ~hookActive

(* If every tick of earlier prompts is gone, the countdown never runs      *)
(* ahead of the clock: of Timeout seconds at most the time the prompt has  *)
(* been open is counted down.                                              *)
HonestCountdown ==
    confirming /\ (\A k \in 1 .. opened - 1 : tick[k] = Off)
        => shown >= Period * (Timeout - rem)

(* A prompt never stays open: the timeout resolves it if the user doesn't. *)
PromptResolves == confirming ~> (~confirming \/ exited)

(* A quit message, whoever sent it, ends the loop, open prompt or not.     *)
QuitIsObeyed == quitMsg ~> exited

(* Both: the UI gets somewhere, whatever is pressed.                       *)
UiProgress == PromptResolves /\ QuitIsObeyed

(* What the loop shows to the command that runs it (cmd/tunnel.go 78-86).  *)
Decision == INSTANCE ExitDecision WITH
    asking <- confirming, stop <- hookActive, leaving <- quitMsg, gone <- exited

(* The terminal UI implements the exit decision the command relies on.     *)
ImplementsExitDecision == Decision!ExitSpec
=============================================================================
