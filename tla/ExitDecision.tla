---------------------------- MODULE ExitDecision ----------------------------
(***************************************************************************)
(* What the terminal UI of `gws tunnel` promises to the command that runs  *)
(* it, without keys, countdowns and configuration: when it may ask, when   *)
(* it may leave, and what it may leave behind as the decision to stop the  *)
(* workstation.  ShutdownPrompt implements this specification and          *)
(* TunnelSession is built on it.                                           *)
(***************************************************************************)

VARIABLES
    asking,     \* the stop-on-exit prompt is open
    stop,       \* the workstation is to be stopped when the UI has left
    cancelled,  \* the context of the operation is cancelled
    done,       \* the result of the operation has reached the UI
    leaving,    \* a quit message is on its way to the event loop
    gone        \* the event loop has returned

exitVars == <<asking, stop, cancelled, done, leaving, gone>>

ExitTypeOK ==
    /\ asking \in BOOLEAN
    /\ stop \in BOOLEAN
    /\ cancelled \in BOOLEAN
    /\ done \in BOOLEAN
    /\ leaving \in BOOLEAN
    /\ gone \in BOOLEAN

ExitInit ==
    /\ stop \in BOOLEAN
    /\ asking = FALSE
    /\ cancelled = FALSE
    /\ done = FALSE
    /\ leaving = FALSE
    /\ gone = FALSE

-----------------------------------------------------------------------------
(* The user asks to quit while stop-on-exit is on: the UI asks back.       *)
Ask ==
    /\ ~gone /\ stop /\ ~asking
    /\ asking' = TRUE
    /\ UNCHANGED <<stop, cancelled, done, leaving, gone>>

(* The prompt is dismissed: nothing was decided.                           *)
Withdraw ==
    /\ ~gone /\ asking
    /\ asking' = FALSE
    /\ UNCHANGED <<stop, cancelled, done, leaving, gone>>

(* The prompt is answered, by the user or by its timeout.                  *)
Answer(keepStop) ==
    /\ ~gone /\ asking
    /\ asking' = FALSE
    /\ stop' = (stop /\ keepStop)
    /\ cancelled' = TRUE
    /\ leaving' = TRUE
    /\ UNCHANGED <<done, gone>>

(* The user quits, either with nothing to ask or a second time while the   *)
(* prompt is open, which counts as its default answer.                     *)
Quit ==
    /\ ~gone
    /\ asking \/ ~stop
    /\ cancelled' = TRUE
    /\ leaving' = TRUE
    /\ UNCHANGED <<asking, stop, done, gone>>

(* Once the operation has ended any key leaves the UI, and nothing is asked.*)
Dismiss ==
    /\ ~gone /\ done /\ ~asking
    /\ leaving' = TRUE
    /\ UNCHANGED <<asking, stop, cancelled, done, gone>>

(* The user switches stop-on-exit on or off; never under an open prompt.   *)
Toggle(on) ==
    /\ ~gone /\ ~asking /\ ~done
    /\ stop' = on
    /\ UNCHANGED <<asking, cancelled, done, leaving, gone>>

(* The result of the operation arrives; some commands then quit at once.   *)
Finish ==
    /\ ~gone /\ ~done
    /\ done' = TRUE
    /\ leaving' \in {leaving, TRUE}
    /\ UNCHANGED <<asking, stop, cancelled, gone>>

(* The terminal is closed: a quit message is sent, nothing is cancelled.   *)
Hangup ==
    /\ ~gone
    /\ leaving' = TRUE
    /\ UNCHANGED <<asking, stop, cancelled, done, gone>>

Leave ==
    /\ ~gone /\ leaving
    /\ gone' = TRUE
    /\ UNCHANGED <<asking, stop, cancelled, done, leaving>>

UserStep ==
    \/ Ask
    \/ Withdraw
    \/ Quit
    \/ Dismiss
    \/ \E keepStop \in BOOLEAN : Answer(keepStop)
    \/ \E on \in BOOLEAN : Toggle(on)

ExitNext == UserStep \/ Finish \/ Hangup \/ Leave

ExitSpec == ExitInit /\ [][ExitNext]_exitVars
=============================================================================
