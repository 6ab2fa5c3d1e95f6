------------------------ MODULE TunnelSessionProofs ------------------------
(***************************************************************************)
(* Proofs about TunnelSession, whatever the faults are.  SessionInv is    *)
(* about the lock, the restart and the hook.  CalmInv adds what holds of a *)
(* session as long as nothing has happened that stop-on-exit doesn't       *)
(* survive: when the UI has left, the operation is cancelled or has        *)
(* returned, so that nothing starts the workstation behind the back of the *)
(* hook.                                                                   *)
(***************************************************************************)
EXTENDS TunnelSession, TLAPS

(* Whoever logs in finds no client: it holds the mutex since it looked.    *)
LoginInv == op = "login" \/ hook = "login" => client = "none"

(* A restart has passed a stopped workstation before its second stage.     *)
StageInv ==
    /\ stage = "restart" => restart
    /\ ws = "STOPPED" => sawStopped
    /\ op = "act" /\ seen = "STOPPED" => sawStopped
    /\ op \in {"sending", "waitStart", "poll"} => stage # "restart"
    /\ restart /\ stage # "restart" => sawStopped

(* The hook runs after the UI, and does something only if that was decided. *)
HookInv ==
    /\ hook # "idle" => gone
    /\ hook \in {"setup", "login", "read", "act"} => stop

SessionInv == TypeOK /\ ClientMutex /\ LoginInv /\ StageInv /\ HookInv

(* The invariant holds initially.                                          *)
LEMMA SessionInvInit == Init => SessionInv
  BY DEF Init, ExitInit, SessionInv, TypeOK, ExitTypeOK, WorkstationState, ClientMutex, LoginInv,
     StageInv, HookInv

(* Every step preserves it.                                                *)
LEMMA SessionInvStep == SessionInv /\ [Next]_vars => SessionInv'
<1> SUFFICES ASSUME SessionInv, [Next]_vars PROVE SessionInv'
  OBVIOUS
<1> USE DEF SessionInv, exitVars, opVars, hookVars, clientVars, cloudVars, history
<1>1. CASE UiStep
  <2>1. ExitTypeOK'
    BY <1>1 DEF UserStep, Ask, Withdraw, Answer, Quit, Dismiss, Toggle, Finish, UiStep,
       sessionVars, TypeOK, ExitTypeOK
  <2>2. TypeOK'
    BY <1>1, <2>1 DEF UserStep, Ask, Withdraw, Answer, Quit, Dismiss, Toggle, Finish, UiStep,
       sessionVars, TypeOK, WorkstationState
  <2>3. ClientMutex' /\ LoginInv'
    BY <1>1 DEF UserStep, Ask, Withdraw, Answer, Quit, Dismiss, Toggle, Finish, UiStep,
       sessionVars, TypeOK, ClientMutex, LoginInv
  <2>4. StageInv'
    BY <1>1 DEF UserStep, Ask, Withdraw, Answer, Quit, Dismiss, Toggle, Finish, UiStep,
       sessionVars, TypeOK, WorkstationState, StageInv
  <2>5. HookInv'
    BY <1>1 DEF UserStep, Ask, Withdraw, Answer, Quit, Dismiss, Toggle, Finish, UiStep,
       sessionVars, TypeOK, ExitTypeOK, HookInv
  <2> QED
    BY <2>1, <2>2, <2>3, <2>4, <2>5
<1>2. CASE HangsUp
  <2>1. ExitTypeOK'
    BY <1>2 DEF HangsUp, Hangup, TypeOK, ExitTypeOK
  <2>a. calm' \in BOOLEAN
    BY <1>2 DEF HangsUp, Hangup, TypeOK, WorkstationState
  <2>2. TypeOK'
    BY <1>2, <2>1, <2>a DEF HangsUp, Hangup, TypeOK, WorkstationState
  <2>3. ClientMutex' /\ LoginInv'
    BY <1>2 DEF HangsUp, Hangup, TypeOK, ClientMutex, LoginInv
  <2>4. StageInv'
    BY <1>2 DEF HangsUp, Hangup, TypeOK, WorkstationState, StageInv
  <2>5. HookInv'
    BY <1>2 DEF HangsUp, Hangup, TypeOK, ExitTypeOK, HookInv
  <2> QED
    BY <2>1, <2>2, <2>3, <2>4, <2>5
<1>3. CASE UiLeaves
  <2>1. ExitTypeOK'
    BY <1>3 DEF UiLeaves, Leave, sessionVars, TypeOK, ExitTypeOK
  <2>2. TypeOK'
    BY <1>3, <2>1 DEF UiLeaves, Leave, sessionVars, TypeOK, WorkstationState
  <2>3. ClientMutex' /\ LoginInv'
    BY <1>3 DEF UiLeaves, Leave, sessionVars, TypeOK, ClientMutex, LoginInv
  <2>4. StageInv'
    BY <1>3 DEF UiLeaves, Leave, sessionVars, TypeOK, WorkstationState, StageInv
  <2>5. HookInv'
    BY <1>3 DEF UiLeaves, Leave, sessionVars, TypeOK, ExitTypeOK, HookInv
  <2> QED
    BY <2>1, <2>2, <2>3, <2>4, <2>5
<1>4. CASE OpSetup
  <2>1. ExitTypeOK'
    BY <1>4 DEF OpSetup, Alive, TypeOK, ExitTypeOK
  <2>2. TypeOK'
    BY <1>4, <2>1 DEF OpSetup, Alive, TypeOK, WorkstationState
  <2>3. ClientMutex' /\ LoginInv'
    BY <1>4 DEF OpSetup, Alive, TypeOK, ClientMutex, LoginInv
  <2>4. StageInv'
    BY <1>4 DEF OpSetup, Alive, TypeOK, WorkstationState, StageInv
  <2>5. HookInv'
    BY <1>4 DEF OpSetup, Alive, TypeOK, ExitTypeOK, HookInv
  <2> QED
    BY <2>1, <2>2, <2>3, <2>4, <2>5
<1>5. CASE OpLogsIn
  <2>1. ExitTypeOK'
    BY <1>5 DEF OpLogsIn, Alive, TypeOK, ExitTypeOK
  <2>2. TypeOK'
    BY <1>5, <2>1 DEF OpLogsIn, Alive, TypeOK, WorkstationState
  <2>3. ClientMutex' /\ LoginInv'
    BY <1>5 DEF OpLogsIn, Alive, TypeOK, ClientMutex, LoginInv
  <2>4. StageInv'
    BY <1>5 DEF OpLogsIn, Alive, TypeOK, WorkstationState, StageInv
  <2>5. HookInv'
    BY <1>5 DEF OpLogsIn, Alive, TypeOK, ExitTypeOK, HookInv
  <2> QED
    BY <2>1, <2>2, <2>3, <2>4, <2>5
<1>6. CASE OpLoginFails
  <2>1. ExitTypeOK'
    BY <1>6 DEF OpLoginFails, Alive, TypeOK, ExitTypeOK
  <2>2. TypeOK'
    BY <1>6, <2>1 DEF OpLoginFails, Alive, TypeOK, WorkstationState
  <2>3. ClientMutex' /\ LoginInv'
    BY <1>6 DEF OpLoginFails, Alive, TypeOK, ClientMutex, LoginInv
  <2>4. StageInv'
    BY <1>6 DEF OpLoginFails, Alive, TypeOK, WorkstationState, StageInv
  <2>5. HookInv'
    BY <1>6 DEF OpLoginFails, Alive, TypeOK, ExitTypeOK, HookInv
  <2> QED
    BY <2>1, <2>2, <2>3, <2>4, <2>5
<1>7. CASE OpReads
  <2>1. ExitTypeOK'
    BY <1>7 DEF OpReads, CallWorks, CanCall, Alive, SourceAlive, TypeOK, ExitTypeOK
  <2>2. TypeOK'
    BY <1>7, <2>1 DEF OpReads, CallWorks, CanCall, Alive, SourceAlive, TypeOK, WorkstationState
  <2>3. ClientMutex' /\ LoginInv'
    BY <1>7 DEF OpReads, CallWorks, CanCall, Alive, SourceAlive, TypeOK, ClientMutex, LoginInv
  <2>4. StageInv'
    BY <1>7 DEF OpReads, CallWorks, CanCall, Alive, SourceAlive, TypeOK, WorkstationState, StageInv
  <2>5. HookInv'
    BY <1>7 DEF OpReads, CallWorks, CanCall, Alive, SourceAlive, TypeOK, ExitTypeOK, HookInv
  <2> QED
    BY <2>1, <2>2, <2>3, <2>4, <2>5
<1>8. CASE OpCallFails
  <2>1. ExitTypeOK'
    BY <1>8 DEF OpCallFails, CallFails, CanCall, OpContext, InCall, Alive, SourceAlive, TypeOK,
       ExitTypeOK
  <2>2. TypeOK'
    BY <1>8, <2>1 DEF OpCallFails, CallFails, CanCall, OpContext, InCall, Alive, SourceAlive,
       TypeOK, WorkstationState
  <2>3. ClientMutex' /\ LoginInv'
    BY <1>8 DEF OpCallFails, CallFails, CanCall, OpContext, InCall, Alive, SourceAlive, TypeOK,
       ClientMutex, LoginInv
  <2>4. StageInv'
    BY <1>8 DEF OpCallFails, CallFails, CanCall, OpContext, InCall, Alive, SourceAlive, TypeOK,
       WorkstationState, StageInv
  <2>5. HookInv'
    BY <1>8 DEF OpCallFails, CallFails, CanCall, OpContext, InCall, Alive, SourceAlive, TypeOK,
       ExitTypeOK, HookInv
  <2> QED
    BY <2>1, <2>2, <2>3, <2>4, <2>5
<1>9. CASE OpRequestsStop
  <2>1. ExitTypeOK'
    BY <1>9 DEF OpRequestsStop, CallWorks, CanCall, StopRequest, Alive, SourceAlive, TypeOK,
       ExitTypeOK
  <2>2. TypeOK'
    BY <1>9, <2>1 DEF OpRequestsStop, CallWorks, CanCall, StopRequest, Alive, SourceAlive, TypeOK,
       WorkstationState
  <2>3. ClientMutex' /\ LoginInv'
    BY <1>9 DEF OpRequestsStop, CallWorks, CanCall, StopRequest, Alive, SourceAlive, TypeOK,
       ClientMutex, LoginInv
  <2>4. StageInv'
    BY <1>9 DEF OpRequestsStop, CallWorks, CanCall, StopRequest, Alive, SourceAlive, TypeOK,
       WorkstationState, StageInv
  <2>5. HookInv'
    BY <1>9 DEF OpRequestsStop, CallWorks, CanCall, StopRequest, Alive, SourceAlive, TypeOK,
       ExitTypeOK, HookInv
  <2> QED
    BY <2>1, <2>2, <2>3, <2>4, <2>5
<1>10. CASE OpFindsStopped
  <2>1. ExitTypeOK'
    BY <1>10 DEF OpFindsStopped, EnterStage, Alive, TypeOK, ExitTypeOK
  <2>2. TypeOK'
    BY <1>10, <2>1 DEF OpFindsStopped, EnterStage, Alive, TypeOK, WorkstationState
  <2>3. ClientMutex' /\ LoginInv'
    BY <1>10 DEF OpFindsStopped, EnterStage, Alive, TypeOK, ClientMutex, LoginInv
  <2>4. StageInv'
    BY <1>10 DEF OpFindsStopped, EnterStage, Alive, TypeOK, WorkstationState, StageInv
  <2>5. HookInv'
    BY <1>10 DEF OpFindsStopped, EnterStage, Alive, TypeOK, ExitTypeOK, HookInv
  <2> QED
    BY <2>1, <2>2, <2>3, <2>4, <2>5
<1>11. CASE OpStopCompletes
  <2>1. ExitTypeOK'
    BY <1>11 DEF OpStopCompletes, CallWorks, CanCall, EnterStage, Alive, SourceAlive, TypeOK,
       ExitTypeOK
  <2>2. TypeOK'
    BY <1>11, <2>1 DEF OpStopCompletes, CallWorks, CanCall, EnterStage, Alive, SourceAlive, TypeOK,
       WorkstationState
  <2>3. ClientMutex' /\ LoginInv'
    BY <1>11 DEF OpStopCompletes, CallWorks, CanCall, EnterStage, Alive, SourceAlive, TypeOK,
       ClientMutex, LoginInv
  <2>4. StageInv'
    BY <1>11 DEF OpStopCompletes, CallWorks, CanCall, EnterStage, Alive, SourceAlive, TypeOK,
       WorkstationState, StageInv
  <2>5. HookInv'
    BY <1>11 DEF OpStopCompletes, CallWorks, CanCall, EnterStage, Alive, SourceAlive, TypeOK,
       ExitTypeOK, HookInv
  <2> QED
    BY <2>1, <2>2, <2>3, <2>4, <2>5
<1>12. CASE OpRequestsStart
  <2>1. ExitTypeOK'
    BY <1>12 DEF OpRequestsStart, CallWorks, CanCall, StartRequest, Alive, SourceAlive, TypeOK,
       ExitTypeOK
  <2>a. ws' \in WorkstationState /\ startSent' \in BOOLEAN /\ fresh' \in BOOLEAN /\ calm' \in BOOLEAN
    BY <1>12 DEF OpRequestsStart, CallWorks, CanCall, StartRequest, Alive, SourceAlive, TypeOK,
       WorkstationState
  <2>2. TypeOK'
    BY <1>12, <2>1, <2>a DEF OpRequestsStart, CallWorks, CanCall, StartRequest, Alive, SourceAlive,
       TypeOK, WorkstationState
  <2>3. ClientMutex' /\ LoginInv'
    BY <1>12 DEF OpRequestsStart, CallWorks, CanCall, StartRequest, Alive, SourceAlive, TypeOK,
       ClientMutex, LoginInv
  <2>4. StageInv'
    BY <1>12 DEF OpRequestsStart, CallWorks, CanCall, StartRequest, Alive, SourceAlive, TypeOK,
       WorkstationState, StageInv
  <2>5. HookInv'
    BY <1>12 DEF OpRequestsStart, CallWorks, CanCall, StartRequest, Alive, SourceAlive, TypeOK,
       ExitTypeOK, HookInv
  <2> QED
    BY <2>1, <2>2, <2>3, <2>4, <2>5
<1>13. CASE OpStartCompletes
  <2>1. ExitTypeOK'
    BY <1>13 DEF OpStartCompletes, CallWorks, CanCall, EnterStage, Alive, SourceAlive, TypeOK,
       ExitTypeOK
  <2>2. TypeOK'
    BY <1>13, <2>1 DEF OpStartCompletes, CallWorks, CanCall, EnterStage, Alive, SourceAlive, TypeOK,
       WorkstationState
  <2>3. ClientMutex' /\ LoginInv'
    BY <1>13 DEF OpStartCompletes, CallWorks, CanCall, EnterStage, Alive, SourceAlive, TypeOK,
       ClientMutex, LoginInv
  <2>4. StageInv'
    BY <1>13 DEF OpStartCompletes, CallWorks, CanCall, EnterStage, Alive, SourceAlive, TypeOK,
       WorkstationState, StageInv
  <2>5. HookInv'
    BY <1>13 DEF OpStartCompletes, CallWorks, CanCall, EnterStage, Alive, SourceAlive, TypeOK,
       ExitTypeOK, HookInv
  <2> QED
    BY <2>1, <2>2, <2>3, <2>4, <2>5
<1>14. CASE OpStartAborted
  <2>1. ExitTypeOK'
    BY <1>14 DEF OpStartAborted, Alive, TypeOK, ExitTypeOK
  <2>2. TypeOK'
    BY <1>14, <2>1 DEF OpStartAborted, Alive, TypeOK, WorkstationState
  <2>3. ClientMutex' /\ LoginInv'
    BY <1>14 DEF OpStartAborted, Alive, TypeOK, ClientMutex, LoginInv
  <2>4. StageInv'
    BY <1>14 DEF OpStartAborted, Alive, TypeOK, WorkstationState, StageInv
  <2>5. HookInv'
    BY <1>14 DEF OpStartAborted, Alive, TypeOK, ExitTypeOK, HookInv
  <2> QED
    BY <2>1, <2>2, <2>3, <2>4, <2>5
<1>15. CASE OpNeedsNoStart
  <2>1. ExitTypeOK'
    BY <1>15 DEF OpNeedsNoStart, EnterStage, Alive, TypeOK, ExitTypeOK
  <2>2. TypeOK'
    BY <1>15, <2>1 DEF OpNeedsNoStart, EnterStage, Alive, TypeOK, WorkstationState
  <2>3. ClientMutex' /\ LoginInv'
    BY <1>15 DEF OpNeedsNoStart, EnterStage, Alive, TypeOK, ClientMutex, LoginInv
  <2>4. StageInv'
    BY <1>15 DEF OpNeedsNoStart, EnterStage, Alive, TypeOK, WorkstationState, StageInv
  <2>5. HookInv'
    BY <1>15 DEF OpNeedsNoStart, EnterStage, Alive, TypeOK, ExitTypeOK, HookInv
  <2> QED
    BY <2>1, <2>2, <2>3, <2>4, <2>5
<1>16. CASE OpPolls
  <2>1. ExitTypeOK'
    BY <1>16 DEF OpPolls, Alive, TypeOK, ExitTypeOK
  <2>2. TypeOK'
    BY <1>16, <2>1 DEF OpPolls, Alive, TypeOK, WorkstationState
  <2>3. ClientMutex' /\ LoginInv'
    BY <1>16 DEF OpPolls, Alive, TypeOK, ClientMutex, LoginInv
  <2>4. StageInv'
    BY <1>16 DEF OpPolls, Alive, TypeOK, WorkstationState, StageInv
  <2>5. HookInv'
    BY <1>16 DEF OpPolls, Alive, TypeOK, ExitTypeOK, HookInv
  <2> QED
    BY <2>1, <2>2, <2>3, <2>4, <2>5
<1>17. CASE OpPollSucceeds
  <2>1. ExitTypeOK'
    BY <1>17 DEF OpPollSucceeds, CallWorks, CanCall, EnterStage, Alive, SourceAlive, TypeOK,
       ExitTypeOK
  <2>2. TypeOK'
    BY <1>17, <2>1 DEF OpPollSucceeds, CallWorks, CanCall, EnterStage, Alive, SourceAlive, TypeOK,
       WorkstationState
  <2>3. ClientMutex' /\ LoginInv'
    BY <1>17 DEF OpPollSucceeds, CallWorks, CanCall, EnterStage, Alive, SourceAlive, TypeOK,
       ClientMutex, LoginInv
  <2>4. StageInv'
    BY <1>17 DEF OpPollSucceeds, CallWorks, CanCall, EnterStage, Alive, SourceAlive, TypeOK,
       WorkstationState, StageInv
  <2>5. HookInv'
    BY <1>17 DEF OpPollSucceeds, CallWorks, CanCall, EnterStage, Alive, SourceAlive, TypeOK,
       ExitTypeOK, HookInv
  <2> QED
    BY <2>1, <2>2, <2>3, <2>4, <2>5
<1>18. CASE OpPollTimesOut
  <2>1. ExitTypeOK'
    BY <1>18 DEF OpPollTimesOut, Alive, TypeOK, ExitTypeOK
  <2>2. TypeOK'
    BY <1>18, <2>1 DEF OpPollTimesOut, Alive, TypeOK, WorkstationState
  <2>3. ClientMutex' /\ LoginInv'
    BY <1>18 DEF OpPollTimesOut, Alive, TypeOK, ClientMutex, LoginInv
  <2>4. StageInv'
    BY <1>18 DEF OpPollTimesOut, Alive, TypeOK, WorkstationState, StageInv
  <2>5. HookInv'
    BY <1>18 DEF OpPollTimesOut, Alive, TypeOK, ExitTypeOK, HookInv
  <2> QED
    BY <2>1, <2>2, <2>3, <2>4, <2>5
<1>19. CASE OpTunnelCancelled
  <2>1. ExitTypeOK'
    BY <1>19 DEF OpTunnelCancelled, Alive, TypeOK, ExitTypeOK
  <2>2. TypeOK'
    BY <1>19, <2>1 DEF OpTunnelCancelled, Alive, TypeOK, WorkstationState
  <2>3. ClientMutex' /\ LoginInv'
    BY <1>19 DEF OpTunnelCancelled, Alive, TypeOK, ClientMutex, LoginInv
  <2>4. StageInv'
    BY <1>19 DEF OpTunnelCancelled, Alive, TypeOK, WorkstationState, StageInv
  <2>5. HookInv'
    BY <1>19 DEF OpTunnelCancelled, Alive, TypeOK, ExitTypeOK, HookInv
  <2> QED
    BY <2>1, <2>2, <2>3, <2>4, <2>5
<1>20. CASE HookBegins
  <2>1. ExitTypeOK'
    BY <1>20 DEF HookBegins, TypeOK, ExitTypeOK
  <2>2. TypeOK'
    BY <1>20, <2>1 DEF HookBegins, TypeOK, WorkstationState
  <2>3. ClientMutex' /\ LoginInv'
    BY <1>20 DEF HookBegins, TypeOK, ClientMutex, LoginInv
  <2>4. StageInv'
    BY <1>20 DEF HookBegins, TypeOK, WorkstationState, StageInv
  <2>5. HookInv'
    BY <1>20 DEF HookBegins, TypeOK, ExitTypeOK, HookInv
  <2> QED
    BY <2>1, <2>2, <2>3, <2>4, <2>5
<1>21. CASE HookSetup
  <2>1. ExitTypeOK'
    BY <1>21 DEF HookSetup, TypeOK, ExitTypeOK
  <2>2. TypeOK'
    BY <1>21, <2>1 DEF HookSetup, TypeOK, WorkstationState
  <2>3. ClientMutex' /\ LoginInv'
    BY <1>21 DEF HookSetup, TypeOK, ClientMutex, LoginInv
  <2>4. StageInv'
    BY <1>21 DEF HookSetup, TypeOK, WorkstationState, StageInv
  <2>5. HookInv'
    BY <1>21 DEF HookSetup, TypeOK, ExitTypeOK, HookInv
  <2> QED
    BY <2>1, <2>2, <2>3, <2>4, <2>5
<1>22. CASE HookLogsIn
  <2>1. ExitTypeOK'
    BY <1>22 DEF HookLogsIn, TypeOK, ExitTypeOK
  <2>2. TypeOK'
    BY <1>22, <2>1 DEF HookLogsIn, TypeOK, WorkstationState
  <2>3. ClientMutex' /\ LoginInv'
    BY <1>22 DEF HookLogsIn, TypeOK, ClientMutex, LoginInv
  <2>4. StageInv'
    BY <1>22 DEF HookLogsIn, TypeOK, WorkstationState, StageInv
  <2>5. HookInv'
    BY <1>22 DEF HookLogsIn, TypeOK, ExitTypeOK, HookInv
  <2> QED
    BY <2>1, <2>2, <2>3, <2>4, <2>5
<1>23. CASE HookLoginFails
  <2>1. ExitTypeOK'
    BY <1>23 DEF HookLoginFails, TypeOK, ExitTypeOK
  <2>2. TypeOK'
    BY <1>23, <2>1 DEF HookLoginFails, TypeOK, WorkstationState
  <2>3. ClientMutex' /\ LoginInv'
    BY <1>23 DEF HookLoginFails, TypeOK, ClientMutex, LoginInv
  <2>4. StageInv'
    BY <1>23 DEF HookLoginFails, TypeOK, WorkstationState, StageInv
  <2>5. HookInv'
    BY <1>23 DEF HookLoginFails, TypeOK, ExitTypeOK, HookInv
  <2> QED
    BY <2>1, <2>2, <2>3, <2>4, <2>5
<1>24. CASE HookReads
  <2>1. ExitTypeOK'
    BY <1>24 DEF HookReads, CallWorks, CanCall, SourceAlive, TypeOK, ExitTypeOK
  <2>2. TypeOK'
    BY <1>24, <2>1 DEF HookReads, CallWorks, CanCall, SourceAlive, TypeOK, WorkstationState
  <2>3. ClientMutex' /\ LoginInv'
    BY <1>24 DEF HookReads, CallWorks, CanCall, SourceAlive, TypeOK, ClientMutex, LoginInv
  <2>4. StageInv'
    BY <1>24 DEF HookReads, CallWorks, CanCall, SourceAlive, TypeOK, WorkstationState, StageInv
  <2>5. HookInv'
    BY <1>24 DEF HookReads, CallWorks, CanCall, SourceAlive, TypeOK, ExitTypeOK, HookInv
  <2> QED
    BY <2>1, <2>2, <2>3, <2>4, <2>5
<1>25. CASE HookRequestsStop
  <2>1. ExitTypeOK'
    BY <1>25 DEF HookRequestsStop, CallWorks, CanCall, StopRequest, SourceAlive, TypeOK, ExitTypeOK
  <2>2. TypeOK'
    BY <1>25, <2>1 DEF HookRequestsStop, CallWorks, CanCall, StopRequest, SourceAlive, TypeOK,
       WorkstationState
  <2>3. ClientMutex' /\ LoginInv'
    BY <1>25 DEF HookRequestsStop, CallWorks, CanCall, StopRequest, SourceAlive, TypeOK,
       ClientMutex,
       LoginInv
  <2>4. StageInv'
    BY <1>25 DEF HookRequestsStop, CallWorks, CanCall, StopRequest, SourceAlive, TypeOK,
       WorkstationState, StageInv
  <2>5. HookInv'
    BY <1>25 DEF HookRequestsStop, CallWorks, CanCall, StopRequest, SourceAlive, TypeOK, ExitTypeOK,
       HookInv
  <2> QED
    BY <2>1, <2>2, <2>3, <2>4, <2>5
<1>26. CASE HookFindsStopped
  <2>1. ExitTypeOK'
    BY <1>26 DEF HookFindsStopped, TypeOK, ExitTypeOK
  <2>2. TypeOK'
    BY <1>26, <2>1 DEF HookFindsStopped, TypeOK, WorkstationState
  <2>3. ClientMutex' /\ LoginInv'
    BY <1>26 DEF HookFindsStopped, TypeOK, ClientMutex, LoginInv
  <2>4. StageInv'
    BY <1>26 DEF HookFindsStopped, TypeOK, WorkstationState, StageInv
  <2>5. HookInv'
    BY <1>26 DEF HookFindsStopped, TypeOK, ExitTypeOK, HookInv
  <2> QED
    BY <2>1, <2>2, <2>3, <2>4, <2>5
<1>27. CASE HookCallFails
  <2>1. ExitTypeOK'
    BY <1>27 DEF HookCallFails, CallFails, CanCall, SourceAlive, TypeOK, ExitTypeOK
  <2>a. fresh' \in BOOLEAN /\ calm' \in BOOLEAN
    BY <1>27 DEF HookCallFails, CallFails, CanCall, SourceAlive, TypeOK, WorkstationState
  <2>2. TypeOK'
    BY <1>27, <2>1, <2>a DEF HookCallFails, CallFails, CanCall, SourceAlive, TypeOK,
       WorkstationState
  <2>3. ClientMutex' /\ LoginInv'
    BY <1>27 DEF HookCallFails, CallFails, CanCall, SourceAlive, TypeOK, ClientMutex, LoginInv
  <2>4. StageInv'
    BY <1>27 DEF HookCallFails, CallFails, CanCall, SourceAlive, TypeOK, WorkstationState, StageInv
  <2>5. HookInv'
    BY <1>27 DEF HookCallFails, CallFails, CanCall, SourceAlive, TypeOK, ExitTypeOK, HookInv
  <2> QED
    BY <2>1, <2>2, <2>3, <2>4, <2>5
<1>28. CASE CloseClient
  <2>1. ExitTypeOK'
    BY <1>28 DEF CloseClient, TypeOK, ExitTypeOK
  <2>2. TypeOK'
    BY <1>28, <2>1 DEF CloseClient, TypeOK, WorkstationState
  <2>3. ClientMutex' /\ LoginInv'
    BY <1>28 DEF CloseClient, TypeOK, ClientMutex, LoginInv
  <2>4. StageInv'
    BY <1>28 DEF CloseClient, TypeOK, WorkstationState, StageInv
  <2>5. HookInv'
    BY <1>28 DEF CloseClient, TypeOK, ExitTypeOK, HookInv
  <2> QED
    BY <2>1, <2>2, <2>3, <2>4, <2>5
<1>29. CASE ServerTakesStart
  <2>1. ExitTypeOK'
    BY <1>29 DEF ServerTakesStart, StartRequest, Alive, TypeOK, ExitTypeOK
  <2>a. ws' \in WorkstationState /\ startSent' \in BOOLEAN
    BY <1>29 DEF ServerTakesStart, StartRequest, Alive, TypeOK, WorkstationState
  <2>2. TypeOK'
    BY <1>29, <2>1, <2>a DEF ServerTakesStart, StartRequest, Alive, TypeOK, WorkstationState
  <2>3. ClientMutex' /\ LoginInv'
    BY <1>29 DEF ServerTakesStart, StartRequest, Alive, TypeOK, ClientMutex, LoginInv
  <2>4. StageInv'
    BY <1>29 DEF ServerTakesStart, StartRequest, Alive, TypeOK, WorkstationState, StageInv
  <2>5. HookInv'
    BY <1>29 DEF ServerTakesStart, StartRequest, Alive, TypeOK, ExitTypeOK, HookInv
  <2> QED
    BY <2>1, <2>2, <2>3, <2>4, <2>5
<1>30. CASE ServerStarts
  <2>1. ExitTypeOK'
    BY <1>30 DEF ServerStarts, TypeOK, ExitTypeOK
  <2>2. TypeOK'
    BY <1>30, <2>1 DEF ServerStarts, TypeOK, WorkstationState
  <2>3. ClientMutex' /\ LoginInv'
    BY <1>30 DEF ServerStarts, TypeOK, ClientMutex, LoginInv
  <2>4. StageInv'
    BY <1>30 DEF ServerStarts, TypeOK, WorkstationState, StageInv
  <2>5. HookInv'
    BY <1>30 DEF ServerStarts, TypeOK, ExitTypeOK, HookInv
  <2> QED
    BY <2>1, <2>2, <2>3, <2>4, <2>5
<1>31. CASE ServerStops
  <2>1. ExitTypeOK'
    BY <1>31 DEF ServerStops, TypeOK, ExitTypeOK
  <2>2. TypeOK'
    BY <1>31, <2>1 DEF ServerStops, TypeOK, WorkstationState
  <2>3. ClientMutex' /\ LoginInv'
    BY <1>31 DEF ServerStops, TypeOK, ClientMutex, LoginInv
  <2>4. StageInv'
    BY <1>31 DEF ServerStops, TypeOK, WorkstationState, StageInv
  <2>5. HookInv'
    BY <1>31 DEF ServerStops, TypeOK, ExitTypeOK, HookInv
  <2> QED
    BY <2>1, <2>2, <2>3, <2>4, <2>5
<1>32. CASE ServerFailsToStart
  <2>1. ExitTypeOK'
    BY <1>32 DEF ServerFailsToStart, TypeOK, ExitTypeOK
  <2>2. TypeOK'
    BY <1>32, <2>1 DEF ServerFailsToStart, TypeOK, WorkstationState
  <2>3. ClientMutex' /\ LoginInv'
    BY <1>32 DEF ServerFailsToStart, TypeOK, ClientMutex, LoginInv
  <2>4. StageInv'
    BY <1>32 DEF ServerFailsToStart, TypeOK, WorkstationState, StageInv
  <2>5. HookInv'
    BY <1>32 DEF ServerFailsToStart, TypeOK, ExitTypeOK, HookInv
  <2> QED
    BY <2>1, <2>2, <2>3, <2>4, <2>5
<1>33. CASE TokenExpires
  <2>1. ExitTypeOK'
    BY <1>33 DEF TokenExpires, TypeOK, ExitTypeOK
  <2>a. fresh' \in BOOLEAN /\ calm' \in BOOLEAN
    BY <1>33 DEF TokenExpires, TypeOK, WorkstationState
  <2>2. TypeOK'
    BY <1>33, <2>1, <2>a DEF TokenExpires, TypeOK, WorkstationState
  <2>3. ClientMutex' /\ LoginInv'
    BY <1>33 DEF TokenExpires, TypeOK, ClientMutex, LoginInv
  <2>4. StageInv'
    BY <1>33 DEF TokenExpires, TypeOK, WorkstationState, StageInv
  <2>5. HookInv'
    BY <1>33 DEF TokenExpires, TypeOK, ExitTypeOK, HookInv
  <2> QED
    BY <2>1, <2>2, <2>3, <2>4, <2>5
<1>34. CASE UNCHANGED vars
  <2>1. ExitTypeOK'
    BY <1>34 DEF vars, sessionVars, TypeOK, ExitTypeOK
  <2>2. TypeOK'
    BY <1>34, <2>1 DEF vars, sessionVars, TypeOK, WorkstationState
  <2>3. ClientMutex' /\ LoginInv'
    BY <1>34 DEF vars, sessionVars, TypeOK, ClientMutex, LoginInv
  <2>4. StageInv'
    BY <1>34 DEF vars, sessionVars, TypeOK, WorkstationState, StageInv
  <2>5. HookInv'
    BY <1>34 DEF vars, sessionVars, TypeOK, ExitTypeOK, HookInv
  <2> QED
    BY <2>1, <2>2, <2>3, <2>4, <2>5
<1> QED
  BY <1>1, <1>2, <1>3, <1>4, <1>5, <1>6, <1>7, <1>8, <1>9, <1>10, <1>11, <1>12, <1>13, <1>14,
     <1>15, <1>16, <1>17, <1>18, <1>19, <1>20, <1>21, <1>22, <1>23, <1>24, <1>25, <1>26, <1>27,
     <1>28, <1>29, <1>30, <1>31, <1>32, <1>33, <1>34
     DEF Next, OpWorks, OpFails, HookWorks, ServerWorks

-----------------------------------------------------------------------------
(* The token stays fresh and every start request is answered at once.      *)
TokenInv == calm => fresh /\ ~startSent /\ op # "sending"

(* The UI leaves only after it has cancelled the operation or knows that   *)
(* it has returned.                                                        *)
LeaveInv ==
    /\ done => op = "returned"
    /\ calm /\ leaving => cancelled \/ done
    /\ gone => leaving

OffState == ws \in {"STOPPED", "STOPPING"}

(* What the hook found stopped stays so, and what it did is done.          *)
OffInv == calm =>
    /\ hook = "act" /\ hookSeen = "STOPPED" => OffState
    /\ hook \in {"close", "over"} /\ stop /\ client # "none" => OffState

CalmInv == SessionInv /\ TokenInv /\ LeaveInv /\ OffInv

LEMMA CalmInvInit == Init => CalmInv
  BY SessionInvInit DEF Init, ExitInit, CalmInv, TokenInv, LeaveInv, OffInv

(* Every step preserves it.                                                *)
LEMMA CalmInvStep == CalmInv /\ [Next]_vars => CalmInv'
<1> SUFFICES ASSUME CalmInv, [Next]_vars PROVE CalmInv'
  OBVIOUS
<1>a. SessionInv'
  BY SessionInvStep DEF CalmInv
<1> USE <1>a DEF CalmInv, SessionInv, exitVars, opVars, hookVars, clientVars, cloudVars, history
<1>1. CASE UiStep
  <2>1. TokenInv' /\ LeaveInv'
    BY <1>1 DEF UserStep, Ask, Withdraw, Answer, Quit, Dismiss, Toggle, Finish, UiStep,
       sessionVars, TypeOK, ExitTypeOK, TokenInv, LeaveInv
  <2>2. OffInv'
    BY <1>1 DEF UserStep, Ask, Withdraw, Answer, Quit, Dismiss, Toggle, Finish, UiStep,
       sessionVars, TypeOK, WorkstationState, ClientMutex, LoginInv, HookInv, TokenInv,
       LeaveInv, OffInv, OffState
  <2> QED
    BY <2>1, <2>2
<1>2. CASE HangsUp
  <2>1. TokenInv' /\ LeaveInv'
    BY <1>2 DEF HangsUp, Hangup, TypeOK, ExitTypeOK, TokenInv, LeaveInv
  <2>2. OffInv'
    BY <1>2 DEF HangsUp, Hangup, TypeOK, WorkstationState, ClientMutex, LoginInv, HookInv,
       TokenInv, LeaveInv, OffInv, OffState
  <2> QED
    BY <2>1, <2>2
<1>3. CASE UiLeaves
  <2>1. TokenInv' /\ LeaveInv'
    BY <1>3 DEF UiLeaves, Leave, sessionVars, TypeOK, ExitTypeOK, TokenInv, LeaveInv
  <2>2. OffInv'
    BY <1>3 DEF UiLeaves, Leave, sessionVars, TypeOK, WorkstationState, ClientMutex, LoginInv,
       HookInv, TokenInv, LeaveInv, OffInv, OffState
  <2> QED
    BY <2>1, <2>2
<1>4. CASE OpSetup
  <2>1. TokenInv' /\ LeaveInv'
    BY <1>4 DEF OpSetup, Alive, TypeOK, ExitTypeOK, TokenInv, LeaveInv
  <2>2. OffInv'
    BY <1>4 DEF OpSetup, Alive, TypeOK, WorkstationState, ClientMutex, LoginInv, HookInv,
       TokenInv, LeaveInv, OffInv, OffState
  <2> QED
    BY <2>1, <2>2
<1>5. CASE OpLogsIn
  <2>1. TokenInv' /\ LeaveInv'
    BY <1>5 DEF OpLogsIn, Alive, TypeOK, ExitTypeOK, TokenInv, LeaveInv
  <2>2. OffInv'
    BY <1>5 DEF OpLogsIn, Alive, TypeOK, WorkstationState, ClientMutex, LoginInv, HookInv,
       TokenInv, LeaveInv, OffInv, OffState
  <2> QED
    BY <2>1, <2>2
<1>6. CASE OpLoginFails
  <2>1. TokenInv' /\ LeaveInv'
    BY <1>6 DEF OpLoginFails, Alive, TypeOK, ExitTypeOK, TokenInv, LeaveInv
  <2>2. OffInv'
    BY <1>6 DEF OpLoginFails, Alive, TypeOK, WorkstationState, ClientMutex, LoginInv, HookInv,
       TokenInv, LeaveInv, OffInv, OffState
  <2> QED
    BY <2>1, <2>2
<1>7. CASE OpReads
  <2>1. TokenInv' /\ LeaveInv'
    BY <1>7 DEF OpReads, CallWorks, CanCall, Alive, SourceAlive, TypeOK, ExitTypeOK, TokenInv,
       LeaveInv
  <2>2. OffInv'
    BY <1>7 DEF OpReads, CallWorks, CanCall, Alive, SourceAlive, TypeOK, WorkstationState,
       ClientMutex,
       LoginInv, HookInv, TokenInv, LeaveInv, OffInv, OffState
  <2> QED
    BY <2>1, <2>2
<1>8. CASE OpCallFails
  <2>1. TokenInv' /\ LeaveInv'
    BY <1>8 DEF OpCallFails, CallFails, CanCall, OpContext, InCall, Alive, SourceAlive, TypeOK,
       ExitTypeOK,
       TokenInv, LeaveInv
  <2>2. OffInv'
    BY <1>8 DEF OpCallFails, CallFails, CanCall, OpContext, InCall, Alive, SourceAlive, TypeOK,
       WorkstationState,
       ClientMutex, LoginInv, HookInv, TokenInv, LeaveInv, OffInv, OffState
  <2> QED
    BY <2>1, <2>2
<1>9. CASE OpRequestsStop
  <2>1. TokenInv' /\ LeaveInv'
    BY <1>9 DEF OpRequestsStop, CallWorks, CanCall, StopRequest, Alive, SourceAlive, TypeOK,
       ExitTypeOK, TokenInv, LeaveInv
  <2>2. OffInv'
    BY <1>9 DEF OpRequestsStop, CallWorks, CanCall, StopRequest, Alive, SourceAlive, TypeOK,
       WorkstationState, ClientMutex, LoginInv, HookInv, TokenInv, LeaveInv, OffInv, OffState
  <2> QED
    BY <2>1, <2>2
<1>10. CASE OpFindsStopped
  <2>1. TokenInv' /\ LeaveInv'
    BY <1>10 DEF OpFindsStopped, EnterStage, Alive, TypeOK, ExitTypeOK, TokenInv, LeaveInv
  <2>2. OffInv'
    BY <1>10 DEF OpFindsStopped, EnterStage, Alive, TypeOK, WorkstationState, ClientMutex,
       LoginInv, HookInv, TokenInv, LeaveInv, OffInv, OffState
  <2> QED
    BY <2>1, <2>2
<1>11. CASE OpStopCompletes
  <2>1. TokenInv' /\ LeaveInv'
    BY <1>11 DEF OpStopCompletes, CallWorks, CanCall, EnterStage, Alive, SourceAlive, TypeOK,
       ExitTypeOK, TokenInv, LeaveInv
  <2>2. OffInv'
    BY <1>11 DEF OpStopCompletes, CallWorks, CanCall, EnterStage, Alive, SourceAlive, TypeOK,
       WorkstationState, ClientMutex, LoginInv, HookInv, TokenInv, LeaveInv, OffInv, OffState
  <2> QED
    BY <2>1, <2>2
<1>12. CASE OpRequestsStart
  <2>1. TokenInv' /\ LeaveInv'
    BY <1>12 DEF OpRequestsStart, CallWorks, CanCall, StartRequest, Alive, SourceAlive, TypeOK,
       ExitTypeOK, TokenInv, LeaveInv
  <2>2. OffInv'
    BY <1>12 DEF OpRequestsStart, CallWorks, CanCall, StartRequest, Alive, SourceAlive, TypeOK,
       WorkstationState, ClientMutex, LoginInv, HookInv, TokenInv, LeaveInv, OffInv, OffState
  <2> QED
    BY <2>1, <2>2
<1>13. CASE OpStartCompletes
  <2>1. TokenInv' /\ LeaveInv'
    BY <1>13 DEF OpStartCompletes, CallWorks, CanCall, EnterStage, Alive, SourceAlive, TypeOK,
       ExitTypeOK, TokenInv, LeaveInv
  <2>2. OffInv'
    BY <1>13 DEF OpStartCompletes, CallWorks, CanCall, EnterStage, Alive, SourceAlive, TypeOK,
       WorkstationState, ClientMutex, LoginInv, HookInv, TokenInv, LeaveInv, OffInv, OffState
  <2> QED
    BY <2>1, <2>2
<1>14. CASE OpStartAborted
  <2>1. TokenInv' /\ LeaveInv'
    BY <1>14 DEF OpStartAborted, Alive, TypeOK, ExitTypeOK, TokenInv, LeaveInv
  <2>2. OffInv'
    BY <1>14 DEF OpStartAborted, Alive, TypeOK, WorkstationState, ClientMutex, LoginInv,
       HookInv, TokenInv, LeaveInv, OffInv, OffState
  <2> QED
    BY <2>1, <2>2
<1>15. CASE OpNeedsNoStart
  <2>1. TokenInv' /\ LeaveInv'
    BY <1>15 DEF OpNeedsNoStart, EnterStage, Alive, TypeOK, ExitTypeOK, TokenInv, LeaveInv
  <2>2. OffInv'
    BY <1>15 DEF OpNeedsNoStart, EnterStage, Alive, TypeOK, WorkstationState, ClientMutex,
       LoginInv, HookInv, TokenInv, LeaveInv, OffInv, OffState
  <2> QED
    BY <2>1, <2>2
<1>16. CASE OpPolls
  <2>1. TokenInv' /\ LeaveInv'
    BY <1>16 DEF OpPolls, Alive, TypeOK, ExitTypeOK, TokenInv, LeaveInv
  <2>2. OffInv'
    BY <1>16 DEF OpPolls, Alive, TypeOK, WorkstationState, ClientMutex, LoginInv, HookInv,
       TokenInv, LeaveInv, OffInv, OffState
  <2> QED
    BY <2>1, <2>2
<1>17. CASE OpPollSucceeds
  <2>1. TokenInv' /\ LeaveInv'
    BY <1>17 DEF OpPollSucceeds, CallWorks, CanCall, EnterStage, Alive, SourceAlive, TypeOK,
       ExitTypeOK, TokenInv, LeaveInv
  <2>2. OffInv'
    BY <1>17 DEF OpPollSucceeds, CallWorks, CanCall, EnterStage, Alive, SourceAlive, TypeOK,
       WorkstationState, ClientMutex, LoginInv, HookInv, TokenInv, LeaveInv, OffInv, OffState
  <2> QED
    BY <2>1, <2>2
<1>18. CASE OpPollTimesOut
  <2>1. TokenInv' /\ LeaveInv'
    BY <1>18 DEF OpPollTimesOut, Alive, TypeOK, ExitTypeOK, TokenInv, LeaveInv
  <2>2. OffInv'
    BY <1>18 DEF OpPollTimesOut, Alive, TypeOK, WorkstationState, ClientMutex, LoginInv,
       HookInv, TokenInv, LeaveInv, OffInv, OffState
  <2> QED
    BY <2>1, <2>2
<1>19. CASE OpTunnelCancelled
  <2>1. TokenInv' /\ LeaveInv'
    BY <1>19 DEF OpTunnelCancelled, Alive, TypeOK, ExitTypeOK, TokenInv, LeaveInv
  <2>2. OffInv'
    BY <1>19 DEF OpTunnelCancelled, Alive, TypeOK, WorkstationState, ClientMutex, LoginInv,
       HookInv, TokenInv, LeaveInv, OffInv, OffState
  <2> QED
    BY <2>1, <2>2
<1>20. CASE HookBegins
  <2>1. TokenInv' /\ LeaveInv'
    BY <1>20 DEF HookBegins, TypeOK, ExitTypeOK, TokenInv, LeaveInv
  <2>2. OffInv'
    BY <1>20 DEF HookBegins, TypeOK, WorkstationState, ClientMutex, LoginInv, HookInv,
       TokenInv, LeaveInv, OffInv, OffState
  <2> QED
    BY <2>1, <2>2
<1>21. CASE HookSetup
  <2>1. TokenInv' /\ LeaveInv'
    BY <1>21 DEF HookSetup, TypeOK, ExitTypeOK, TokenInv, LeaveInv
  <2>2. OffInv'
    BY <1>21 DEF HookSetup, TypeOK, WorkstationState, ClientMutex, LoginInv, HookInv,
       TokenInv, LeaveInv, OffInv, OffState
  <2> QED
    BY <2>1, <2>2
<1>22. CASE HookLogsIn
  <2>1. TokenInv' /\ LeaveInv'
    BY <1>22 DEF HookLogsIn, TypeOK, ExitTypeOK, TokenInv, LeaveInv
  <2>2. OffInv'
    BY <1>22 DEF HookLogsIn, TypeOK, WorkstationState, ClientMutex, LoginInv, HookInv,
       TokenInv, LeaveInv, OffInv, OffState
  <2> QED
    BY <2>1, <2>2
<1>23. CASE HookLoginFails
  <2>1. TokenInv' /\ LeaveInv'
    BY <1>23 DEF HookLoginFails, TypeOK, ExitTypeOK, TokenInv, LeaveInv
  <2>2. OffInv'
    BY <1>23 DEF HookLoginFails, TypeOK, WorkstationState, ClientMutex, LoginInv, HookInv,
       TokenInv, LeaveInv, OffInv, OffState
  <2> QED
    BY <2>1, <2>2
<1>24. CASE HookReads
  <2>1. TokenInv' /\ LeaveInv'
    BY <1>24 DEF HookReads, CallWorks, CanCall, SourceAlive, TypeOK, ExitTypeOK, TokenInv, LeaveInv
  <2>2. OffInv'
    BY <1>24 DEF HookReads, CallWorks, CanCall, SourceAlive, TypeOK, WorkstationState, ClientMutex,
       LoginInv, HookInv, TokenInv, LeaveInv, OffInv, OffState
  <2> QED
    BY <2>1, <2>2
<1>25. CASE HookRequestsStop
  <2>1. TokenInv' /\ LeaveInv'
    BY <1>25 DEF HookRequestsStop, CallWorks, CanCall, StopRequest, SourceAlive, TypeOK, ExitTypeOK,
       TokenInv, LeaveInv
  <2>2. OffInv'
    BY <1>25 DEF HookRequestsStop, CallWorks, CanCall, StopRequest, SourceAlive, TypeOK,
       WorkstationState, ClientMutex, LoginInv, HookInv, TokenInv, LeaveInv, OffInv, OffState
  <2> QED
    BY <2>1, <2>2
<1>26. CASE HookFindsStopped
  <2>1. TokenInv' /\ LeaveInv'
    BY <1>26 DEF HookFindsStopped, TypeOK, ExitTypeOK, TokenInv, LeaveInv
  <2>2. OffInv'
    BY <1>26 DEF HookFindsStopped, TypeOK, WorkstationState, ClientMutex, LoginInv, HookInv,
       TokenInv, LeaveInv, OffInv, OffState
  <2> QED
    BY <2>1, <2>2
<1>27. CASE HookCallFails
  <2>1. TokenInv' /\ LeaveInv'
    BY <1>27 DEF HookCallFails, CallFails, CanCall, SourceAlive, TypeOK, ExitTypeOK, TokenInv,
       LeaveInv
  <2>2. OffInv'
    BY <1>27 DEF HookCallFails, CallFails, CanCall, SourceAlive, TypeOK, WorkstationState,
       ClientMutex,
       LoginInv, HookInv, TokenInv, LeaveInv, OffInv, OffState
  <2> QED
    BY <2>1, <2>2
<1>28. CASE CloseClient
  <2>1. TokenInv' /\ LeaveInv'
    BY <1>28 DEF CloseClient, TypeOK, ExitTypeOK, TokenInv, LeaveInv
  <2>2. OffInv'
    BY <1>28 DEF CloseClient, TypeOK, WorkstationState, ClientMutex, LoginInv, HookInv,
       TokenInv, LeaveInv, OffInv, OffState
  <2> QED
    BY <2>1, <2>2
<1>29. CASE ServerTakesStart
  <2>1. TokenInv' /\ LeaveInv'
    BY <1>29 DEF ServerTakesStart, StartRequest, Alive, TypeOK, ExitTypeOK, TokenInv, LeaveInv
  <2>2. OffInv'
    BY <1>29 DEF ServerTakesStart, StartRequest, Alive, TypeOK, WorkstationState, ClientMutex,
       LoginInv, HookInv, TokenInv, LeaveInv, OffInv, OffState
  <2> QED
    BY <2>1, <2>2
<1>30. CASE ServerStarts
  <2>1. TokenInv' /\ LeaveInv'
    BY <1>30 DEF ServerStarts, TypeOK, ExitTypeOK, TokenInv, LeaveInv
  <2>2. OffInv'
    BY <1>30 DEF ServerStarts, TypeOK, WorkstationState, ClientMutex, LoginInv, HookInv,
       TokenInv, LeaveInv, OffInv, OffState
  <2> QED
    BY <2>1, <2>2
<1>31. CASE ServerStops
  <2>1. TokenInv' /\ LeaveInv'
    BY <1>31 DEF ServerStops, TypeOK, ExitTypeOK, TokenInv, LeaveInv
  <2>2. OffInv'
    BY <1>31 DEF ServerStops, TypeOK, WorkstationState, ClientMutex, LoginInv, HookInv,
       TokenInv, LeaveInv, OffInv, OffState
  <2> QED
    BY <2>1, <2>2
<1>32. CASE ServerFailsToStart
  <2>1. TokenInv' /\ LeaveInv'
    BY <1>32 DEF ServerFailsToStart, TypeOK, ExitTypeOK, TokenInv, LeaveInv
  <2>2. OffInv'
    BY <1>32 DEF ServerFailsToStart, TypeOK, WorkstationState, ClientMutex, LoginInv, HookInv,
       TokenInv, LeaveInv, OffInv, OffState
  <2> QED
    BY <2>1, <2>2
<1>33. CASE TokenExpires
  <2>1. TokenInv' /\ LeaveInv'
    BY <1>33 DEF TokenExpires, TypeOK, ExitTypeOK, TokenInv, LeaveInv
  <2>2. OffInv'
    BY <1>33 DEF TokenExpires, TypeOK, WorkstationState, ClientMutex, LoginInv, HookInv,
       TokenInv, LeaveInv, OffInv, OffState
  <2> QED
    BY <2>1, <2>2
<1>34. CASE UNCHANGED vars
  <2>1. TokenInv' /\ LeaveInv'
    BY <1>34 DEF vars, sessionVars, TypeOK, ExitTypeOK, TokenInv, LeaveInv
  <2>2. OffInv'
    BY <1>34 DEF vars, sessionVars, TypeOK, WorkstationState, ClientMutex, LoginInv, HookInv,
       TokenInv, LeaveInv, OffInv, OffState
  <2> QED
    BY <2>1, <2>2
<1> QED
  BY <1>1, <1>2, <1>3, <1>4, <1>5, <1>6, <1>7, <1>8, <1>9, <1>10, <1>11, <1>12, <1>13, <1>14,
     <1>15, <1>16, <1>17, <1>18, <1>19, <1>20, <1>21, <1>22, <1>23, <1>24, <1>25, <1>26, <1>27,
     <1>28, <1>29, <1>30, <1>31, <1>32, <1>33, <1>34
     DEF Next, OpWorks, OpFails, HookWorks, ServerWorks

-----------------------------------------------------------------------------
(* Type correctness, whatever the faults.                                  *)
THEOREM SessionTypeCorrect == Spec => []TypeOK
<1>1. SessionInv => TypeOK
  BY DEF SessionInv
<1> QED
  BY <1>1, SessionInvInit, SessionInvStep, PTL DEF Spec

(* The mutex is held exactly during logins, whatever the faults.           *)
THEOREM OneLoginAtATime == Spec => []ClientMutex
<1>1. SessionInv => ClientMutex
  BY DEF SessionInv
<1> QED
  BY <1>1, SessionInvInit, SessionInvStep, PTL DEF Spec

(* A restart has seen the workstation stop, whatever the faults.           *)
THEOREM RestartStopsFirst == Spec => []RestartCycles
<1>1. SessionInv => RestartCycles
  BY DEF SessionInv, StageInv, RestartCycles
<1> QED
  BY <1>1, SessionInvInit, SessionInvStep, PTL DEF Spec

(* Nothing is stopped that nobody wanted stopped, whatever the faults.     *)
THEOREM StopsAreConsented == Spec => ConsentedStops
<1>1. SessionInv /\ [Next]_vars => [ws' = "STOPPING" /\ ws # "STOPPING" => restart \/ (gone /\ stop)]_vars
  <2> SUFFICES ASSUME SessionInv, Next, ws' = "STOPPING", ws # "STOPPING"
               PROVE  restart \/ (gone /\ stop)
    OBVIOUS
  <2>1. CASE OpRequestsStop
    BY <2>1 DEF OpRequestsStop, SessionInv, StageInv
  <2>2. CASE HookRequestsStop
    BY <2>2 DEF HookRequestsStop, SessionInv, HookInv
  <2>3. ~OpRequestsStart /\ ~ServerWorks
    BY DEF OpRequestsStart, StartRequest, ServerWorks, ServerTakesStart, ServerStarts,
       ServerFailsToStart, ServerStops
  <2>4. ws' = ws \/ OpRequestsStop \/ HookRequestsStop
    BY <2>3 DEF Next, UiStep, UiLeaves, OpWorks, OpFails, HookWorks, OpSetup, OpLogsIn,
       OpLoginFails,
       OpReads,
       OpCallFails, OpFindsStopped, OpStopCompletes, OpStartCompletes, OpStartAborted, OpNeedsNoStart,
       OpPolls, OpPollSucceeds, OpPollTimesOut, OpTunnelCancelled, HookBegins, HookSetup, HookLogsIn,
       HookLoginFails, HookReads, HookFindsStopped, HookCallFails, CloseClient,
       TokenExpires, HangsUp, sessionVars, cloudVars
  <2> QED
    BY <2>1, <2>2, <2>4
<1> QED
  BY <1>1, SessionInvInit, SessionInvStep, PTL DEF Spec, ConsentedStops

(* Stop-on-exit is kept wherever the operation was when the user quit,     *)
(* unless the terminal was closed on it, the token expired, a start was    *)
(* taken late or a call of the hook failed.                                *)
THEOREM StopOnExitKept == Spec => []CalmStopOnExit
<1>1. CalmInv => CalmStopOnExit
  BY DEF CalmInv, TokenInv, OffInv, OffState, CalmStopOnExit, StopOnExit
<1> QED
  BY <1>1, CalmInvInit, CalmInvStep, PTL DEF Spec

-----------------------------------------------------------------------------
(* What the steps of the operation, of the hook, of the service and of     *)
(* time have in common.                                                    *)
LEMMA OthersLeaveTheUi ==
    OpLogsIn \/ OpWorks \/ OpFails \/ HookLogsIn \/ HookWorks \/ ServerWorks \/ TokenExpires
        => UNCHANGED exitVars
BY DEF OpLogsIn, OpWorks, OpFails, HookLogsIn, HookWorks, ServerWorks, TokenExpires,
       OpSetup, OpLoginFails, OpReads, OpCallFails, OpRequestsStop, OpFindsStopped, OpStopCompletes,
       OpRequestsStart, OpStartCompletes, OpStartAborted, OpNeedsNoStart, OpPolls, OpPollSucceeds,
       OpPollTimesOut, OpTunnelCancelled, HookBegins, HookSetup, HookLoginFails, HookReads,
       HookRequestsStop, HookFindsStopped, HookCallFails, CloseClient,
       ServerTakesStart, ServerStarts, ServerFailsToStart, ServerStops

(* The session uses the UI as ExitDecision specifies it, which             *)
(* ShutdownPrompt implements: neither the operation nor the hook changes   *)
(* what was decided, and the UI decides nothing more when it has left.     *)
THEOREM SessionFollowsDecision == Spec => ExitSpec
<1>1. Init => ExitInit
  BY DEF Init
<1>2. [Next]_vars => [ExitNext]_exitVars
  <2> SUFFICES ASSUME [Next]_vars PROVE [ExitNext]_exitVars
    OBVIOUS
  <2>1. CASE UiStep
    BY <2>1 DEF UiStep, ExitNext
  <2>2. CASE HangsUp
    BY <2>2 DEF HangsUp, ExitNext
  <2>3. CASE UiLeaves
    BY <2>3 DEF UiLeaves, ExitNext
  <2>4. CASE UNCHANGED vars
    BY <2>4 DEF vars
  <2> QED
    BY <2>1, <2>2, <2>3, <2>4, OthersLeaveTheUi DEF Next
<1> QED
  BY <1>1, <1>2, PTL DEF Spec, ExitSpec

(* Where nothing is done to the session but that a login may need the user *)
(* and a start may fail, nothing spoils the promise of stop-on-exit.       *)
Quiet == Faults \subseteq {"login", "start"} => calm /\ fresh /\ ~startSent

LEMMA QuietStep == TypeOK /\ Quiet /\ [Next]_vars => Quiet'
<1> SUFFICES ASSUME Faults \subseteq {"login", "start"}, [Next]_vars,
                    calm = TRUE, fresh = TRUE, startSent = FALSE
             PROVE  calm' = TRUE /\ fresh' = TRUE /\ startSent' = FALSE
  BY DEF Quiet, TypeOK
<1>1. CASE UiStep \/ UiLeaves \/ UNCHANGED vars
  BY <1>1 DEF UiStep, UiLeaves, vars, sessionVars, clientVars, cloudVars, history
<1>2. CASE HangsUp \/ TokenExpires
  BY <1>2 DEF HangsUp, TokenExpires
<1>3. CASE OpLogsIn \/ OpWorks \/ OpFails
  <2>1. CASE OpLoginFails \/ OpCallFails
    BY <2>1 DEF OpLoginFails, OpCallFails, CallFails, cloudVars, history
  <2>2. CASE ~(OpLoginFails \/ OpCallFails)
    BY <1>3, <2>2 DEF OpLogsIn, OpWorks, OpFails, OpSetup, OpReads, OpRequestsStop,
       OpFindsStopped, OpStopCompletes, OpRequestsStart, OpStartCompletes, OpStartAborted,
       OpNeedsNoStart, OpPolls, OpPollSucceeds, OpPollTimesOut, OpTunnelCancelled,
       CallWorks, clientVars, cloudVars, history
  <2> QED
    BY <2>1, <2>2
<1>4. CASE HookLogsIn \/ HookWorks
  BY <1>4 DEF HookLogsIn, HookWorks, HookBegins, HookSetup, HookLoginFails, HookReads,
     HookRequestsStop, HookFindsStopped, HookCallFails, CloseClient,
     CallWorks, CallFails, CanCall, clientVars, cloudVars, history
<1>5. CASE ServerWorks
  BY <1>5 DEF ServerWorks, ServerTakesStart, ServerStarts, ServerFailsToStart, ServerStops,
     clientVars, history
<1> QED
  BY <1>1, <1>2, <1>3, <1>4, <1>5 DEF Next

(* README.md 356 as it stands: in a terminal that stays open, with a token *)
(* that stays fresh and calls that work and are taken at once, a session   *)
(* that has had a client leaves nothing running when stop-on-exit says so. *)
THEOREM StopOnExitUndisturbed == Spec => [](Faults \subseteq {"login", "start"} => StopOnExit)
<1>1. Init => Quiet
  BY DEF Init, Quiet
<1>2. SessionInv => TypeOK
  BY DEF SessionInv
<1>3. Quiet /\ CalmStopOnExit => (Faults \subseteq {"login", "start"} => StopOnExit)
  BY DEF Quiet, CalmStopOnExit
<1> QED
  BY <1>1, <1>2, <1>3, QuietStep, SessionInvInit, SessionInvStep, StopOnExitKept, PTL DEF Spec

(* The result reaches the UI when the operation has returned, for good.    *)
DoneInv == done => op = "returned"

LEMMA DoneInvStep == DoneInv /\ [Next]_vars => DoneInv'
<1>1. ASSUME op = "returned", [Next]_vars PROVE op' = "returned"
  BY <1>1 DEF Next, UiStep, HangsUp, UiLeaves, vars, sessionVars, opVars, OpLogsIn, OpWorks,
     OpFails,
     HookLogsIn, HookWorks, ServerWorks, TokenExpires, OpSetup, OpLoginFails, OpReads, OpCallFails,
     InCall, OpRequestsStop, OpFindsStopped, OpStopCompletes, OpRequestsStart, OpStartCompletes,
     OpStartAborted, OpNeedsNoStart, OpPolls, OpPollSucceeds, OpPollTimesOut, OpTunnelCancelled,
     HookBegins, HookSetup, HookLoginFails, HookReads, HookRequestsStop, HookFindsStopped,
     HookCallFails, CloseClient, ServerTakesStart, ServerStarts, ServerFailsToStart, ServerStops
<1>2. ASSUME [Next]_vars, done' PROVE done \/ op = "returned"
  <2>1. CASE UiStep
    BY <1>2, <2>1 DEF UiStep, UserStep, Ask, Withdraw, Quit, Dismiss, Answer, Toggle, Finish
  <2>2. CASE HangsUp \/ UiLeaves
    BY <1>2, <2>2 DEF HangsUp, Hangup, UiLeaves, Leave
  <2>3. CASE UNCHANGED exitVars
    BY <1>2, <2>3 DEF exitVars
  <2> QED
    BY <1>2, <2>1, <2>2, <2>3, OthersLeaveTheUi DEF Next, vars
<1> QED
  BY <1>1, <1>2 DEF DoneInv

(* The lock behind QuitEnds: when the UI has left after a quit or a        *)
(* result, the hook and the end of the process wait for nobody, but for a  *)
(* login whose context is cancelled, and that login gives up (auth.go).    *)
THEOREM QuitWaitsForNobody ==
    Spec => [](gone /\ (cancelled \/ done) /\ hook \in {"setup", "close"} /\ mutex # "free"
                   => op = "login" /\ cancelled)
<1>1. Init => DoneInv
  BY DEF Init, ExitInit, DoneInv
<1>2. SessionInv /\ DoneInv =>
          (gone /\ (cancelled \/ done) /\ hook \in {"setup", "close"} /\ mutex # "free"
               => op = "login" /\ cancelled)
  BY DEF SessionInv, TypeOK, ClientMutex, DoneInv
<1> QED
  BY <1>1, <1>2, DoneInvStep, SessionInvInit, SessionInvStep, PTL DEF Spec
=============================================================================
