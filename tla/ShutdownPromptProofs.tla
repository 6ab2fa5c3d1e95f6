------------------------ MODULE ShutdownPromptProofs ------------------------
(***************************************************************************)
(* Proofs about ShutdownPrompt for every Timeout, Period and MaxOpens.     *)
(* The inductive invariant PromptInv adds to the properties what they need *)
(* to be preserved: an open prompt has at least a second to go, chains     *)
(* that were not started have no tick, and the honest countdown also pays  *)
(* for the age of the tick that is outstanding.                            *)
(***************************************************************************)
EXTENDS ShutdownPrompt, TLAPS

OpenHasTime == confirming => rem \in 1 .. Timeout

NoFutureTicks == \A k \in Chain : k > opened => tick[k] = Off

NoStaleTicks == \A k \in 1 .. opened - 1 : tick[k] = Off

PaidCountdown ==
    confirming /\ NoStaleTicks => shown >= Period * (Timeout - rem) + tick[opened]

PromptInv ==
    /\ TypeOK
    /\ PromptIsArmed
    /\ PromptOnlyWhenActive
    /\ HookFollowsConfig
    /\ AnswerDecides
    /\ OpenHasTime
    /\ NoFutureTicks
    /\ PaidCountdown

-----------------------------------------------------------------------------
(* A second that is counted down costs Period units, and a prompt with a   *)
(* second to go has not yet used them all.                                 *)
LEMMA OneSecond ==
    ASSUME NEW p \in Nat, NEW t \in Nat, NEW r \in 1 .. t
    PROVE  /\ p * (t - r) \in Nat
           /\ p * t \in Nat
           /\ p * (t - (r - 1)) = p * (t - r) + p
           /\ p * (t - r) + p <= p * t
<1>1. p * t = p * (t - r) + p * r
  OBVIOUS
<1>2. p * (t - r) \in Nat /\ p * (r - 1) \in Nat /\ p * t \in Nat
  BY t - r \in Nat, r - 1 \in Nat, SMT
<1>3. p * r = p * (r - 1) + p
  OBVIOUS
<1>4. p * (t - (r - 1)) = p * (t - r) + p
  OBVIOUS
<1> QED
  BY <1>1, <1>2, <1>3, <1>4

(* The initial states satisfy the invariant.                               *)
LEMMA PromptInvInit == Init => PromptInv
<1> SUFFICES ASSUME Init PROVE PromptInv
  OBVIOUS
<1> USE PromptAssumption
<1>1. Full \in Nat
  BY DEF Full
<1>2. hookActive \in BOOLEAN
  BY DEF Init
<1>3. tick \in [Chain -> Off .. Period]
  BY DEF Init, Off
<1>4. TypeOK
  <2>1. opened \in 0 .. MaxOpens /\ rem \in 0 .. Timeout /\ shown \in 0 .. Full
    BY <1>1 DEF Init
  <2>2. confirming \in BOOLEAN /\ flag \in BOOLEAN /\ quitting \in BOOLEAN
    BY DEF Init
  <2>3. selected \in {0, 1}
    BY DEF Init
  <2> QED
  BY <1>2, <1>3, <2>1, <2>2, <2>3 DEF Init, TypeOK
<1> QED
  BY <1>4 DEF Init, PromptInv, PromptIsArmed, PromptOnlyWhenActive, HookFollowsConfig, AnswerDecides,
     OpenHasTime, NoFutureTicks, NoStaleTicks, PaidCountdown, Chain

(* Every step preserves the invariant.                                     *)
LEMMA PromptInvStep == PromptInv /\ [Next]_vars => PromptInv'
<1> SUFFICES ASSUME PromptInv, [Next]_vars PROVE PromptInv'
  OBVIOUS
<1> USE PromptAssumption DEF PromptInv, modelVars, loopVars
<1>1. CASE OpenPrompt
  <2>a. Full \in Nat
    BY DEF Full
  <2>b. tick' \in [Chain -> Off .. Period]
    BY <1>1 DEF OpenPrompt, TypeOK, Off, Chain
  <2>c. rem' \in 0 .. Timeout /\ opened' \in 0 .. MaxOpens /\ shown' \in 0 .. Full
    BY <1>1, <2>a DEF OpenPrompt, TypeOK
  <2>1. TypeOK'
    BY <1>1, <2>b, <2>c DEF OpenPrompt, TypeOK
  <2>2. PromptIsArmed' /\ NoFutureTicks'
    BY <1>1 DEF OpenPrompt, TypeOK, PromptIsArmed, NoFutureTicks, Chain, Off
  <2>3. PromptOnlyWhenActive' /\ HookFollowsConfig' /\ AnswerDecides'
    BY <1>1 DEF OpenPrompt, TypeOK, PromptOnlyWhenActive, HookFollowsConfig, AnswerDecides
  <2>4. OpenHasTime'
    BY <1>1 DEF OpenPrompt, TypeOK, OpenHasTime
  <2>5. PaidCountdown'
    BY <1>1 DEF OpenPrompt, TypeOK, PromptIsArmed, OpenHasTime, NoFutureTicks, NoStaleTicks,
       PaidCountdown, Chain, Off
  <2> QED
    BY <2>1, <2>2, <2>3, <2>4, <2>5
<1>2. CASE InterruptQuits
  <2>1. TypeOK'
    BY <1>2 DEF TypeOK, InterruptQuits, QuitProgram
  <2>2. PromptIsArmed' /\ NoFutureTicks'
    BY <1>2 DEF InterruptQuits, QuitProgram, TypeOK, PromptIsArmed, NoFutureTicks, Chain, Off
  <2>3. PromptOnlyWhenActive' /\ HookFollowsConfig' /\ AnswerDecides'
    BY <1>2 DEF InterruptQuits, QuitProgram, TypeOK, PromptOnlyWhenActive, HookFollowsConfig,
       AnswerDecides
  <2>4. OpenHasTime'
    BY <1>2 DEF InterruptQuits, QuitProgram, TypeOK, OpenHasTime
  <2>5. PaidCountdown'
    BY <1>2 DEF InterruptQuits, QuitProgram, TypeOK, PromptIsArmed, OpenHasTime,
       NoFutureTicks, NoStaleTicks, PaidCountdown, Chain, Off
  <2> QED
    BY <2>1, <2>2, <2>3, <2>4, <2>5
<1>3. CASE Escape
  <2>a. rem' \in 0 .. Timeout /\ selected' \in {0, 1}
    BY <1>3 DEF Escape
  <2>1. TypeOK'
    BY <1>3, <2>a DEF Escape, TypeOK, loopVars
  <2>2. PromptIsArmed' /\ NoFutureTicks'
    BY <1>3 DEF Escape, TypeOK, PromptIsArmed, NoFutureTicks, Chain, Off
  <2>3. PromptOnlyWhenActive' /\ HookFollowsConfig' /\ AnswerDecides'
    BY <1>3 DEF Escape, TypeOK, PromptOnlyWhenActive, HookFollowsConfig, AnswerDecides
  <2>4. OpenHasTime'
    BY <1>3 DEF Escape, TypeOK, OpenHasTime
  <2>5. PaidCountdown'
    BY <1>3 DEF Escape, TypeOK, PromptIsArmed, OpenHasTime, NoFutureTicks, NoStaleTicks,
       PaidCountdown, Chain, Off
  <2> QED
    BY <2>1, <2>2, <2>3, <2>4, <2>5
<1>4. ASSUME NEW button \in {0, 1}, Select(button) PROVE PromptInv'
  <2>1. TypeOK'
    BY <1>4 DEF TypeOK, Select
  <2>2. PromptIsArmed' /\ NoFutureTicks'
    BY <1>4 DEF Select, TypeOK, PromptIsArmed, NoFutureTicks, Chain, Off
  <2>3. PromptOnlyWhenActive' /\ HookFollowsConfig' /\ AnswerDecides'
    BY <1>4 DEF Select, TypeOK, PromptOnlyWhenActive, HookFollowsConfig, AnswerDecides
  <2>4. OpenHasTime'
    BY <1>4 DEF Select, TypeOK, OpenHasTime
  <2>5. PaidCountdown'
    BY <1>4 DEF Select, TypeOK, PromptIsArmed, OpenHasTime, NoFutureTicks, NoStaleTicks,
       PaidCountdown, Chain, Off
  <2> QED
    BY <2>1, <2>2, <2>3, <2>4, <2>5
<1>5. CASE Enter
  <2>1. TypeOK'
    BY <1>5 DEF TypeOK, Enter, AnswerStop, AnswerKeep, QuitProgram
  <2>2. PromptIsArmed' /\ NoFutureTicks'
    BY <1>5 DEF Enter, AnswerStop, AnswerKeep, QuitProgram, TypeOK, PromptIsArmed,
       NoFutureTicks, Chain, Off
  <2>3. PromptOnlyWhenActive' /\ HookFollowsConfig' /\ AnswerDecides'
    BY <1>5 DEF Enter, AnswerStop, AnswerKeep, QuitProgram, TypeOK, PromptOnlyWhenActive,
       HookFollowsConfig, AnswerDecides
  <2>4. OpenHasTime'
    BY <1>5 DEF Enter, AnswerStop, AnswerKeep, QuitProgram, TypeOK, OpenHasTime
  <2>5. PaidCountdown'
    BY <1>5 DEF Enter, AnswerStop, AnswerKeep, QuitProgram, TypeOK, PromptIsArmed,
       OpenHasTime, NoFutureTicks, NoStaleTicks, PaidCountdown, Chain, Off
  <2> QED
    BY <2>1, <2>2, <2>3, <2>4, <2>5
<1>6. CASE YesKey
  <2>1. TypeOK'
    BY <1>6 DEF TypeOK, YesKey, AnswerStop, QuitProgram
  <2>2. PromptIsArmed' /\ NoFutureTicks'
    BY <1>6 DEF YesKey, AnswerStop, QuitProgram, TypeOK, PromptIsArmed, NoFutureTicks, Chain, Off
  <2>3. PromptOnlyWhenActive' /\ HookFollowsConfig' /\ AnswerDecides'
    BY <1>6 DEF YesKey, AnswerStop, QuitProgram, TypeOK, PromptOnlyWhenActive,
       HookFollowsConfig, AnswerDecides
  <2>4. OpenHasTime'
    BY <1>6 DEF YesKey, AnswerStop, QuitProgram, TypeOK, OpenHasTime
  <2>5. PaidCountdown'
    BY <1>6 DEF YesKey, AnswerStop, QuitProgram, TypeOK, PromptIsArmed, OpenHasTime,
       NoFutureTicks, NoStaleTicks, PaidCountdown, Chain, Off
  <2> QED
    BY <2>1, <2>2, <2>3, <2>4, <2>5
<1>7. CASE NoKey
  <2>1. TypeOK'
    BY <1>7 DEF TypeOK, NoKey, AnswerKeep, QuitProgram
  <2>2. PromptIsArmed' /\ NoFutureTicks'
    BY <1>7 DEF NoKey, AnswerKeep, QuitProgram, TypeOK, PromptIsArmed, NoFutureTicks, Chain, Off
  <2>3. PromptOnlyWhenActive' /\ HookFollowsConfig' /\ AnswerDecides'
    BY <1>7 DEF NoKey, AnswerKeep, QuitProgram, TypeOK, PromptOnlyWhenActive,
       HookFollowsConfig, AnswerDecides
  <2>4. OpenHasTime'
    BY <1>7 DEF NoKey, AnswerKeep, QuitProgram, TypeOK, OpenHasTime
  <2>5. PaidCountdown'
    BY <1>7 DEF NoKey, AnswerKeep, QuitProgram, TypeOK, PromptIsArmed, OpenHasTime,
       NoFutureTicks, NoStaleTicks, PaidCountdown, Chain, Off
  <2> QED
    BY <2>1, <2>2, <2>3, <2>4, <2>5
<1>8. CASE AnyKeyWhenDone
  <2>1. TypeOK'
    BY <1>8 DEF TypeOK, AnyKeyWhenDone
  <2>2. PromptIsArmed' /\ NoFutureTicks'
    BY <1>8 DEF AnyKeyWhenDone, TypeOK, PromptIsArmed, NoFutureTicks, Chain, Off
  <2>3. PromptOnlyWhenActive' /\ HookFollowsConfig' /\ AnswerDecides'
    BY <1>8 DEF AnyKeyWhenDone, TypeOK, PromptOnlyWhenActive, HookFollowsConfig, AnswerDecides
  <2>4. OpenHasTime'
    BY <1>8 DEF AnyKeyWhenDone, TypeOK, OpenHasTime
  <2>5. PaidCountdown'
    BY <1>8 DEF AnyKeyWhenDone, TypeOK, PromptIsArmed, OpenHasTime, NoFutureTicks,
       NoStaleTicks, PaidCountdown, Chain, Off
  <2> QED
    BY <2>1, <2>2, <2>3, <2>4, <2>5
<1>9. CASE ToggleHook
  <2>1. TypeOK'
    BY <1>9 DEF TypeOK, ToggleHook
  <2>2. PromptIsArmed' /\ NoFutureTicks'
    BY <1>9 DEF ToggleHook, TypeOK, PromptIsArmed, NoFutureTicks, Chain, Off
  <2>3. PromptOnlyWhenActive' /\ HookFollowsConfig' /\ AnswerDecides'
    BY <1>9 DEF ToggleHook, TypeOK, PromptOnlyWhenActive, HookFollowsConfig, AnswerDecides
  <2>4. OpenHasTime'
    BY <1>9 DEF ToggleHook, TypeOK, OpenHasTime
  <2>5. PaidCountdown'
    BY <1>9 DEF ToggleHook, TypeOK, PromptIsArmed, OpenHasTime, NoFutureTicks, NoStaleTicks,
       PaidCountdown, Chain, Off
  <2> QED
    BY <2>1, <2>2, <2>3, <2>4, <2>5
<1>10. ASSUME NEW failed \in BOOLEAN, OperationEnds(failed) PROVE PromptInv'
  <2>1. TypeOK'
    BY <1>10 DEF TypeOK, OperationEnds
  <2>2. PromptIsArmed' /\ NoFutureTicks'
    BY <1>10 DEF OperationEnds, TypeOK, PromptIsArmed, NoFutureTicks, Chain, Off
  <2>3. PromptOnlyWhenActive' /\ HookFollowsConfig' /\ AnswerDecides'
    BY <1>10 DEF OperationEnds, TypeOK, PromptOnlyWhenActive, HookFollowsConfig, AnswerDecides
  <2>4. OpenHasTime'
    BY <1>10 DEF OperationEnds, TypeOK, OpenHasTime
  <2>5. PaidCountdown'
    BY <1>10 DEF OperationEnds, TypeOK, PromptIsArmed, OpenHasTime, NoFutureTicks,
       NoStaleTicks, PaidCountdown, Chain, Off
  <2> QED
    BY <2>1, <2>2, <2>3, <2>4, <2>5
<1>11. ASSUME NEW k \in Chain, TickAfterClose(k) PROVE PromptInv'
  <2>1. TypeOK'
    BY <1>11 DEF TypeOK, TickAfterClose, Due, OpenHasTime, Off
  <2>2. PromptIsArmed' /\ NoFutureTicks'
    BY <1>11 DEF TickAfterClose, Due, TypeOK, PromptIsArmed, NoFutureTicks, Chain, Off
  <2>3. PromptOnlyWhenActive' /\ HookFollowsConfig' /\ AnswerDecides'
    BY <1>11 DEF TickAfterClose, Due, TypeOK, PromptOnlyWhenActive, HookFollowsConfig,
       AnswerDecides
  <2>4. OpenHasTime'
    BY <1>11 DEF TickAfterClose, Due, TypeOK, OpenHasTime
  <2>5. PaidCountdown'
    BY <1>11 DEF TickAfterClose, Due, TypeOK, PromptIsArmed, OpenHasTime, NoFutureTicks,
       NoStaleTicks, PaidCountdown, Chain, Off
  <2> QED
    BY <2>1, <2>2, <2>3, <2>4, <2>5
<1>12. ASSUME NEW k \in Chain, TickCountsDown(k) PROVE PromptInv'
  <2>1. TypeOK'
    BY <1>12 DEF TypeOK, TickCountsDown, Due, OpenHasTime, Off
  <2>2. PromptIsArmed' /\ NoFutureTicks'
    BY <1>12 DEF TickCountsDown, Due, TypeOK, PromptIsArmed, NoFutureTicks, Chain, Off
  <2>3. PromptOnlyWhenActive' /\ HookFollowsConfig' /\ AnswerDecides'
    BY <1>12 DEF TickCountsDown, Due, TypeOK, PromptOnlyWhenActive, HookFollowsConfig,
       AnswerDecides
  <2>4. OpenHasTime'
    BY <1>12 DEF TickCountsDown, Due, TypeOK, OpenHasTime
  <2>5. PaidCountdown'
    BY <1>12 DEF TickCountsDown, Due, TypeOK, PromptIsArmed, OpenHasTime, NoFutureTicks,
       NoStaleTicks, PaidCountdown, Chain, Off
  <2> QED
    BY <2>1, <2>2, <2>3, <2>4, <2>5
<1>13. ASSUME NEW k \in Chain, TickConfirms(k) PROVE PromptInv'
  <2>a. tick' \in [Chain -> Off .. Period] /\ rem' \in 0 .. Timeout
    BY <1>13 DEF TickConfirms, Due, TypeOK, OpenHasTime, Off
  <2>1. TypeOK'
    BY <1>13, <2>a DEF TickConfirms, AnswerStop, QuitProgram, TypeOK
  <2>2. PromptIsArmed' /\ NoFutureTicks'
    BY <1>13 DEF TickConfirms, Due, AnswerStop, QuitProgram, TypeOK, PromptIsArmed,
       NoFutureTicks, Chain, Off
  <2>3. PromptOnlyWhenActive' /\ HookFollowsConfig' /\ AnswerDecides'
    BY <1>13 DEF TickConfirms, Due, AnswerStop, QuitProgram, TypeOK, PromptOnlyWhenActive,
       HookFollowsConfig, AnswerDecides
  <2>4. OpenHasTime'
    BY <1>13 DEF TickConfirms, Due, AnswerStop, QuitProgram, TypeOK, OpenHasTime
  <2>5. PaidCountdown'
    BY <1>13 DEF TickConfirms, Due, AnswerStop, QuitProgram, TypeOK, PromptIsArmed,
       OpenHasTime, NoFutureTicks, NoStaleTicks, PaidCountdown, Chain, Off
  <2> QED
    BY <2>1, <2>2, <2>3, <2>4, <2>5
<1>14. CASE Elapse
  <2>a. Full \in Nat
    BY DEF Full
  <2>b. tick' \in [Chain -> Off .. Period]
    BY <1>14 DEF Elapse, Aged, TypeOK, Off
  <2>c. shown' \in 0 .. Full
    BY <1>14, <2>a DEF Elapse, TypeOK
  <2>1. TypeOK'
    BY <1>14, <2>b, <2>c DEF Elapse, TypeOK, modelVars
  <2>2. PromptIsArmed' /\ NoFutureTicks'
    BY <1>14 DEF Elapse, Aged, TypeOK, PromptIsArmed, NoFutureTicks, Chain, Off
  <2>3. PromptOnlyWhenActive' /\ HookFollowsConfig' /\ AnswerDecides'
    BY <1>14 DEF Elapse, Aged, TypeOK, PromptOnlyWhenActive, HookFollowsConfig, AnswerDecides
  <2>4. OpenHasTime'
    BY <1>14 DEF Elapse, Aged, TypeOK, OpenHasTime
  <2>5. PaidCountdown'
    <3> SUFFICES ASSUME confirming, NoStaleTicks'
                 PROVE  shown' >= Period * (Timeout - rem) + Aged(tick[opened])
      BY <1>14 DEF Elapse, PaidCountdown, PromptIsArmed, TypeOK, Chain, modelVars
    <3>1. NoStaleTicks
      <4> SUFFICES ASSUME NEW k \in 1 .. opened - 1 PROVE tick[k] = Off
        BY DEF NoStaleTicks
      <4>1. tick'[k] = Off /\ k \in Chain
        <5>1. opened' = opened /\ opened \in 0 .. MaxOpens
          BY <1>14 DEF Elapse, TypeOK
        <5>2. \A j \in 1 .. opened' - 1 : tick'[j] = Off
          BY DEF NoStaleTicks
        <5> QED
          BY <5>1, <5>2 DEF Chain
      <4>2. Aged(tick[k]) = Off /\ tick[k] \in Off .. Period
        BY <1>14, <4>1 DEF Elapse, TypeOK
      <4> QED
        BY <4>2 DEF Aged, Off
    <3>2. /\ shown \in 0 .. Full /\ Full = Period * Timeout
          /\ tick[opened] \in Off .. Period
          /\ rem \in 1 .. Timeout
      BY DEF TypeOK, OpenHasTime, PromptIsArmed, Chain, Full
    <3>3. shown >= Period * (Timeout - rem) + tick[opened]
      BY <3>1 DEF PaidCountdown
    <3>4. /\ Period * (Timeout - rem) \in Nat
          /\ Period * (Timeout - rem) + Period <= Period * Timeout
      BY <3>2, OneSecond
    <3>5. CASE shown = Full
      BY <1>14, <3>2, <3>4, <3>5 DEF Elapse, Aged, Off
    <3>6. CASE shown < Full
      BY <1>14, <3>2, <3>3, <3>4, <3>6 DEF Elapse, Aged, Off
    <3> QED
      BY <3>2, <3>4, <3>5, <3>6
  <2> QED
    BY <2>1, <2>2, <2>3, <2>4, <2>5
<1>15. CASE TerminalCloses
  <2>1. TypeOK'
    BY <1>15 DEF TypeOK, TerminalCloses
  <2>2. PromptIsArmed' /\ NoFutureTicks'
    BY <1>15 DEF TerminalCloses, TypeOK, PromptIsArmed, NoFutureTicks, Chain, Off
  <2>3. PromptOnlyWhenActive' /\ HookFollowsConfig' /\ AnswerDecides'
    BY <1>15 DEF TerminalCloses, TypeOK, PromptOnlyWhenActive, HookFollowsConfig, AnswerDecides
  <2>4. OpenHasTime'
    BY <1>15 DEF TerminalCloses, TypeOK, OpenHasTime
  <2>5. PaidCountdown'
    BY <1>15 DEF TerminalCloses, TypeOK, PromptIsArmed, OpenHasTime, NoFutureTicks,
       NoStaleTicks, PaidCountdown, Chain, Off
  <2> QED
    BY <2>1, <2>2, <2>3, <2>4, <2>5
<1>16. CASE LoopReturns
  <2>1. TypeOK'
    BY <1>16 DEF TypeOK, LoopReturns
  <2>2. PromptIsArmed' /\ NoFutureTicks'
    BY <1>16 DEF LoopReturns, TypeOK, PromptIsArmed, NoFutureTicks, Chain, Off
  <2>3. PromptOnlyWhenActive' /\ HookFollowsConfig' /\ AnswerDecides'
    BY <1>16 DEF LoopReturns, TypeOK, PromptOnlyWhenActive, HookFollowsConfig, AnswerDecides
  <2>4. OpenHasTime'
    BY <1>16 DEF LoopReturns, TypeOK, OpenHasTime
  <2>5. PaidCountdown'
    BY <1>16 DEF LoopReturns, TypeOK, PromptIsArmed, OpenHasTime, NoFutureTicks, NoStaleTicks,
       PaidCountdown, Chain, Off
  <2> QED
    BY <2>1, <2>2, <2>3, <2>4, <2>5
<1>17. CASE UNCHANGED vars
  <2>1. TypeOK'
    BY <1>17 DEF TypeOK, vars
  <2>2. PromptIsArmed' /\ NoFutureTicks'
    BY <1>17 DEF vars, TypeOK, PromptIsArmed, NoFutureTicks, Chain, Off
  <2>3. PromptOnlyWhenActive' /\ HookFollowsConfig' /\ AnswerDecides'
    BY <1>17 DEF vars, TypeOK, PromptOnlyWhenActive, HookFollowsConfig, AnswerDecides
  <2>4. OpenHasTime'
    BY <1>17 DEF vars, TypeOK, OpenHasTime
  <2>5. PaidCountdown'
    BY <1>17 DEF vars, TypeOK, PromptIsArmed, OpenHasTime, NoFutureTicks, NoStaleTicks,
       PaidCountdown, Chain, Off
  <2> QED
    BY <2>1, <2>2, <2>3, <2>4, <2>5
<1> QED
  BY <1>1, <1>2, <1>3, <1>4, <1>5, <1>6, <1>7, <1>8, <1>9, <1>10, <1>11, <1>12, <1>13, <1>14,
     <1>15, <1>16, <1>17 DEF Next, Keys, Ticks

(* The type invariant holds for every countdown and every number of        *)
(* openings.                                                               *)
THEOREM TypeCorrect == Spec => []TypeOK
<1>1. PromptInv => TypeOK
  BY DEF PromptInv
<1> QED
  BY <1>1, PromptInvInit, PromptInvStep, PTL DEF Spec

(* No prompt without a timer, none without something to stop, the hook     *)
(* follows the configuration, and the last answer decides.                 *)
THEOREM PromptCorrect ==
    Spec => []PromptIsArmed /\ []PromptOnlyWhenActive /\ []HookFollowsConfig /\ []AnswerDecides
<1>1. PromptInv => PromptIsArmed /\ PromptOnlyWhenActive /\ HookFollowsConfig /\ AnswerDecides
  BY DEF PromptInv
<1> QED
  BY <1>1, PromptInvInit, PromptInvStep, PTL DEF Spec

(* A countdown that no stale tick disturbs never runs ahead of the clock.  *)
THEOREM CountdownHonest == Spec => []HonestCountdown
<1>1. PromptInv => HonestCountdown
  <2> SUFFICES ASSUME PromptInv, confirming, \A k \in 1 .. opened - 1 : tick[k] = Off
               PROVE  shown >= Period * (Timeout - rem)
    BY DEF HonestCountdown
  <2>1. shown >= Period * (Timeout - rem) + tick[opened]
    BY DEF PromptInv, PaidCountdown, NoStaleTicks
  <2>2. shown \in Int /\ tick[opened] \in Nat
    BY PromptAssumption DEF PromptInv, TypeOK, PromptIsArmed, Chain, Off, Full
  <2>3. Period * (Timeout - rem) \in Nat
    BY PromptAssumption, OneSecond DEF PromptInv, OpenHasTime
  <2> QED
    BY <2>1, <2>2, <2>3
<1> QED
  BY <1>1, PromptInvInit, PromptInvStep, PTL DEF Spec

-----------------------------------------------------------------------------
(* A step of the UI is a step of the exit decision or leaves it alone:     *)
(* countdowns, selections and the flag of the configuration are details.   *)
LEMMA DecisionStep == PromptInv /\ [Next]_vars => [Decision!ExitNext]_(Decision!exitVars)
<1> SUFFICES ASSUME PromptInv, [Next]_vars
             PROVE  Decision!ExitNext \/ UNCHANGED Decision!exitVars
  OBVIOUS
<1>1. /\ confirming \in BOOLEAN /\ hookActive \in BOOLEAN /\ cancelled \in BOOLEAN
      /\ done \in BOOLEAN /\ quitMsg \in BOOLEAN /\ exited \in BOOLEAN
      /\ flag \in BOOLEAN
  BY DEF PromptInv, TypeOK
<1>2. CASE OpenPrompt
  BY <1>1, <1>2 DEF OpenPrompt, Decision!ExitNext, Decision!UserStep, Decision!Ask
<1>3. CASE InterruptQuits
  <2>1. hookActive => HookEnabled
    BY DEF PromptInv, HookFollowsConfig
  <2> QED
    BY <1>1, <1>3, <2>1 DEF InterruptQuits, QuitProgram, Decision!ExitNext, Decision!UserStep,
       Decision!Quit
<1>4. CASE Escape
  BY <1>1, <1>4 DEF Escape, loopVars, Decision!ExitNext, Decision!UserStep, Decision!Withdraw
<1>5. ASSUME NEW button \in {0, 1}, Select(button) PROVE UNCHANGED Decision!exitVars
  BY <1>5 DEF Select, loopVars, Decision!exitVars
<1>6. ASSUME ~exited, confirming, AnswerStop, UNCHANGED <<done, exited>>
      PROVE  Decision!Answer(TRUE)
  BY <1>1, <1>6 DEF AnswerStop, QuitProgram, Decision!Answer
<1>7. ASSUME ~exited, confirming, AnswerKeep, UNCHANGED <<done, exited>>
      PROVE  Decision!Answer(FALSE)
  BY <1>1, <1>7 DEF AnswerKeep, QuitProgram, Decision!Answer
<1>8. Decision!Answer(TRUE) \/ Decision!Answer(FALSE) => Decision!ExitNext
  BY DEF Decision!ExitNext, Decision!UserStep
<1>9. CASE Enter \/ YesKey \/ NoKey
  BY <1>6, <1>7, <1>8, <1>9 DEF Enter, YesKey, NoKey
<1>10. CASE AnyKeyWhenDone
  BY <1>1, <1>10 DEF AnyKeyWhenDone, modelVars, Decision!ExitNext, Decision!UserStep,
     Decision!Dismiss
<1>11. CASE ToggleHook
  <2>1. Decision!Toggle(flag')
    BY <1>1, <1>11 DEF ToggleHook, loopVars, Decision!Toggle
  <2>2. flag' \in BOOLEAN
    BY <1>1, <1>11 DEF ToggleHook
  <2> QED
    BY <2>1, <2>2 DEF Decision!ExitNext, Decision!UserStep
<1>12. ASSUME NEW failed \in BOOLEAN, OperationEnds(failed) PROVE Decision!ExitNext
  BY <1>1, <1>12 DEF OperationEnds, Decision!ExitNext, Decision!Finish
<1>13. ASSUME NEW k \in Chain, TickAfterClose(k) \/ TickCountsDown(k)
       PROVE  UNCHANGED Decision!exitVars
  BY <1>13 DEF TickAfterClose, TickCountsDown, modelVars, Decision!exitVars
<1>14. ASSUME NEW k \in Chain, TickConfirms(k) PROVE Decision!ExitNext
  BY <1>6, <1>8, <1>14 DEF TickConfirms, Due
<1>15. CASE Elapse
  BY <1>15 DEF Elapse, modelVars, Decision!exitVars
<1>16. CASE TerminalCloses
  BY <1>1, <1>16 DEF TerminalCloses, modelVars, Decision!ExitNext, Decision!Hangup
<1>17. CASE LoopReturns
  BY <1>1, <1>17 DEF LoopReturns, modelVars, Decision!ExitNext, Decision!Leave
<1>18. CASE UNCHANGED vars
  BY <1>18 DEF vars, modelVars, loopVars, Decision!exitVars
<1> QED
  BY <1>2, <1>3, <1>4, <1>5, <1>9, <1>10, <1>11, <1>12, <1>13, <1>14, <1>15, <1>16, <1>17, <1>18
  DEF Next, Keys, Ticks

(* The terminal UI implements the exit decision.                           *)
THEOREM PromptImplementsDecision == Spec => ImplementsExitDecision
<1>1. Init => Decision!ExitInit
  BY PromptAssumption DEF Init, Decision!ExitInit
<1> QED
  BY <1>1, PromptInvInit, PromptInvStep, DecisionStep, PTL
  DEF Spec, ImplementsExitDecision, Decision!ExitSpec
=============================================================================
