\* Every key, tick and message order of the tunnel command's UI.
SPECIFICATION FairSpec
CONSTANTS
    HookEnabled = TRUE
    AutoQuit = FALSE
    Timeout = 3
    Period = 2
    MaxOpens = 3
INVARIANTS
    TypeOK
    AnswerDecides
    HonestCountdown
PROPERTIES
    ImplementsExitDecision
    UiProgress
\* the event loop really ends
CHECK_DEADLOCK FALSE
