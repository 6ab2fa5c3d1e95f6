\* Everything that can happen to a session, with a fair program and service.
SPECIFICATION FairSpec
CONSTANT Faults <- AllFaults
INVARIANTS
    TypeOK
    CalmStopOnExit
    RestartCycles
PROPERTIES
    ConsentedStops
    QuitEnds
    TunnelSettles
\* the process really ends
CHECK_DEADLOCK FALSE
