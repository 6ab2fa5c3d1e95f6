\* The terminal is closed: the operation is not cancelled.
SPECIFICATION Spec
CONSTANT Faults <- TerminalCloses
INVARIANTS
    StopOnExit
\* the process really ends
CHECK_DEADLOCK FALSE
