\* Two connections, every interleaving of fair goroutines.
SPECIFICATION FairSpec
CONSTANT Conn = {c1, c2}
INVARIANTS
    TypeOK
    EndsForAReason
PROPERTIES
    TunnelStaysOpen
    DropEndsConnection
    TunnelEnds
\* a returned tunnel whose connections have ended stops
CHECK_DEADLOCK FALSE
