\* A listing in which an inner iterator fails.
SPECIFICATION ListFairSpec
CONSTANTS
    Cluster = {"east", "west"}
    Config <- MCConfig
    Machine <- MCMachine
    Usable <- MCUsable
    Text <- MCText
    Never = never
    PerDay = 10
PROPERTIES
    ListingEnds
CHECK_DEADLOCK FALSE
