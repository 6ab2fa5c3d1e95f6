\* One command runs, whichever it is, on an instance of its own.
SPECIFICATION FairSpec
CONSTANTS
    Cluster = {"east", "west"}
    Config <- MCConfig
    Machine <- MCMachine
    Usable <- MCUsable
    Text <- MCText
    Never = never
    PerDay = 10
    Context = {1, 2, 3}
    WithGCloud = {1, 3}
    Dirs <- MCDirs
    Files <- MCFiles
    Ssh = "ssh"
    Tunnel = {1, 2}
    Address = {"num1", "name1", "num2", "name2", "else"}
    AddressOf <- MCAddressOf
    Key = {"k1", "k2"}
    OldFile <- MCOldFile
    Release <- MCRelease
    Version = {1, 2, 3}
    Dev = dev
    UpdateRun = {r1, r2, r3}
    Original = original
    Absent = absent
    Faults <- OneAtATime
    Project = {1, 2}
    Workstation = {3, 4}
    Filter = {{2, 4}, {}}
    Port = {999, 22022, 22023}
    TakenPort = {22023}
INVARIANTS
    CommandsOK
    ListingIsExact
    StatusIsOwn
    TransferIsFaithful
    KnownHostsCurrent
    BinarySurvives
    FormNamesWorkstation
    SavedIsValid
PROPERTIES
    UpdatesForward
    EndsHonestly
    ChoiceIsSeen
    EscapeEnds
\* a listing or a status command stops when it has printed
CHECK_DEADLOCK FALSE
