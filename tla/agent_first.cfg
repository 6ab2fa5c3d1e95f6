\* The ssh agent has keys; so has the file.
SPECIFICATION TransferSpec
CONSTANTS
    Dirs <- MCDirs
    Files <- MCFiles
    Ssh = "ssh"
INVARIANT KeyIsOffered
\* a command that has ended can stop
CHECK_DEADLOCK FALSE
