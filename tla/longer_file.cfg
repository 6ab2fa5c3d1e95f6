\* A local file is longer than the one to download.
SPECIFICATION TransferSpec
CONSTANTS
    Dirs <- MCDirs
    Files <- MCFiles
    Ssh = "ssh"
INVARIANT DownloadIsWhole
\* a command that has ended can stop
CHECK_DEADLOCK FALSE
