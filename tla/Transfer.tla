------------------------------- MODULE Transfer -------------------------------
(***************************************************************************)
(* `gws up' and `gws down': an ssh client with its methods of              *)
(* authentication (internal/ssh/client.go), then the directories and files *)
(* of the context one after the other (cmd/up.go, cmd/down.go).            *)
(*                                                                         *)
(* A command can be repeated: what is on the workstation and on the local  *)
(* disk stays.                                                             *)
(***************************************************************************)
EXTENDS Naturals, Sequences

CONSTANTS Dirs,      \* the context's directories: [name, perm]
          Files,     \* and its files: [name, dir, perm, up]
          Ssh        \* the directory /home/user/.ssh

(* Permissions that are not configured, and those that let the owner write.*)
NoPerm == ""
Writable == {"0600", "0700"}

(* scp refuses an upload without permissions: left out.                    *)
ASSUME TransferAssumption ==
    /\ Len(Dirs) \in Nat /\ Len(Files) \in Nat
    /\ \A i, j \in 1 .. Len(Files) : i # j => Files[i].name # Files[j].name
    /\ \A i \in 1 .. Len(Files) : Files[i].up \in BOOLEAN
    /\ \A i \in 1 .. Len(Files) : Files[i].up => Files[i].perm # NoPerm

Upped == {i \in 1 .. Len(Files) : Files[i].up}
Downed == (1 .. Len(Files)) \ Upped

VARIABLES stage,    \* where the command is, or how it ended
          verb,     \* "up" or "down"
          agent,    \* what the ssh agent has
          key,      \* how the private key file is
          known,    \* whose keys the workstation accepts
          tried,    \* which methods it was offered
          links,    \* connections it has made: one for commands, one for files
          next,     \* the directory or file whose turn it is
          made,     \* the directories on the workstation
          sshPerm,  \* the permissions of Ssh
          remote,   \* the files on the workstation
          local,    \* the files on the local disk
          begun     \* history: the sizes of the local files when the command began

files == <<made, sshPerm, remote, local>>
transfer == <<stage, verb, agent, key, known, tried, links, next, begun, files>>

Perm == {Dirs[i].perm : i \in 1 .. Len(Dirs)} \cup {Files[i].perm : i \in 1 .. Len(Files)}
Dir == {Dirs[i].name : i \in 1 .. Len(Dirs)} \cup {Ssh}

Ends == {"done", "unreachable", "refused", "unauthorized", "lost", "no directory", "read-only"}

TransferOK ==
    /\ stage \in {"idle", "auth", "connect", "dirs", "files", "copied"} \cup Ends
    /\ verb \in {"up", "down"}
    /\ agent \in {"none", "dead", "empty", "keys"}
    /\ key \in {"missing", "broken", "plain", "locked"}
    /\ known \subseteq {"agent", "key"} /\ tried \subseteq {"agent", "key", "prompt"}
    /\ links \in 0 .. 2 /\ next \in 1 .. Len(Dirs) + Len(Files) + 1
    /\ made \subseteq Dir
    /\ sshPerm \in Perm \cup {"0700"}
    /\ remote \in [1 .. Len(Files) -> [is : {"none", "old", "part", "new"}, perm : Perm \cup {"0600"}]]
    /\ local \in [1 .. Len(Files) ->
                    [is : {"none", "short", "long", "part", "copy", "mixed"}, perm : Perm \cup {"0600"}]]
    /\ begun \in [1 .. Len(Files) -> {"none", "short", "long", "part", "copy", "mixed"}]

(* The workstation has old files or none, the local disk none, or older    *)
(* ones that are shorter or longer than the file to download.              *)
TransferInit ==
    /\ stage = "idle" /\ verb = "up" /\ agent = "none" /\ key = "plain" /\ known = {"key"}
    /\ tried = {} /\ links = 0 /\ next = 1
    /\ made \in SUBSET {Ssh} /\ sshPerm = "0700"
    /\ \E is \in {"none", "old"} :
        remote = [i \in 1 .. Len(Files) |->
                    [is |-> IF Files[i].up THEN is ELSE "old", perm |-> "0600"]]
    /\ \E is \in {"none", "short", "long"} :
        local = [i \in 1 .. Len(Files) |->
                    [is |-> IF Files[i].up THEN "copy" ELSE is, perm |-> "0600"]]
    /\ begun = [i \in 1 .. Len(Files) |-> local[i].is]

Run(v, a, k, who) ==
    /\ stage \in {"idle"} \cup Ends
    /\ stage' = "auth" /\ verb' = v /\ agent' = a /\ key' = k /\ known' = who
    /\ tried' = {} /\ links' = 0 /\ next' = 1
    /\ begun' = [i \in 1 .. Len(Files) |-> local[i].is]
    /\ UNCHANGED files

-----------------------------------------------------------------------------
(* NewClient: the key file must be readable and a key, and an agent that   *)
(* is configured must answer.                                              *)
NoMethods ==
    /\ stage = "auth"
    /\ key \in {"missing", "broken"} \/ agent = "dead"
    /\ stage' = "refused"
    /\ UNCHANGED <<verb, agent, key, known, tried, links, next, begun, files>>

(* evaluateAuthMethodWithPassphrase: the agent if it has keys, then the    *)
(* file, or a prompt for its passphrase.                                   *)
Methods == (IF agent = "keys" THEN <<"agent">> ELSE <<>>)
           \o <<IF key = "plain" THEN "key" ELSE "prompt">>

MethodsReady ==
    /\ stage = "auth" /\ key \in {"plain", "locked"} /\ agent # "dead"
    /\ stage' = "connect"
    /\ UNCHANGED <<verb, agent, key, known, tried, links, next, begun, files>>

Unreachable ==
    /\ stage = "connect"
    /\ stage' = "unreachable"
    /\ UNCHANGED <<verb, agent, key, known, tried, links, next, begun, files>>

(* All of them are the method "publickey" of the protocol, of which the    *)
(* ssh library uses the first it is given.                                 *)
Offered == {Methods[1]}

(* The workstation accepts a key that was offered.  A passphrase may be    *)
(* refused, or wrong, for either connection.                               *)
Connect ==
    /\ stage = "connect"
    /\ tried' = tried \cup Offered
    /\ \E m \in Offered : IF m = "agent" THEN "agent" \in known ELSE "key" \in known
    /\ links' = links + 1
    /\ stage' = IF links' < 2 THEN "connect" ELSE IF verb = "up" THEN "dirs" ELSE "files"
    /\ UNCHANGED <<verb, agent, key, known, next, begun, files>>

NotAuthorized ==
    /\ stage = "connect"
    /\ tried' = tried \cup Offered
    /\ \A m \in Offered : m = "prompt" \/ (IF m = "agent" THEN "agent" \notin known ELSE "key" \notin known)
    /\ stage' = "unauthorized"
    /\ UNCHANGED <<verb, agent, key, known, links, next, begun, files>>

(* The connection breaks before the next command or file, or a local file  *)
(* can't be opened.                                                        *)
Lose ==
    /\ \/ stage = "dirs" /\ next <= Len(Dirs)
       \/ stage = "files" /\ next \in IF verb = "up" THEN Upped ELSE Downed
       \/ stage = "copied"
    /\ stage' = "lost"
    /\ UNCHANGED <<verb, agent, key, known, tried, links, next, begun, files>>

-----------------------------------------------------------------------------
Linked == UNCHANGED <<verb, agent, key, known, tried, links, begun>>

(* `mkdir -p' works or not.  With permissions, `chmod' follows whatever    *)
(* mkdir did, for Ssh whatever the directory is, and its result counts.    *)
MakeDir ==
    /\ stage = "dirs" /\ next <= Len(Dirs)
    /\ made' \in {made, made \cup {Dirs[next].name}}
    /\ LET perm == Dirs[next].perm
           fine == IF perm = NoPerm THEN Dirs[next].name \in made' ELSE Ssh \in made'
       IN  /\ IF fine THEN next' = next + 1 /\ UNCHANGED stage
              ELSE stage' = "no directory" /\ UNCHANGED next
           /\ sshPerm' = IF fine /\ perm # NoPerm THEN perm ELSE sshPerm
    /\ UNCHANGED <<remote, local>> /\ Linked

DirsMade ==
    /\ stage = "dirs" /\ next > Len(Dirs)
    /\ stage' = "files" /\ next' = 1
    /\ UNCHANGED files /\ Linked

SkipFile ==
    /\ stage = "files" /\ next <= Len(Files) /\ Files[next].up # (verb = "up")
    /\ next' = next + 1
    /\ UNCHANGED <<stage, files>> /\ Linked

UpTurn(f) == stage = "files" /\ verb = "up" /\ next \in Upped /\ f = Files[next]

(* A file of permissions 0400 gets the owner's write permission first; the *)
(* upload fails without the directory or the permission.                   *)
CanUpload(f) ==
    /\ f.dir \in made
    /\ remote[next].is # "none" => remote[next].perm \in Writable \/ f.perm = "0400"

UploadFails(f) ==
    /\ UpTurn(f) /\ ~CanUpload(f)
    /\ stage' = IF f.dir \in made THEN "read-only" ELSE "no directory"
    /\ UNCHANGED <<next, files>> /\ Linked

Arrives(is, perm) == remote' = [remote EXCEPT ![next] = [is |-> is, perm |-> perm]]

(* The copy gives permissions only to a file it creates.                   *)
CopyPerm(f) == IF remote[next].is = "none" THEN f.perm ELSE "0600"

UploadBreaks(f) ==
    /\ UpTurn(f) /\ CanUpload(f)
    /\ Arrives("part", CopyPerm(f))
    /\ stage' = "lost"
    /\ UNCHANGED <<next, made, sshPerm, local>> /\ Linked

Upload(f) ==
    /\ UpTurn(f) /\ CanUpload(f)
    /\ Arrives("new", CopyPerm(f))
    /\ stage' = "copied"
    /\ UNCHANGED <<next, made, sshPerm, local>> /\ Linked

(* Mutation of Chmod: the copy has given the permissions.                  *)
ChmodSkipped ==
    /\ stage = "copied"
    /\ stage' = "files" /\ next' = next + 1
    /\ UNCHANGED files /\ Linked

Chmod ==
    /\ stage = "copied"
    /\ Arrives("new", Files[next].perm)
    /\ stage' = "files" /\ next' = next + 1
    /\ UNCHANGED <<made, sshPerm, local>> /\ Linked

-----------------------------------------------------------------------------
DownTurn(f) == stage = "files" /\ verb = "down" /\ next \in Downed /\ f = Files[next]

(* OpenFile: an existing file must be writable; a new one gets the         *)
(* permissions.                                                            *)
CanDownload == local[next].is # "none" => local[next].perm \in Writable

DownloadFails(f) ==
    /\ DownTurn(f) /\ ~CanDownload
    /\ stage' = "read-only"
    /\ UNCHANGED <<next, files>> /\ Linked

Saved(f, is) ==
    local' = [local EXCEPT ![next] =
                [is |-> is, perm |-> IF local[next].is = "none" THEN f.perm ELSE local[next].perm]]

DownloadBreaks(f) ==
    /\ DownTurn(f) /\ CanDownload
    /\ Saved(f, IF local[next].is \in {"long", "mixed"} THEN "mixed" ELSE "part")
    /\ stage' = "lost"
    /\ UNCHANGED <<next, made, sshPerm, remote>> /\ Linked

(* The file is not truncated: the end of a longer one stays.               *)
Download(f) ==
    /\ DownTurn(f) /\ CanDownload
    /\ Saved(f, IF local[next].is \in {"long", "mixed"} THEN "mixed" ELSE "copy")
    /\ next' = next + 1
    /\ UNCHANGED <<stage, made, sshPerm, remote>> /\ Linked

Finish ==
    /\ stage = "files" /\ next > Len(Files)
    /\ stage' = "done"
    /\ UNCHANGED <<next, files>> /\ Linked

TransferNext ==
    \/ \E v \in {"up", "down"}, a \in {"none", "dead", "empty", "keys"},
          k \in {"missing", "broken", "plain", "locked"}, who \in SUBSET {"agent", "key"} : Run(v, a, k, who)
    \/ NoMethods \/ MethodsReady \/ Unreachable \/ Connect \/ NotAuthorized \/ Lose
    \/ MakeDir \/ DirsMade \/ SkipFile \/ Chmod \/ Finish
    \/ \E i \in 1 .. Len(Files) :
        \/ UploadFails(Files[i]) \/ UploadBreaks(Files[i]) \/ Upload(Files[i])
        \/ DownloadFails(Files[i]) \/ DownloadBreaks(Files[i]) \/ Download(Files[i])

TransferSpec == TransferInit /\ [][TransferNext]_transfer

-----------------------------------------------------------------------------
(* An `up' that reports success has made the directories it was to make    *)
(* without permissions, and uploaded every file with its permissions; it   *)
(* never fails over a file of permissions 0400 that an earlier one left.   *)
(* A successful `down' has fetched every file for which there was no       *)
(* longer one on the local disk (see DownloadIsWhole).                     *)
TransferIsFaithful ==
    /\ stage = "done" /\ verb = "up" =>
        /\ \A i \in 1 .. Len(Dirs) : Dirs[i].perm = NoPerm => Dirs[i].name \in made
        /\ \A i \in Upped : remote[i] = [is |-> "new", perm |-> Files[i].perm]
    /\ stage = "done" /\ verb = "down" =>
        \A i \in Downed : begun[i] \notin {"long", "mixed"} => local[i].is = "copy"
    /\ stage = "read-only" /\ verb = "up" => Files[next].perm # "0400"

(* A successful `down' has copied every file, whatever was on the local    *)
(* disk.  Not so: DownloadFile opens an existing file without truncating.  *)
DownloadIsWhole == stage = "done" /\ verb = "down" => \A i \in Downed : local[i].is = "copy"

(* Whoever has a usable private key is not turned away before the          *)
(* workstation was offered it.                                             *)
KeyIsOffered == stage = "unauthorized" => tried \cap {"key", "prompt"} # {}
=============================================================================
