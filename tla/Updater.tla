------------------------------- MODULE Updater -------------------------------
(***************************************************************************)
(* `gws update` on the file system: Apply and replaceExecutable of         *)
(* internal/update/update.go.  Every system call that changes a file is a  *)
(* step, so that a crash, or another update of the same executable, may    *)
(* come between any two.                                                   *)
(*                                                                         *)
(* The executable and the two names beside it refer to inodes: a rename    *)
(* moves an inode that another process may still be writing to, and        *)
(* opening an existing .new truncates the inode that is there.             *)
(***************************************************************************)
CONSTANTS
    UpdateRun,  \* runs of the update command
    Original,   \* the inode of the executable that is installed
    Absent,     \* no inode
    Faults      \* what may happen: "io", "rollback", "crash", "concurrent"

ASSUME UpdaterAssumption ==
    /\ Original \notin UpdateRun
    /\ Absent \notin UpdateRun \cup {Original}
    /\ Faults \subseteq {"io", "rollback", "crash", "concurrent"}

VARIABLES
    pc,       \* where each run is
    file,     \* the inode each of the three names refers to
    whole,    \* the inodes that hold a complete binary
    writer,   \* the run that truncated an inode last
    fd,       \* the inode each run has opened for writing
    exeFound  \* history: the executable each run found

fileVars == <<file, whole, writer, fd>>
updater == <<pc, fileVars, exeFound>>

Inode == UpdateRun \cup {Original}
Path == {"exe", "new", "old"}  \* gws, .gws.new and .gws.old
UpdateEnded == {"succeeded", "failed", "crashed"}

UpdaterOK ==
    /\ pc \in [UpdateRun -> {"idle", "fetch", "open", "copy", "chmod", "clear", "aside", "install",
                       "rollback", "discard", "cleanup"} \cup UpdateEnded]
    /\ file \in [Path -> Inode \cup {Absent}]
    /\ whole \subseteq Inode
    /\ writer \in [Inode -> UpdateRun \cup {Absent}]
    /\ fd \in [UpdateRun -> Inode \cup {Absent}]
    /\ exeFound \in [UpdateRun -> Inode \cup {Absent}]

UpdaterInit ==
    /\ pc = [r \in UpdateRun |-> "idle"]
    /\ file = [p \in Path |-> IF p = "exe" THEN Original ELSE Absent]
    /\ whole = {Original}
    /\ writer = [i \in Inode |-> Absent]
    /\ fd = [r \in UpdateRun |-> Absent]
    /\ exeFound = [r \in UpdateRun |-> Absent]

-----------------------------------------------------------------------------
Exists(p) == file[p] # Absent

Goto(r, l) == pc' = [pc EXCEPT ![r] = l]

Active(r) == pc[r] \notin UpdateEnded \cup {"idle"}

(* Apply begins with os.Stat(exe).                                         *)
Start(r) ==
    /\ pc[r] = "idle"
    /\ "concurrent" \in Faults \/ \A q \in UpdateRun : ~Active(q)
    /\ exeFound' = [exeFound EXCEPT ![r] = file["exe"]]
    /\ Goto(r, IF Exists("exe") THEN "fetch" ELSE "failed")
    /\ UNCHANGED fileVars

(* Checksums and archive are downloaded and compared; nothing is installed *)
(* of what doesn't match.                                                  *)
FetchUpdate(r) ==
    /\ pc[r] = "fetch"
    /\ \/ Goto(r, "open")
       \/ Goto(r, "failed")
    /\ UNCHANGED <<fileVars, exeFound>>

(* extractBinary opens .new with O_CREATE and O_TRUNC.                     *)
OpenNew(r) ==
    /\ pc[r] = "open"
    /\ LET i == IF Exists("new") THEN file["new"] ELSE r
       IN  /\ fd' = [fd EXCEPT ![r] = i]
           /\ file' = [file EXCEPT !["new"] = i]
           /\ whole' = whole \ {i}
           /\ writer' = [writer EXCEPT ![i] = r]
    /\ Goto(r, "copy")
    /\ UNCHANGED exeFound

(* The binary is complete unless another run truncated it in between.      *)
Copy(r) ==
    /\ pc[r] = "copy"
    /\ whole' = IF writer[fd[r]] = r THEN whole \cup {fd[r]} ELSE whole
    /\ Goto(r, "chmod")
    /\ UNCHANGED <<file, writer, fd, exeFound>>

(* Mutation of ExtractFails: a short copy is installed.                    *)
ExtractFailsUnnoticed(r) ==
    /\ pc[r] = "copy" /\ "io" \in Faults
    /\ Goto(r, "chmod")
    /\ UNCHANGED <<fileVars, exeFound>>

(* extractBinary finds nothing in the archive, or cannot open, write or    *)
(* chmod .new.                                                             *)
ExtractFails(r) ==
    /\ pc[r] \in {"open", "copy", "chmod"} /\ "io" \in Faults
    /\ Goto(r, "cleanup")
    /\ UNCHANGED <<fileVars, exeFound>>

(* os.Chmod goes by name.                                                  *)
MakeExecutable(r) ==
    /\ pc[r] = "chmod"
    /\ Goto(r, IF Exists("new") THEN "clear" ELSE "cleanup")
    /\ UNCHANGED <<fileVars, exeFound>>

-----------------------------------------------------------------------------
(* replaceExecutable: a leftover of an earlier update goes first; if it    *)
(* cannot be removed the rename replaces it.                               *)
ClearOld(r) ==
    /\ pc[r] = "clear"
    /\ \/ file' = [file EXCEPT !["old"] = Absent]
       \/ "io" \in Faults /\ UNCHANGED file
    /\ Goto(r, "aside")
    /\ UNCHANGED <<whole, writer, fd, exeFound>>

Rename(from, to) == file' = [file EXCEPT ![to] = file[from], ![from] = Absent]

(* Mutation of MoveAside: the executable is deleted, not moved.            *)
DeleteCurrent(r) ==
    /\ pc[r] = "aside"
    /\ IF Exists("exe")
       THEN file' = [file EXCEPT !["exe"] = Absent] /\ Goto(r, "install")
       ELSE file' = file /\ Goto(r, "cleanup")
    /\ UNCHANGED <<whole, writer, fd, exeFound>>

MoveAside(r) ==
    /\ pc[r] = "aside"
    /\ \/ Exists("exe") /\ Rename("exe", "old") /\ Goto(r, "install")
       \/ /\ ~Exists("exe") \/ "io" \in Faults
          /\ Goto(r, "cleanup") /\ UNCHANGED file
    /\ UNCHANGED <<whole, writer, fd, exeFound>>

InstallNew(r) ==
    /\ pc[r] = "install"
    /\ \/ Exists("new") /\ Rename("new", "exe") /\ Goto(r, "discard")
       \/ /\ ~Exists("new") \/ "io" \in Faults
          /\ Goto(r, "rollback") /\ UNCHANGED file
    /\ UNCHANGED <<whole, writer, fd, exeFound>>

Rollback(r) ==
    /\ pc[r] = "rollback"
    /\ \/ Exists("old") /\ Rename("old", "exe")
       \/ (~Exists("old") \/ "rollback" \in Faults) /\ UNCHANGED file
    /\ Goto(r, "cleanup")
    /\ UNCHANGED <<whole, writer, fd, exeFound>>

(* On Windows the image of the running process cannot be removed.          *)
DiscardOld(r) ==
    /\ pc[r] = "discard"
    /\ \/ file' = [file EXCEPT !["old"] = Absent]
       \/ UNCHANGED file
    /\ Goto(r, "succeeded")
    /\ UNCHANGED <<whole, writer, fd, exeFound>>

(* Mutation of Cleanup: the old binary is cleaned up as well.              *)
CleanupAll(r) ==
    /\ pc[r] = "cleanup"
    /\ file' = [file EXCEPT !["new"] = Absent, !["old"] = Absent]
    /\ Goto(r, "failed")
    /\ UNCHANGED <<whole, writer, fd, exeFound>>

(* The deferred removal of .new when nothing was installed.                *)
Cleanup(r) ==
    /\ pc[r] = "cleanup"
    /\ \/ file' = [file EXCEPT !["new"] = Absent]
       \/ "io" \in Faults /\ UNCHANGED file
    /\ Goto(r, "failed")
    /\ UNCHANGED <<whole, writer, fd, exeFound>>

Crash(r) ==
    /\ Active(r) /\ "crash" \in Faults
    /\ Goto(r, "crashed")
    /\ UNCHANGED <<fileVars, exeFound>>

UpdaterNext == \E r \in UpdateRun :
    \/ Start(r) \/ FetchUpdate(r) \/ OpenNew(r) \/ Copy(r) \/ ExtractFails(r) \/ MakeExecutable(r)
    \/ ClearOld(r) \/ MoveAside(r) \/ InstallNew(r) \/ Rollback(r) \/ DiscardOld(r)
    \/ Cleanup(r) \/ Crash(r)

UpdaterSpec == UpdaterInit /\ [][UpdaterNext]_updater

-----------------------------------------------------------------------------
(* Whatever fails or crashes, a complete binary survives under the name of *)
(* the executable or as .old, from where the user can bring it back, and   *)
(* never a part of one is the executable (update.go 401, 429-433).         *)
BinarySurvives ==
    /\ \E p \in {"exe", "old"} : file[p] \in whole
    /\ Exists("exe") => file["exe"] \in whole

(* update.go 191, "On failure the previous binary is restored": a run that *)
(* fails leaves the executable it found, unless the rollback fails as      *)
(* well; then it is kept as .old, as the error message says.               *)
FailureRestores(r) ==
    pc[r] # "failed" /\ pc'[r] = "failed" =>
        \/ file'["exe"] = exeFound'[r]
        \/ "rollback" \in Faults /\ file'["old"] = exeFound'[r]

(* A run that says it succeeded has replaced the executable it found by    *)
(* the complete binary it wrote, and leaves no .new behind.                *)
SuccessInstalls(r) ==
    pc[r] # "succeeded" /\ pc'[r] = "succeeded" =>
        /\ file'["exe"] = fd[r] /\ file'["exe"] # exeFound[r] /\ fd[r] \in whole'
        /\ file'["new"] = Absent

(* Both, of every run: what it reports is what it did.                     *)
EndsHonestly == [][\A r \in UpdateRun : FailureRestores(r) /\ SuccessInstalls(r)]_updater

(* update.go 189-191, "atomically swaps it in for the running executable.  *)
(* On failure the previous binary is restored": then an update that is     *)
(* over, also one that was interrupted, leaves an executable.  The code    *)
(* breaks this: a crash between its two renames leaves only .old.          *)
ExecutableStays == (\A r \in UpdateRun : ~Active(r)) => Exists("exe")
=============================================================================
