---------------------------- MODULE UpdaterProofs ----------------------------
(***************************************************************************)
(* Proofs about Updater for any number of runs, one after the other: calls *)
(* may fail, rollbacks may fail and every run may crash anywhere, and the  *)
(* user keeps a complete binary.  The invariant follows the three names:   *)
(* they never share an inode, so that truncating .new harms nothing, and   *)
(* an update deletes .old only while the executable is in its place.       *)
(***************************************************************************)
EXTENDS Updater, TLAPS

Exclusive == \A q, r \in UpdateRun : Active(q) /\ Active(r) => q = r

(* No two names share an inode, and a run's own inode is not used before   *)
(* it opens .new.                                                          *)
Separate == \A p, q \in Path : p # q /\ Exists(p) => file[p] # file[q]

Fresh == \A r \in UpdateRun : pc[r] \in {"idle", "fetch", "open"} => \A p \in Path : file[p] # r

WholeInv == \A p \in {"exe", "old"} : Exists(p) => file[p] \in whole

(* What a run installs is what it wrote.                                   *)
NewInv == \A r \in UpdateRun :
    /\ pc[r] = "copy" => file["new"] = fd[r] /\ fd[r] \in Inode /\ writer[fd[r]] = r
    /\ pc[r] \in {"chmod", "clear", "aside", "install"} => file["new"] = fd[r] /\ fd[r] \in whole

(* Where the binary is at each point of an update, and between updates.    *)
PlaceInv ==
    /\ Exists("exe") \/ Exists("old")
    /\ \A r \in UpdateRun :
         /\ pc[r] \in {"fetch", "open", "copy", "chmod", "clear", "aside", "discard"}
            => Exists("exe")
         /\ pc[r] \in {"install", "rollback"} => Exists("old")

UpdateInv == UpdaterOK /\ Exclusive /\ Separate /\ Fresh /\ WholeInv /\ NewInv /\ PlaceInv

-----------------------------------------------------------------------------
(* The invariant holds initially.                                          *)
LEMMA UpdateInvInit == UpdaterInit => UpdateInv
  BY UpdaterAssumption DEF UpdaterInit, UpdateInv, UpdaterOK, Exclusive, Active, UpdateEnded,
     Separate, Fresh,
     WholeInv, NewInv, PlaceInv, Exists, Path, Inode

(* Every step preserves it as long as no two runs are active.              *)
LEMMA UpdateInvStep ==
    ASSUME "concurrent" \notin Faults
    PROVE  UpdateInv /\ [UpdaterNext]_updater => UpdateInv'
<1> SUFFICES ASSUME UpdateInv, [UpdaterNext]_updater PROVE UpdateInv'
  OBVIOUS
<1> USE UpdaterAssumption DEF UpdateInv
<1>1. ASSUME NEW r \in UpdateRun, Start(r) PROVE UpdateInv'
  <2>1. UpdaterOK'
    BY <1>1 DEF Start, Goto, fileVars, UpdaterOK, Path, Inode, UpdateEnded, Rename, Exists
  <2>2. Exclusive'
    BY <1>1 DEF Start, Goto, Exclusive, Active, UpdateEnded, UpdaterOK
  <2>3. Separate' /\ Fresh'
    BY <1>1 DEF Start, Goto, fileVars, Separate, Fresh, Exists, Rename, UpdaterOK, Path, Inode
  <2>4. WholeInv'
    BY <1>1 DEF Start, Goto, fileVars, WholeInv, Separate, Fresh, NewInv, Exists, Rename,
       UpdaterOK, Path, Inode
  <2>5. NewInv'
    BY <1>1 DEF Start, Goto, fileVars, NewInv, Exclusive, Active, UpdateEnded, Exists, Rename,
       UpdaterOK, Path, Inode
  <2>6. PlaceInv'
    BY <1>1 DEF Start, Goto, fileVars, PlaceInv, Exclusive, Active, UpdateEnded, Exists, Rename,
       NewInv, UpdaterOK, Path, Inode
  <2> QED
    BY <2>1, <2>2, <2>3, <2>4, <2>5, <2>6
<1>2. ASSUME NEW r \in UpdateRun, FetchUpdate(r) PROVE UpdateInv'
  <2>1. UpdaterOK'
    BY <1>2 DEF FetchUpdate, Goto, fileVars, UpdaterOK, Path, Inode, UpdateEnded
  <2>2. Exclusive'
    BY <1>2 DEF FetchUpdate, Goto, Exclusive, Active, UpdateEnded, UpdaterOK
  <2>3. Separate' /\ Fresh'
    BY <1>2 DEF FetchUpdate, Goto, fileVars, Separate, Fresh, Exists, Rename, UpdaterOK, Path, Inode
  <2>4. WholeInv'
    BY <1>2 DEF FetchUpdate, Goto, fileVars, WholeInv, Separate, Fresh, NewInv, Exists, Rename,
       UpdaterOK, Path, Inode
  <2>5. NewInv'
    BY <1>2 DEF FetchUpdate, Goto, fileVars, NewInv, Exclusive, Active, UpdateEnded, Exists, Rename,
       UpdaterOK, Path, Inode
  <2>6. PlaceInv'
    BY <1>2 DEF FetchUpdate, Goto, fileVars, PlaceInv, Exclusive, Active, UpdateEnded, Exists,
       Rename,
       NewInv, UpdaterOK, Path, Inode
  <2> QED
    BY <2>1, <2>2, <2>3, <2>4, <2>5, <2>6
<1>3. ASSUME NEW r \in UpdateRun, OpenNew(r) PROVE UpdateInv'
  <2>1. UpdaterOK'
    BY <1>3 DEF OpenNew, Goto, fileVars, UpdaterOK, Path, Inode, UpdateEnded, Rename, Exists
  <2>2. Exclusive'
    BY <1>3 DEF OpenNew, Goto, Exclusive, Active, UpdateEnded, UpdaterOK
  <2>3. Separate' /\ Fresh'
    BY <1>3 DEF OpenNew, Goto, fileVars, Separate, Fresh, Exists, Rename, UpdaterOK, Path, Inode
  <2>4. WholeInv'
    BY <1>3 DEF OpenNew, Goto, fileVars, WholeInv, Separate, Fresh, NewInv, Exists, Rename,
       UpdaterOK, Path, Inode
  <2>5. NewInv'
    BY <1>3 DEF OpenNew, Goto, fileVars, NewInv, Exclusive, Active, UpdateEnded, Exists, Rename,
       UpdaterOK, Path, Inode
  <2>6. PlaceInv'
    BY <1>3 DEF OpenNew, Goto, fileVars, PlaceInv, Exclusive, Active, UpdateEnded, Exists, Rename,
       NewInv, UpdaterOK, Path, Inode
  <2> QED
    BY <2>1, <2>2, <2>3, <2>4, <2>5, <2>6
<1>4. ASSUME NEW r \in UpdateRun, Copy(r) PROVE UpdateInv'
  <2>1. UpdaterOK'
    BY <1>4 DEF Copy, Goto, fileVars, UpdaterOK, Path, Inode, UpdateEnded, NewInv
  <2>2. Exclusive'
    BY <1>4 DEF Copy, Goto, Exclusive, Active, UpdateEnded, UpdaterOK
  <2>3. Separate' /\ Fresh'
    BY <1>4 DEF Copy, Goto, fileVars, Separate, Fresh, Exists, Rename, UpdaterOK, Path, Inode
  <2>4. WholeInv'
    BY <1>4 DEF Copy, Goto, fileVars, WholeInv, Separate, Fresh, NewInv, Exists, Rename,
       UpdaterOK, Path, Inode
  <2>5. NewInv'
    BY <1>4 DEF Copy, Goto, fileVars, NewInv, Exclusive, Active, UpdateEnded, Exists, Rename,
       UpdaterOK, Path, Inode
  <2>6. PlaceInv'
    BY <1>4 DEF Copy, Goto, fileVars, PlaceInv, Exclusive, Active, UpdateEnded, Exists, Rename,
       NewInv, UpdaterOK, Path, Inode
  <2> QED
    BY <2>1, <2>2, <2>3, <2>4, <2>5, <2>6
<1>5. ASSUME NEW r \in UpdateRun, ExtractFails(r) PROVE UpdateInv'
  <2>1. UpdaterOK'
    BY <1>5 DEF ExtractFails, Goto, fileVars, UpdaterOK, Path, Inode, UpdateEnded
  <2>2. Exclusive'
    BY <1>5 DEF ExtractFails, Goto, Exclusive, Active, UpdateEnded, UpdaterOK
  <2>3. Separate' /\ Fresh'
    BY <1>5 DEF ExtractFails, Goto, fileVars, Separate, Fresh, Exists, Rename, UpdaterOK, Path,
       Inode
  <2>4. WholeInv'
    BY <1>5 DEF ExtractFails, Goto, fileVars, WholeInv, Separate, Fresh, NewInv, Exists, Rename,
       UpdaterOK, Path, Inode
  <2>5. NewInv'
    BY <1>5 DEF ExtractFails, Goto, fileVars, NewInv, Exclusive, Active, UpdateEnded, Exists,
       Rename,
       UpdaterOK, Path, Inode
  <2>6. PlaceInv'
    BY <1>5 DEF ExtractFails, Goto, fileVars, PlaceInv, Exclusive, Active, UpdateEnded, Exists,
       Rename,
       NewInv, UpdaterOK, Path, Inode
  <2> QED
    BY <2>1, <2>2, <2>3, <2>4, <2>5, <2>6
<1>6. ASSUME NEW r \in UpdateRun, MakeExecutable(r) PROVE UpdateInv'
  <2>1. UpdaterOK'
    BY <1>6 DEF MakeExecutable, Goto, fileVars, UpdaterOK, Path, Inode, UpdateEnded, Rename, Exists
  <2>2. Exclusive'
    BY <1>6 DEF MakeExecutable, Goto, Exclusive, Active, UpdateEnded, UpdaterOK
  <2>3. Separate' /\ Fresh'
    BY <1>6 DEF MakeExecutable, Goto, fileVars, Separate, Fresh, Exists, Rename, UpdaterOK, Path,
       Inode
  <2>4. WholeInv'
    BY <1>6 DEF MakeExecutable, Goto, fileVars, WholeInv, Separate, Fresh, NewInv, Exists, Rename,
       UpdaterOK, Path, Inode
  <2>5. NewInv'
    BY <1>6 DEF MakeExecutable, Goto, fileVars, NewInv, Exclusive, Active, UpdateEnded, Exists,
       Rename,
       UpdaterOK, Path, Inode
  <2>6. PlaceInv'
    BY <1>6 DEF MakeExecutable, Goto, fileVars, PlaceInv, Exclusive, Active, UpdateEnded, Exists,
       Rename,
       NewInv, UpdaterOK, Path, Inode
  <2> QED
    BY <2>1, <2>2, <2>3, <2>4, <2>5, <2>6
<1>7. ASSUME NEW r \in UpdateRun, ClearOld(r) PROVE UpdateInv'
  <2>1. UpdaterOK'
    BY <1>7 DEF ClearOld, Goto, fileVars, UpdaterOK, Path, Inode, UpdateEnded
  <2>2. Exclusive'
    BY <1>7 DEF ClearOld, Goto, Exclusive, Active, UpdateEnded, UpdaterOK
  <2>3. Separate' /\ Fresh'
    BY <1>7 DEF ClearOld, Goto, fileVars, Separate, Fresh, Exists, Rename, UpdaterOK, Path, Inode
  <2>4. WholeInv'
    BY <1>7 DEF ClearOld, Goto, fileVars, WholeInv, Separate, Fresh, NewInv, Exists, Rename,
       UpdaterOK, Path, Inode
  <2>5. NewInv'
    BY <1>7 DEF ClearOld, Goto, fileVars, NewInv, Exclusive, Active, UpdateEnded, Exists, Rename,
       UpdaterOK, Path, Inode
  <2>6. PlaceInv'
    BY <1>7 DEF ClearOld, Goto, fileVars, PlaceInv, Exclusive, Active, UpdateEnded, Exists, Rename,
       NewInv, UpdaterOK, Path, Inode
  <2> QED
    BY <2>1, <2>2, <2>3, <2>4, <2>5, <2>6
<1>8. ASSUME NEW r \in UpdateRun, MoveAside(r) PROVE UpdateInv'
  <2>1. UpdaterOK'
    BY <1>8 DEF MoveAside, Goto, fileVars, UpdaterOK, Path, Inode, UpdateEnded, Rename, Exists
  <2>2. Exclusive'
    BY <1>8 DEF MoveAside, Goto, Exclusive, Active, UpdateEnded, UpdaterOK
  <2>3. Separate' /\ Fresh'
    BY <1>8 DEF MoveAside, Goto, fileVars, Separate, Fresh, Exists, Rename, UpdaterOK, Path, Inode
  <2>4. WholeInv'
    BY <1>8 DEF MoveAside, Goto, fileVars, WholeInv, Separate, Fresh, NewInv, Exists, Rename,
       UpdaterOK, Path, Inode
  <2>5. NewInv'
    BY <1>8 DEF MoveAside, Goto, fileVars, NewInv, Exclusive, Active, UpdateEnded, Exists, Rename,
       UpdaterOK, Path, Inode
  <2>6. PlaceInv'
    BY <1>8 DEF MoveAside, Goto, fileVars, PlaceInv, Exclusive, Active, UpdateEnded, Exists, Rename,
       NewInv, UpdaterOK, Path, Inode
  <2> QED
    BY <2>1, <2>2, <2>3, <2>4, <2>5, <2>6
<1>9. ASSUME NEW r \in UpdateRun, InstallNew(r) PROVE UpdateInv'
  <2>1. UpdaterOK'
    BY <1>9 DEF InstallNew, Goto, fileVars, UpdaterOK, Path, Inode, UpdateEnded, Rename, Exists
  <2>2. Exclusive'
    BY <1>9 DEF InstallNew, Goto, Exclusive, Active, UpdateEnded, UpdaterOK
  <2>3. Separate' /\ Fresh'
    BY <1>9 DEF InstallNew, Goto, fileVars, Separate, Fresh, Exists, Rename, UpdaterOK, Path, Inode
  <2>4. WholeInv'
    BY <1>9 DEF InstallNew, Goto, fileVars, WholeInv, Separate, Fresh, NewInv, Exists, Rename,
       UpdaterOK, Path, Inode
  <2>5. NewInv'
    BY <1>9 DEF InstallNew, Goto, fileVars, NewInv, Exclusive, Active, UpdateEnded, Exists, Rename,
       UpdaterOK, Path, Inode
  <2>6. PlaceInv'
    BY <1>9 DEF InstallNew, Goto, fileVars, PlaceInv, Exclusive, Active, UpdateEnded, Exists,
       Rename,
       NewInv, UpdaterOK, Path, Inode
  <2> QED
    BY <2>1, <2>2, <2>3, <2>4, <2>5, <2>6
<1>10. ASSUME NEW r \in UpdateRun, Rollback(r) PROVE UpdateInv'
  <2>1. UpdaterOK'
    BY <1>10 DEF Rollback, Goto, fileVars, UpdaterOK, Path, Inode, UpdateEnded, Rename, Exists
  <2>2. Exclusive'
    BY <1>10 DEF Rollback, Goto, Exclusive, Active, UpdateEnded, UpdaterOK
  <2>3. Separate' /\ Fresh'
    BY <1>10 DEF Rollback, Goto, fileVars, Separate, Fresh, Exists, Rename, UpdaterOK, Path, Inode
  <2>4. WholeInv'
    BY <1>10 DEF Rollback, Goto, fileVars, WholeInv, Separate, Fresh, NewInv, Exists, Rename,
       UpdaterOK, Path, Inode
  <2>5. NewInv'
    BY <1>10 DEF Rollback, Goto, fileVars, NewInv, Exclusive, Active, UpdateEnded, Exists, Rename,
       UpdaterOK, Path, Inode
  <2>6. PlaceInv'
    BY <1>10 DEF Rollback, Goto, fileVars, PlaceInv, Exclusive, Active, UpdateEnded, Exists, Rename,
       NewInv, UpdaterOK, Path, Inode
  <2> QED
    BY <2>1, <2>2, <2>3, <2>4, <2>5, <2>6
<1>11. ASSUME NEW r \in UpdateRun, DiscardOld(r) PROVE UpdateInv'
  <2>1. UpdaterOK'
    BY <1>11 DEF DiscardOld, Goto, fileVars, UpdaterOK, Path, Inode, UpdateEnded
  <2>2. Exclusive'
    BY <1>11 DEF DiscardOld, Goto, Exclusive, Active, UpdateEnded, UpdaterOK
  <2>3. Separate' /\ Fresh'
    BY <1>11 DEF DiscardOld, Goto, fileVars, Separate, Fresh, Exists, Rename, UpdaterOK, Path, Inode
  <2>4. WholeInv'
    BY <1>11 DEF DiscardOld, Goto, fileVars, WholeInv, Separate, Fresh, NewInv, Exists,
       Rename, UpdaterOK, Path, Inode
  <2>5. NewInv'
    BY <1>11 DEF DiscardOld, Goto, fileVars, NewInv, Exclusive, Active, UpdateEnded, Exists, Rename,
       UpdaterOK, Path, Inode
  <2>6. PlaceInv'
    BY <1>11 DEF DiscardOld, Goto, fileVars, PlaceInv, Exclusive, Active, UpdateEnded, Exists,
       Rename, NewInv, UpdaterOK, Path, Inode
  <2> QED
    BY <2>1, <2>2, <2>3, <2>4, <2>5, <2>6
<1>12. ASSUME NEW r \in UpdateRun, Cleanup(r) PROVE UpdateInv'
  <2>1. UpdaterOK'
    BY <1>12 DEF Cleanup, Goto, fileVars, UpdaterOK, Path, Inode, UpdateEnded
  <2>2. Exclusive'
    BY <1>12 DEF Cleanup, Goto, Exclusive, Active, UpdateEnded, UpdaterOK
  <2>3. Separate' /\ Fresh'
    BY <1>12 DEF Cleanup, Goto, fileVars, Separate, Fresh, Exists, Rename, UpdaterOK, Path, Inode
  <2>4. WholeInv'
    BY <1>12 DEF Cleanup, Goto, fileVars, WholeInv, Separate, Fresh, NewInv, Exists, Rename,
       UpdaterOK, Path, Inode
  <2>5. NewInv'
    BY <1>12 DEF Cleanup, Goto, fileVars, NewInv, Exclusive, Active, UpdateEnded, Exists, Rename,
       UpdaterOK, Path, Inode
  <2>6. PlaceInv'
    BY <1>12 DEF Cleanup, Goto, fileVars, PlaceInv, Exclusive, Active, UpdateEnded, Exists, Rename,
       NewInv, UpdaterOK, Path, Inode
  <2> QED
    BY <2>1, <2>2, <2>3, <2>4, <2>5, <2>6
<1>13. ASSUME NEW r \in UpdateRun, Crash(r) PROVE UpdateInv'
  <2>1. UpdaterOK'
    BY <1>13 DEF Crash, Goto, fileVars, UpdaterOK, Path, Inode, UpdateEnded
  <2>2. Exclusive'
    BY <1>13 DEF Crash, Goto, Exclusive, Active, UpdateEnded, UpdaterOK
  <2>3. Separate' /\ Fresh'
    BY <1>13 DEF Crash, Goto, fileVars, Separate, Fresh, Exists, Rename, UpdaterOK, Path, Inode
  <2>4. WholeInv'
    BY <1>13 DEF Crash, Goto, fileVars, WholeInv, Separate, Fresh, NewInv, Exists, Rename,
       UpdaterOK, Path, Inode
  <2>5. NewInv'
    BY <1>13 DEF Crash, Goto, fileVars, NewInv, Exclusive, Active, UpdateEnded, Exists, Rename,
       UpdaterOK, Path, Inode
  <2>6. PlaceInv'
    BY <1>13 DEF Crash, Goto, fileVars, PlaceInv, Exclusive, Active, UpdateEnded, Exists, Rename,
       NewInv, UpdaterOK, Path, Inode
  <2> QED
    BY <2>1, <2>2, <2>3, <2>4, <2>5, <2>6
<1>14. CASE UNCHANGED updater
  BY <1>14 DEF updater, fileVars, UpdaterOK, Exclusive, Active, Separate, Fresh, WholeInv, NewInv,
     PlaceInv, Exists
<1> QED
  BY <1>1, <1>2, <1>3, <1>4, <1>5, <1>6, <1>7, <1>8, <1>9, <1>10, <1>11, <1>12, <1>13, <1>14 DEF
     UpdaterNext

-----------------------------------------------------------------------------
(* The variables have their types, however many updates overlap: what a    *)
(* run writes to is an inode.                                              *)
THEOREM UpdaterTypes == UpdaterSpec => []UpdaterOK
<1> DEFINE Opened == \A r \in UpdateRun : pc[r] = "copy" => fd[r] \in Inode
<1>1. UpdaterInit => UpdaterOK /\ Opened
  BY UpdaterAssumption DEF UpdaterInit, UpdaterOK, Path, Inode, UpdateEnded
<1>2. UpdaterOK /\ Opened /\ [UpdaterNext]_updater => UpdaterOK' /\ Opened'
  <2> SUFFICES ASSUME UpdaterOK, Opened, [UpdaterNext]_updater PROVE UpdaterOK' /\ Opened'
    OBVIOUS
  <2> USE UpdaterAssumption DEF UpdaterOK, Path, Inode, UpdateEnded, Goto, fileVars, Exists, Rename
  <2>1. ASSUME NEW r \in UpdateRun, Start(r) \/ FetchUpdate(r) \/ Copy(r) \/ ExtractFails(r)
                                         \/ MakeExecutable(r)
        PROVE  UpdaterOK' /\ Opened'
    BY <2>1 DEF Start, FetchUpdate, Copy, ExtractFails, MakeExecutable
  <2>2. ASSUME NEW r \in UpdateRun, OpenNew(r) PROVE UpdaterOK' /\ Opened'
    BY <2>2 DEF OpenNew
  <2>3. ASSUME NEW r \in UpdateRun, ClearOld(r) \/ MoveAside(r) \/ InstallNew(r)
        PROVE  UpdaterOK' /\ Opened'
    BY <2>3 DEF ClearOld, MoveAside, InstallNew
  <2>4. ASSUME NEW r \in UpdateRun, Rollback(r) \/ DiscardOld(r) \/ Cleanup(r)
        PROVE  UpdaterOK' /\ Opened'
    BY <2>4 DEF Rollback, DiscardOld, Cleanup
  <2>5. ASSUME NEW r \in UpdateRun, Crash(r) PROVE UpdaterOK' /\ Opened'
    BY <2>5 DEF Crash
  <2>6. CASE UNCHANGED updater
    BY <2>6 DEF updater
  <2> QED
    BY <2>1, <2>2, <2>3, <2>4, <2>5, <2>6 DEF UpdaterNext
<1> HIDE DEF Opened
<1> QED
  BY <1>1, <1>2, PTL DEF UpdaterSpec

(* A complete binary survives every failure and every crash of updates     *)
(* that do not overlap, and the executable is never a part of one.         *)
THEOREM BinaryAlwaysSurvives ==
    ASSUME "concurrent" \notin Faults
    PROVE  UpdaterSpec => []BinarySurvives
<1>1. UpdateInv => BinarySurvives
  BY DEF UpdateInv, PlaceInv, WholeInv, BinarySurvives, Exists, Path
<1>2. UpdateInv /\ [UpdaterNext]_updater => UpdateInv'
  BY UpdateInvStep
<1> QED
  BY <1>1, <1>2, UpdateInvInit, PTL DEF UpdaterSpec

(* The executable is missing only between the two renames of a run         *)
(* (update.go 429-432), or for good after a run was interrupted there: a   *)
(* failed update leaves it in its place unless the rollback fails as well. *)
THEOREM ExeMissingInWindow ==
    ASSUME Faults \cap {"concurrent", "rollback"} = {}
    PROVE  UpdaterSpec => [](\/ Exists("exe")
                             \/ \E r \in UpdateRun : pc[r] \in {"install", "rollback", "crashed"})
<1> DEFINE Window == \/ Exists("exe")
                     \/ \E r \in UpdateRun : pc[r] \in {"install", "rollback", "crashed"}
<1>1. UpdaterInit => Window
  BY UpdaterAssumption DEF UpdaterInit, Exists, Path
<1>2. UpdateInv /\ [UpdaterNext]_updater => UpdateInv'
  BY UpdateInvStep
<1>3. UpdateInv /\ Window /\ [UpdaterNext]_updater => Window'
  <2> SUFFICES ASSUME UpdateInv, Window, [UpdaterNext]_updater PROVE Window'
    OBVIOUS
  <2> USE DEF UpdateInv, UpdaterOK, Path, Goto, fileVars, Exists, Rename
  <2>1. ASSUME NEW r \in UpdateRun, Start(r) \/ FetchUpdate(r) \/ Copy(r) \/ ExtractFails(r)
                                         \/ MakeExecutable(r)
        PROVE  Window'
    BY <2>1 DEF Start, FetchUpdate, Copy, ExtractFails, MakeExecutable
  <2>2. ASSUME NEW r \in UpdateRun, OpenNew(r) PROVE Window'
    BY <2>2 DEF OpenNew
  <2>3. ASSUME NEW r \in UpdateRun, ClearOld(r) PROVE Window'
    BY <2>3 DEF ClearOld
  <2>4. ASSUME NEW r \in UpdateRun, MoveAside(r) PROVE Window'
    BY <2>4 DEF MoveAside
  <2>5. ASSUME NEW r \in UpdateRun, InstallNew(r) PROVE Window'
    BY <2>5, UpdaterAssumption DEF InstallNew
  <2>6. ASSUME NEW r \in UpdateRun, Rollback(r) PROVE Window'
    BY <2>6, UpdaterAssumption DEF Rollback, PlaceInv
  <2>7. ASSUME NEW r \in UpdateRun, DiscardOld(r) PROVE Window'
    BY <2>7 DEF DiscardOld
  <2>8. ASSUME NEW r \in UpdateRun, Cleanup(r) PROVE Window'
    BY <2>8 DEF Cleanup
  <2>9. ASSUME NEW r \in UpdateRun, Crash(r) PROVE Window'
    BY <2>9 DEF Crash
  <2>10. CASE UNCHANGED updater
    BY <2>10 DEF updater
  <2> QED
    BY <2>1, <2>2, <2>3, <2>4, <2>5, <2>6, <2>7, <2>8, <2>9, <2>10 DEF UpdaterNext
<1> HIDE DEF Window
<1>4. UpdaterSpec => []Window
  BY <1>1, <1>2, <1>3, UpdateInvInit, PTL DEF UpdaterSpec
<1> QED
  BY <1>4 DEF Window

-----------------------------------------------------------------------------
(* Where the executable a run found is, and what a run that has installed  *)
(* its own leaves.                                                         *)
FoundInv == \A r \in UpdateRun :
    /\ pc[r] \in {"fetch", "open", "copy", "chmod", "clear", "aside"} => file["exe"] = exeFound[r]
    /\ pc[r] \in {"install", "rollback"} => file["old"] = exeFound[r]
    /\ pc[r] = "cleanup" =>
        file["exe"] = exeFound[r] \/ ("rollback" \in Faults /\ file["old"] = exeFound[r])
    /\ pc[r] = "discard" =>
        file["exe"] = fd[r] /\ fd[r] # exeFound[r] /\ fd[r] \in whole /\ file["new"] = Absent

LEMMA HonestStep ==
    ASSUME "concurrent" \notin Faults, UpdateInv, FoundInv, UpdaterNext
    PROVE  FoundInv' /\ \A r \in UpdateRun : FailureRestores(r) /\ SuccessInstalls(r)
<1> USE UpdaterAssumption DEF UpdateInv
<1> DEFINE Honest == \A r \in UpdateRun : FailureRestores(r) /\ SuccessInstalls(r)
<1> USE DEF FailureRestores, SuccessInstalls
<1>1. ASSUME NEW r \in UpdateRun, Start(r) PROVE FoundInv' /\ Honest
  BY <1>1 DEF Start, Goto, fileVars, FoundInv, Exclusive, Active, UpdateEnded, Separate, NewInv,
     PlaceInv,
     Exists, UpdaterOK, Path, Inode
<1>2. ASSUME NEW r \in UpdateRun, FetchUpdate(r) PROVE FoundInv' /\ Honest
  BY <1>2 DEF FetchUpdate, Goto, fileVars, FoundInv, Exclusive, Active, UpdateEnded, Separate,
     NewInv, PlaceInv,
     Exists, UpdaterOK, Path, Inode
<1>3. ASSUME NEW r \in UpdateRun, OpenNew(r) PROVE FoundInv' /\ Honest
  BY <1>3 DEF OpenNew, Goto, fileVars, FoundInv, Exclusive, Active, UpdateEnded, Separate,
     NewInv, PlaceInv,
     Exists, UpdaterOK, Path, Inode
<1>4. ASSUME NEW r \in UpdateRun, Copy(r) PROVE FoundInv' /\ Honest
  BY <1>4 DEF Copy, Goto, fileVars, FoundInv, Exclusive, Active, UpdateEnded, Separate, NewInv,
     PlaceInv,
     Exists, UpdaterOK, Path, Inode
<1>5. ASSUME NEW r \in UpdateRun, ExtractFails(r) PROVE FoundInv' /\ Honest
  BY <1>5 DEF ExtractFails, Goto, fileVars, FoundInv, Exclusive, Active, UpdateEnded, Separate,
     NewInv, PlaceInv,
     Exists, UpdaterOK, Path, Inode
<1>6. ASSUME NEW r \in UpdateRun, MakeExecutable(r) PROVE FoundInv' /\ Honest
  BY <1>6 DEF MakeExecutable, Goto, fileVars, FoundInv, Exclusive, Active, UpdateEnded, Separate,
     NewInv, PlaceInv,
     Exists, UpdaterOK, Path, Inode
<1>7. ASSUME NEW r \in UpdateRun, ClearOld(r) PROVE FoundInv' /\ Honest
  BY <1>7 DEF ClearOld, Goto, fileVars, FoundInv, Exclusive, Active, UpdateEnded, Separate,
     NewInv, PlaceInv,
     Exists, UpdaterOK, Path, Inode
<1>8. ASSUME NEW r \in UpdateRun, MoveAside(r) PROVE FoundInv' /\ Honest
  BY <1>8 DEF MoveAside, Rename, Goto, fileVars, FoundInv, Exclusive, Active, UpdateEnded,
     Separate, NewInv, PlaceInv,
     Exists, UpdaterOK, Path, Inode
<1>9. ASSUME NEW r \in UpdateRun, InstallNew(r) PROVE FoundInv' /\ Honest
  BY <1>9 DEF InstallNew, Rename, Goto, fileVars, FoundInv, Exclusive, Active, UpdateEnded,
     Separate, NewInv, PlaceInv,
     Exists, UpdaterOK, Path, Inode
<1>10. ASSUME NEW r \in UpdateRun, Rollback(r) PROVE FoundInv' /\ Honest
  BY <1>10 DEF Rollback, Rename, Goto, fileVars, FoundInv, Exclusive, Active, UpdateEnded,
     Separate, NewInv, PlaceInv,
     Exists, UpdaterOK, Path, Inode
<1>11. ASSUME NEW r \in UpdateRun, DiscardOld(r) PROVE FoundInv' /\ Honest
  BY <1>11 DEF DiscardOld, Goto, fileVars, FoundInv, Exclusive, Active, UpdateEnded, Separate,
     NewInv, PlaceInv,
     Exists, UpdaterOK, Path, Inode
<1>12. ASSUME NEW r \in UpdateRun, Cleanup(r) PROVE FoundInv' /\ Honest
  BY <1>12 DEF Cleanup, Goto, fileVars, FoundInv, Exclusive, Active, UpdateEnded, Separate,
     NewInv, PlaceInv,
     Exists, UpdaterOK, Path, Inode
<1>13. ASSUME NEW r \in UpdateRun, Crash(r) PROVE FoundInv' /\ Honest
  BY <1>13 DEF Crash, Goto, fileVars, FoundInv, Exclusive, Active, UpdateEnded, Separate, NewInv,
     PlaceInv,
     Exists, UpdaterOK, Path, Inode
<1> QED
  BY <1>1, <1>2, <1>3, <1>4, <1>5, <1>6, <1>7, <1>8, <1>9, <1>10, <1>11, <1>12,
     <1>13 DEF UpdaterNext

(* What a run reports is what it did, for any number of runs one after the *)
(* other.                                                                  *)
THEOREM RunsEndHonestly ==
    ASSUME "concurrent" \notin Faults
    PROVE  UpdaterSpec => EndsHonestly
<1> DEFINE Honest == \A r \in UpdateRun : FailureRestores(r) /\ SuccessInstalls(r)
<1>1. UpdaterInit => FoundInv
  BY UpdaterAssumption DEF UpdaterInit, FoundInv
<1>2. UpdateInv /\ [UpdaterNext]_updater => UpdateInv'
  BY UpdateInvStep
<1>3. UpdateInv /\ FoundInv /\ [UpdaterNext]_updater => FoundInv'
  <2>1. CASE UNCHANGED updater
    BY <2>1 DEF updater, fileVars, FoundInv
  <2> QED
    BY <2>1, HonestStep
<1>4. UpdateInv /\ FoundInv /\ [UpdaterNext]_updater => [Honest]_updater
  BY HonestStep
<1> QED
  BY <1>1, <1>2, <1>3, <1>4, UpdateInvInit, PTL DEF UpdaterSpec, EndsHonestly
=============================================================================
