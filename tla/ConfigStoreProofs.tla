------------------------- MODULE ConfigStoreProofs -------------------------
(***************************************************************************)
(* Proofs about ConfigStore for any number of commands, contexts and       *)
(* ports, whether commands overlap, fail or crash.  CopyInv is about the   *)
(* copy of a single command and needs nothing of the file; SurviveInv is   *)
(* about the file as long as commands neither overlap nor are cut short.   *)
(***************************************************************************)
EXTENDS ConfigStore, TLAPS

StepOf(p) ==
    \/ Start(p) \/ LoadNothing(p) \/ Load(p) \/ Select(p) \/ Finish(p) \/ Toggle(p)
    \/ StopAll(p) \/ SelectNext(p) \/ StopOne(p) \/ SelectBack(p)
    \/ OpenForm(p) \/ Submit(p) \/ TypeLate(p) \/ SaveForm(p) \/ Abort(p)
    \/ SaveTruncates(p) \/ SaveWrites(p) \/ SaveFails(p) \/ Crash(p)

Saving(p) == pc[p] \in {"truncate", "write"}

(* Before it has loaded, a command's copy is empty.                        *)
FreshInv == \A p \in Proc : pc[p] \in {"idle", "load"} => mem[p] = Nothing /\ using[p] = None

(* currentContext and CurrentContextName agree, also in a toggle's save.   *)
UsingInv == \A p \in Proc :
    pc[p] \in {"select", "run", "stopOne"} \/ (Saving(p) /\ then[p] = "resume")
        => using[p] = mem[p].current

(* A loaded copy names one of its contexts, unless it has none.            *)
CurrentInv == \A p \in Proc :
    /\ pc[p] \in {"select", "run"} =>
         mem[p].current \in Defined(mem[p]) \/ (mem[p].current = None /\ Defined(mem[p]) = {})
    /\ Saving(p) => mem[p].current \in Defined(mem[p])

(* What stop --all has still to visit, and to go back to, is defined.      *)
VisitInv == \A p \in Proc :
    pc[p] \in {"stopNext", "stopOne"} \/ (Saving(p) /\ then[p] = "stopOne") =>
        left[p] \subseteq Defined(mem[p]) /\ (Defined(mem[p]) = {} \/ back[p] \in Defined(mem[p]))

(* A stop --all without --ctx knows the context it has found, and is saving *)
(* it whenever it isn't on its way round.                                  *)
ReturnInv == \A p \in Proc : cmd[p] = "stopAll" /\ flag[p] = None =>
    /\ pc[p] \notin {"form", "quitting"}
    /\ pc[p] \in {"select", "run"} => mem[p].current = found[p]
    /\ pc[p] \in {"stopNext", "stopOne"} \/ (Saving(p) /\ then[p] = "stopOne") =>
         Defined(mem[p]) = {} \/ back[p] = found[p]
    /\ Saving(p) /\ then[p] # "stopOne" =>
         then[p] \in {"select", "back"} /\ mem[p].current = found[p]

CopyInv == TypeOK /\ FreshInv /\ UsingInv /\ CurrentInv /\ VisitInv /\ ReturnInv

Loaded(p) ==
    pc[p] \in {"select", "run", "form", "quitting", "stopNext", "stopOne"} \/ Saving(p)

(* While commands neither overlap nor are cut short, every context that    *)
(* ever was in the file is in the one loaded copy and, unless it is being  *)
(* written, in the file.                                                   *)
SurviveInv == clean =>
    /\ \A p, q \in Proc : Active(p) /\ Active(q) => p = q
    /\ file = Missing => known = {}
    /\ \A p \in Proc : Loaded(p) => known \subseteq Defined(mem[p])
    /\ file # Missing /\ (\A p \in Proc : pc[p] # "write") => known \subseteq Defined(file)

-----------------------------------------------------------------------------
(* An empty configuration is one, and defines nothing.                     *)
LEMMA NothingEmpty ==
    Nothing \in Config /\ Defined(Nothing) = {} /\ Nothing.current = None /\ PortsDiffer(Nothing)
  BY ConfigAssumption DEF Nothing, Config, Defined, PortsDiffer

(* What the parts of a configuration are.                                  *)
LEMMA Parts ==
    ASSUME NEW f \in Config
    PROVE  f.current \in Ctx \cup {None} /\ Defined(f) \subseteq Ctx
  BY DEF Config, Defined

(* What the three updates of a configuration change and what they keep.    *)
LEMMA CurrentChanged ==
    ASSUME NEW f \in Config, NEW c \in Ctx \cup {None}
    PROVE  /\ WithCurrent(f, c) \in Config
           /\ WithCurrent(f, c).current = c
           /\ Defined(WithCurrent(f, c)) = Defined(f)
           /\ PortsDiffer(f) => PortsDiffer(WithCurrent(f, c))
<1>1. WithCurrent(f, c) \in Config /\ WithCurrent(f, c).current = c
      /\ WithCurrent(f, c).port = f.port
  BY DEF WithCurrent, Config
<1> QED
  BY <1>1 DEF Defined, PortsDiffer

LEMMA FlagFlipped ==
    ASSUME NEW f \in Config, NEW c \in Ctx
    PROVE  /\ Flipped(f, c) \in Config
           /\ Flipped(f, c).current = f.current
           /\ Defined(Flipped(f, c)) = Defined(f)
           /\ PortsDiffer(f) => PortsDiffer(Flipped(f, c))
<1>1. Flipped(f, c) \in Config /\ Flipped(f, c).current = f.current /\ Flipped(f, c).port = f.port
  BY DEF Flipped, Config
<1> QED
  BY <1>1 DEF Defined, PortsDiffer

LEMMA ContextWritten ==
    ASSUME NEW f \in Config, NEW c \in Ctx, NEW n \in Port
    PROVE  /\ WithContext(f, c, n) \in Config
           /\ WithContext(f, c, n).current = c
           /\ Defined(WithContext(f, c, n)) = Defined(f) \cup {c}
           /\ PortsDiffer(f) /\ (\A d \in Ctx \ {c} : f.port[d] # n)
                => PortsDiffer(WithContext(f, c, n))
<1>1. WithContext(f, c, n) \in Config /\ WithContext(f, c, n).current = c
      /\ WithContext(f, c, n).port = [f.port EXCEPT ![c] = n]
  BY DEF WithContext, Config
<1>2. f.port \in [Ctx -> Port \cup {None}]
  BY DEF Config
<1> QED
  BY <1>1, <1>2, ConfigAssumption DEF Defined, PortsDiffer

LEMMA ConfigInit == Init => CopyInv /\ UniquePorts /\ SurviveInv
<1> SUFFICES ASSUME Init PROVE CopyInv /\ UniquePorts /\ SurviveInv
  OBVIOUS
<1>1. file \in Config \cup {Missing} /\ (file # Missing => PortsDiffer(file))
  BY DEF Init
<1>2. known \in SUBSET Ctx
  BY <1>1, Parts DEF Init
<1>3. TypeOK
  BY <1>1, <1>2, NothingEmpty DEF Init, TypeOK, Ended
<1>4. FreshInv /\ UsingInv /\ CurrentInv /\ VisitInv /\ ReturnInv
  BY NothingEmpty DEF Init, FreshInv, UsingInv, CurrentInv, VisitInv, ReturnInv, Saving
<1>5. SurviveInv
  BY DEF Init, SurviveInv, Active, Loaded, Saving, Ended
<1> QED
  BY <1>1, <1>3, <1>4, <1>5, NothingEmpty DEF Init, CopyInv, UniquePorts

(* Every step preserves type correctness.                                  *)
LEMMA TypeStep ==
    ASSUME TypeOK, NEW p \in Proc, StepOf(p)
    PROVE  TypeOK'
<1> USE NothingEmpty DEF localVars
<1>1. CASE Start(p)
  BY <1>1 DEF Start, Goto, TypeOK, Ended
<1>2. CASE LoadNothing(p)
  BY <1>2 DEF LoadNothing, Goto, TypeOK, Ended
<1>3. CASE Load(p)
  <2> PICK c \in Ctx \cup {None} :
         /\ mem' = [mem EXCEPT ![p] = WithCurrent(file, c)]
         /\ found' = [found EXCEPT ![p] = c]
         /\ IF c \in Defined(file) /\ c # file.current
            THEN SaveThen(p, "select") /\ UNCHANGED using
            ELSE /\ Goto(p, "select")
                 /\ using' = [using EXCEPT ![p] = c]
                 /\ UNCHANGED then
    BY <1>3, Parts, Zenon DEF Load, TypeOK
  <2>1. file \in Config /\ WithCurrent(file, c) \in Config
    BY <1>3, CurrentChanged DEF Load, TypeOK
  <2> QED
    BY <1>3, <2>1 DEF Load, Goto, SaveThen, TypeOK, Ended
<1>4. CASE Select(p)
  <2>1. CASE UNCHANGED <<mem, then>> /\ (Goto(p, "run") \/ Goto(p, "failed"))
    BY <1>4, <2>1 DEF Select, Goto, TypeOK, Ended
  <2>2. CASE flag[p] \in Defined(mem[p]) /\ SetCurrent(p, flag[p]) /\ SaveThen(p, "run")
    <3>1. WithCurrent(mem[p], flag[p]) \in Config
          /\ WithCurrent(mem[p], flag[p]).current = flag[p]
          /\ Defined(WithCurrent(mem[p], flag[p])) = Defined(mem[p])
          /\ (PortsDiffer(mem[p]) => PortsDiffer(WithCurrent(mem[p], flag[p])))
      BY <2>2, Parts, CurrentChanged DEF TypeOK, Ended
    <3> QED
      BY <1>4, <2>2, <3>1 DEF Select, Goto, SaveThen, SetCurrent, TypeOK, Ended
  <2> QED
    BY <1>4, <2>1, <2>2 DEF Select
<1>5. CASE Finish(p)
  BY <1>5 DEF Finish, Goto, TypeOK, Ended
<1>6. CASE Toggle(p)
  BY <1>6, Parts, FlagFlipped DEF Toggle, SaveThen, Goto, TypeOK, Ended
<1>7. CASE StopAll(p)
  BY <1>7, Parts DEF StopAll, Goto, TypeOK, Ended
<1>8. CASE SelectNext(p)
  BY <1>8, Parts, CurrentChanged DEF SelectNext, SaveThen, SetCurrent, Goto, TypeOK, Ended
<1>9. CASE StopOne(p)
  BY <1>9 DEF StopOne, Goto, TypeOK, Ended
<1>10. CASE SelectBack(p)
  <2>1. CASE UNCHANGED <<mem, then>> /\ Goto(p, "done")
    BY <1>10, <2>1 DEF SelectBack, Goto, TypeOK, Ended
  <2>2. CASE Defined(mem[p]) # {} /\ SetCurrent(p, back[p]) /\ SaveThen(p, "back")
    <3>1. WithCurrent(mem[p], back[p]) \in Config
          /\ WithCurrent(mem[p], back[p]).current = back[p]
          /\ Defined(WithCurrent(mem[p], back[p])) = Defined(mem[p])
          /\ (PortsDiffer(mem[p]) => PortsDiffer(WithCurrent(mem[p], back[p])))
      BY Parts, CurrentChanged DEF TypeOK, Ended
    <3> QED
      BY <1>10, <2>2, <3>1 DEF SelectBack, Goto, SaveThen, SetCurrent, TypeOK, Ended
  <2> QED
    BY <1>10, <2>1, <2>2 DEF SelectBack
<1>11. CASE OpenForm(p)
  BY <1>11, Parts, CurrentChanged DEF OpenForm, Goto, SetCurrent, TypeOK, Ended
<1>12. CASE SaveForm(p)
  BY <1>12, Parts, ContextWritten DEF SaveForm, SaveThen, Goto, TypeOK, Ended
<1>13. CASE Submit(p) \/ TypeLate(p) \/ Abort(p)
  BY <1>13 DEF Submit, TypeLate, Abort, Goto, TypeOK, Ended
<1>14. CASE SaveTruncates(p)
  BY <1>14 DEF SaveTruncates, Goto, TypeOK, Ended
<1>15. CASE SaveWrites(p)
  BY <1>15, Parts DEF SaveWrites, Goto, AfterSave, TypeOK, Ended
<1>16. CASE SaveFails(p)
  BY <1>16 DEF SaveFails, Goto, AfterFailure, TypeOK, Ended
<1>17. CASE Crash(p)
  BY <1>17 DEF Crash, Goto, TypeOK, Ended
<1> QED
  BY <1>1, <1>2, <1>3, <1>4, <1>5, <1>6, <1>7, <1>8, <1>9, <1>10, <1>11, <1>12, <1>13, <1>14,
     <1>15, <1>16, <1>17 DEF StepOf

(* And what is known of the copy of each command.                          *)
LEMMA FreshStep ==
    ASSUME TypeOK, FreshInv, NEW p \in Proc, StepOf(p)
    PROVE  FreshInv'
<1> USE DEF localVars
<1>1. CASE Start(p)
  BY <1>1 DEF Start, Goto, TypeOK, FreshInv, Ended
<1>2. CASE LoadNothing(p)
  BY <1>2 DEF LoadNothing, Goto, TypeOK, FreshInv, Ended
<1>3. CASE Load(p)
  BY <1>3, Parts, CurrentChanged DEF Load, Goto, SaveThen, TypeOK, FreshInv, Ended
<1>4. CASE Select(p)
  BY <1>4, Parts, CurrentChanged DEF Select, Goto, SaveThen, SetCurrent, TypeOK, FreshInv, Ended
<1>5. CASE Finish(p)
  BY <1>5 DEF Finish, Goto, TypeOK, FreshInv, Ended
<1>6. CASE Toggle(p)
  BY <1>6, Parts, FlagFlipped DEF Toggle, SaveThen, Goto, TypeOK, FreshInv, Ended
<1>7. CASE StopAll(p)
  BY <1>7, Parts DEF StopAll, Goto, TypeOK, FreshInv, Ended
<1>8. CASE SelectNext(p)
  BY <1>8, Parts, CurrentChanged DEF SelectNext, SaveThen, SetCurrent, Goto, TypeOK, FreshInv,
     Ended
<1>9. CASE StopOne(p)
  BY <1>9 DEF StopOne, Goto, TypeOK, FreshInv, Ended
<1>10. CASE SelectBack(p)
  BY <1>10, Parts, CurrentChanged DEF SelectBack, Goto, SaveThen, SetCurrent, TypeOK, FreshInv,
     Ended
<1>11. CASE OpenForm(p)
  BY <1>11, Parts, CurrentChanged DEF OpenForm, Goto, SetCurrent, TypeOK, FreshInv, Ended
<1>12. CASE SaveForm(p)
  BY <1>12, Parts, ContextWritten DEF SaveForm, SaveThen, Goto, TypeOK, FreshInv, Ended
<1>13. CASE Submit(p) \/ TypeLate(p) \/ Abort(p)
  BY <1>13 DEF Submit, TypeLate, Abort, Goto, TypeOK, FreshInv, Ended
<1>14. CASE SaveTruncates(p)
  BY <1>14 DEF SaveTruncates, Goto, TypeOK, FreshInv, Ended
<1>15. CASE SaveWrites(p)
  BY <1>15, Parts DEF SaveWrites, Goto, AfterSave, TypeOK, FreshInv, Ended
<1>16. CASE SaveFails(p)
  BY <1>16 DEF SaveFails, Goto, AfterFailure, TypeOK, FreshInv, Ended
<1>17. CASE Crash(p)
  BY <1>17 DEF Crash, Goto, TypeOK, FreshInv, Ended
<1> QED
  BY <1>1, <1>2, <1>3, <1>4, <1>5, <1>6, <1>7, <1>8, <1>9, <1>10, <1>11, <1>12, <1>13, <1>14,
     <1>15, <1>16, <1>17 DEF StepOf

LEMMA UsingStep ==
    ASSUME TypeOK, FreshInv, UsingInv, NEW p \in Proc, StepOf(p)
    PROVE  UsingInv'
<1> USE NothingEmpty DEF localVars
<1>1. CASE Start(p)
  BY <1>1 DEF Start, Goto, TypeOK, FreshInv, UsingInv, Saving, Ended
<1>2. CASE LoadNothing(p)
  BY <1>2 DEF LoadNothing, Goto, TypeOK, FreshInv, UsingInv, Saving, Ended
<1>3. CASE Load(p)
  BY <1>3, Parts, CurrentChanged DEF Load, Goto, SaveThen, TypeOK, FreshInv, UsingInv, Saving,
     Ended
<1>4. CASE Select(p)
  <2>1. CASE UNCHANGED <<mem, then>> /\ (Goto(p, "run") \/ Goto(p, "failed"))
    BY <1>4, <2>1 DEF Select, Goto, TypeOK, FreshInv, UsingInv, Saving, Ended
  <2>2. CASE flag[p] \in Defined(mem[p]) /\ SetCurrent(p, flag[p]) /\ SaveThen(p, "run")
    <3>1. WithCurrent(mem[p], flag[p]) \in Config
          /\ WithCurrent(mem[p], flag[p]).current = flag[p]
          /\ Defined(WithCurrent(mem[p], flag[p])) = Defined(mem[p])
          /\ (PortsDiffer(mem[p]) => PortsDiffer(WithCurrent(mem[p], flag[p])))
      BY <2>2, Parts, CurrentChanged DEF TypeOK, Ended
    <3> QED
      BY <1>4, <2>2, <3>1 DEF Select, Goto, SaveThen, SetCurrent, TypeOK, FreshInv,
         UsingInv, Saving, Ended
  <2> QED
    BY <1>4, <2>1, <2>2 DEF Select
<1>5. CASE Finish(p)
  BY <1>5 DEF Finish, Goto, TypeOK, FreshInv, UsingInv, Saving, Ended
<1>6. CASE Toggle(p)
  BY <1>6, Parts, FlagFlipped DEF Toggle, SaveThen, Goto, TypeOK, FreshInv, UsingInv, Saving,
     Ended
<1>7. CASE StopAll(p)
  BY <1>7, Parts DEF StopAll, Goto, TypeOK, FreshInv, UsingInv, Saving, Ended
<1>8. CASE SelectNext(p)
  BY <1>8, Parts, CurrentChanged DEF SelectNext, SaveThen, SetCurrent, Goto, TypeOK, FreshInv,
     UsingInv, Saving, Ended
<1>9. CASE StopOne(p)
  BY <1>9 DEF StopOne, Goto, TypeOK, FreshInv, UsingInv, Saving, Ended
<1>10. CASE SelectBack(p)
  <2>1. CASE UNCHANGED <<mem, then>> /\ Goto(p, "done")
    BY <1>10, <2>1 DEF SelectBack, Goto, TypeOK, FreshInv, UsingInv, Saving, Ended
  <2>2. CASE Defined(mem[p]) # {} /\ SetCurrent(p, back[p]) /\ SaveThen(p, "back")
    <3>1. WithCurrent(mem[p], back[p]) \in Config
          /\ WithCurrent(mem[p], back[p]).current = back[p]
          /\ Defined(WithCurrent(mem[p], back[p])) = Defined(mem[p])
          /\ (PortsDiffer(mem[p]) => PortsDiffer(WithCurrent(mem[p], back[p])))
      BY Parts, CurrentChanged DEF TypeOK, Ended
    <3> QED
      BY <1>10, <2>2, <3>1 DEF SelectBack, Goto, SaveThen, SetCurrent, TypeOK, FreshInv,
         UsingInv, Saving, Ended
  <2> QED
    BY <1>10, <2>1, <2>2 DEF SelectBack
<1>11. CASE OpenForm(p)
  BY <1>11, Parts, CurrentChanged DEF OpenForm, Goto, SetCurrent, TypeOK, FreshInv, UsingInv,
     Saving, Ended
<1>12. CASE SaveForm(p)
  BY <1>12, Parts, ContextWritten DEF SaveForm, SaveThen, Goto, TypeOK, FreshInv, UsingInv,
     Saving, Ended
<1>13. CASE Submit(p) \/ TypeLate(p) \/ Abort(p)
  BY <1>13 DEF Submit, TypeLate, Abort, Goto, TypeOK, FreshInv, UsingInv, Saving, Ended
<1>14. CASE SaveTruncates(p)
  BY <1>14 DEF SaveTruncates, Goto, TypeOK, FreshInv, UsingInv, Saving, Ended
<1>15. CASE SaveWrites(p)
  BY <1>15, Parts DEF SaveWrites, Goto, AfterSave, TypeOK, FreshInv, UsingInv, Saving, Ended
<1>16. CASE SaveFails(p)
  BY <1>16 DEF SaveFails, Goto, AfterFailure, TypeOK, FreshInv, UsingInv, Saving, Ended
<1>17. CASE Crash(p)
  BY <1>17 DEF Crash, Goto, TypeOK, FreshInv, UsingInv, Saving, Ended
<1> QED
  BY <1>1, <1>2, <1>3, <1>4, <1>5, <1>6, <1>7, <1>8, <1>9, <1>10, <1>11, <1>12, <1>13, <1>14,
     <1>15, <1>16, <1>17 DEF StepOf

LEMMA CurrentStep ==
    ASSUME TypeOK, FreshInv, UsingInv, CurrentInv, VisitInv, NEW p \in Proc, StepOf(p)
    PROVE  CurrentInv'
<1> USE NothingEmpty DEF localVars
<1>1. CASE Start(p)
  BY <1>1 DEF Start, Goto, TypeOK, FreshInv, UsingInv, CurrentInv, VisitInv, Saving, Ended
<1>2. CASE LoadNothing(p)
  BY <1>2 DEF LoadNothing, Goto, TypeOK, FreshInv, UsingInv, CurrentInv, VisitInv, Saving, Ended
<1>3. CASE Load(p)
  BY <1>3, Parts, CurrentChanged DEF Load, Goto, SaveThen, TypeOK, FreshInv, UsingInv,
     CurrentInv, VisitInv, Saving, Ended
<1>4. CASE Select(p)
  <2>1. CASE UNCHANGED <<mem, then>> /\ (Goto(p, "run") \/ Goto(p, "failed"))
    BY <1>4, <2>1 DEF Select, Goto, TypeOK, FreshInv, UsingInv, CurrentInv, VisitInv, Saving,
       Ended
  <2>2. CASE flag[p] \in Defined(mem[p]) /\ SetCurrent(p, flag[p]) /\ SaveThen(p, "run")
    <3>1. WithCurrent(mem[p], flag[p]) \in Config
          /\ WithCurrent(mem[p], flag[p]).current = flag[p]
          /\ Defined(WithCurrent(mem[p], flag[p])) = Defined(mem[p])
          /\ (PortsDiffer(mem[p]) => PortsDiffer(WithCurrent(mem[p], flag[p])))
      BY <2>2, Parts, CurrentChanged DEF TypeOK, Ended
    <3> QED
      BY <1>4, <2>2, <3>1 DEF Select, Goto, SaveThen, SetCurrent, TypeOK, FreshInv,
         UsingInv, CurrentInv, VisitInv, Saving, Ended
  <2> QED
    BY <1>4, <2>1, <2>2 DEF Select
<1>5. CASE Finish(p)
  BY <1>5 DEF Finish, Goto, TypeOK, FreshInv, UsingInv, CurrentInv, VisitInv, Saving, Ended
<1>6. CASE Toggle(p)
  BY <1>6, Parts, FlagFlipped DEF Toggle, SaveThen, Goto, TypeOK, FreshInv, UsingInv,
     CurrentInv, VisitInv, Saving, Ended
<1>7. CASE StopAll(p)
  BY <1>7, Parts DEF StopAll, Goto, TypeOK, FreshInv, UsingInv, CurrentInv, VisitInv, Saving,
     Ended
<1>8. CASE SelectNext(p)
  BY <1>8, Parts, CurrentChanged DEF SelectNext, SaveThen, SetCurrent, Goto, TypeOK, FreshInv,
     UsingInv, CurrentInv, VisitInv, Saving, Ended
<1>9. CASE StopOne(p)
  BY <1>9 DEF StopOne, Goto, TypeOK, FreshInv, UsingInv, CurrentInv, VisitInv, Saving, Ended
<1>10. CASE SelectBack(p)
  <2>1. CASE UNCHANGED <<mem, then>> /\ Goto(p, "done")
    BY <1>10, <2>1 DEF SelectBack, Goto, TypeOK, FreshInv, UsingInv, CurrentInv, VisitInv,
       Saving, Ended
  <2>2. CASE Defined(mem[p]) # {} /\ SetCurrent(p, back[p]) /\ SaveThen(p, "back")
    <3>1. WithCurrent(mem[p], back[p]) \in Config
          /\ WithCurrent(mem[p], back[p]).current = back[p]
          /\ Defined(WithCurrent(mem[p], back[p])) = Defined(mem[p])
          /\ (PortsDiffer(mem[p]) => PortsDiffer(WithCurrent(mem[p], back[p])))
      BY Parts, CurrentChanged DEF TypeOK, Ended
    <3> QED
      BY <1>10, <2>2, <3>1 DEF SelectBack, Goto, SaveThen, SetCurrent, TypeOK, FreshInv,
         UsingInv, CurrentInv, VisitInv, Saving, Ended
  <2> QED
    BY <1>10, <2>1, <2>2 DEF SelectBack
<1>11. CASE OpenForm(p)
  BY <1>11, Parts, CurrentChanged DEF OpenForm, Goto, SetCurrent, TypeOK, FreshInv, UsingInv,
     CurrentInv, VisitInv, Saving, Ended
<1>12. CASE SaveForm(p)
  BY <1>12, Parts, ContextWritten DEF SaveForm, SaveThen, Goto, TypeOK, FreshInv, UsingInv,
     CurrentInv, VisitInv, Saving, Ended
<1>13. CASE Submit(p) \/ TypeLate(p) \/ Abort(p)
  BY <1>13 DEF Submit, TypeLate, Abort, Goto, TypeOK, FreshInv, UsingInv, CurrentInv,
     VisitInv, Saving, Ended
<1>14. CASE SaveTruncates(p)
  BY <1>14 DEF SaveTruncates, Goto, TypeOK, FreshInv, UsingInv, CurrentInv, VisitInv, Saving,
     Ended
<1>15. CASE SaveWrites(p)
  BY <1>15, Parts DEF SaveWrites, Goto, AfterSave, TypeOK, FreshInv, UsingInv, CurrentInv,
     VisitInv, Saving, Ended
<1>16. CASE SaveFails(p)
  BY <1>16 DEF SaveFails, Goto, AfterFailure, TypeOK, FreshInv, UsingInv, CurrentInv, VisitInv,
     Saving, Ended
<1>17. CASE Crash(p)
  BY <1>17 DEF Crash, Goto, TypeOK, FreshInv, UsingInv, CurrentInv, VisitInv, Saving, Ended
<1> QED
  BY <1>1, <1>2, <1>3, <1>4, <1>5, <1>6, <1>7, <1>8, <1>9, <1>10, <1>11, <1>12, <1>13, <1>14,
     <1>15, <1>16, <1>17 DEF StepOf

LEMMA VisitStep ==
    ASSUME TypeOK, CurrentInv, VisitInv, NEW p \in Proc, StepOf(p)
    PROVE  VisitInv'
<1> USE DEF localVars
<1>1. CASE Start(p)
  BY <1>1 DEF Start, Goto, TypeOK, CurrentInv, VisitInv, Saving, Ended
<1>2. CASE LoadNothing(p)
  BY <1>2 DEF LoadNothing, Goto, TypeOK, CurrentInv, VisitInv, Saving, Ended
<1>3. CASE Load(p)
  BY <1>3, Parts, CurrentChanged, SMTT(60) DEF Load, Goto, SaveThen, TypeOK, CurrentInv, VisitInv,
     Saving, Ended
<1>4. CASE Select(p)
  <2>1. CASE UNCHANGED <<mem, then>> /\ (Goto(p, "run") \/ Goto(p, "failed"))
    BY <1>4, <2>1 DEF Select, Goto, TypeOK, CurrentInv, VisitInv, Saving, Ended
  <2>2. CASE flag[p] \in Defined(mem[p]) /\ SetCurrent(p, flag[p]) /\ SaveThen(p, "run")
    <3>1. WithCurrent(mem[p], flag[p]) \in Config
          /\ WithCurrent(mem[p], flag[p]).current = flag[p]
          /\ Defined(WithCurrent(mem[p], flag[p])) = Defined(mem[p])
          /\ (PortsDiffer(mem[p]) => PortsDiffer(WithCurrent(mem[p], flag[p])))
      BY <2>2, Parts, CurrentChanged DEF TypeOK, Ended
    <3> QED
      BY <1>4, <2>2, <3>1 DEF Select, Goto, SaveThen, SetCurrent, TypeOK, CurrentInv,
         VisitInv, Saving, Ended
  <2> QED
    BY <1>4, <2>1, <2>2 DEF Select
<1>5. CASE Finish(p)
  BY <1>5 DEF Finish, Goto, TypeOK, CurrentInv, VisitInv, Saving, Ended
<1>6. CASE Toggle(p)
  BY <1>6, Parts, FlagFlipped DEF Toggle, SaveThen, Goto, TypeOK, CurrentInv, VisitInv, Saving,
     Ended
<1>7. CASE StopAll(p)
  BY <1>7, Parts DEF StopAll, Goto, TypeOK, CurrentInv, VisitInv, Saving, Ended
<1>8. CASE SelectNext(p)
  BY <1>8, Parts, CurrentChanged DEF SelectNext, SaveThen, SetCurrent, Goto, TypeOK, CurrentInv,
     VisitInv, Saving, Ended
<1>9. CASE StopOne(p)
  BY <1>9 DEF StopOne, Goto, TypeOK, CurrentInv, VisitInv, Saving, Ended
<1>10. CASE SelectBack(p)
  <2>1. CASE UNCHANGED <<mem, then>> /\ Goto(p, "done")
    BY <1>10, <2>1 DEF SelectBack, Goto, TypeOK, CurrentInv, VisitInv, Saving, Ended
  <2>2. CASE Defined(mem[p]) # {} /\ SetCurrent(p, back[p]) /\ SaveThen(p, "back")
    <3>1. WithCurrent(mem[p], back[p]) \in Config
          /\ WithCurrent(mem[p], back[p]).current = back[p]
          /\ Defined(WithCurrent(mem[p], back[p])) = Defined(mem[p])
          /\ (PortsDiffer(mem[p]) => PortsDiffer(WithCurrent(mem[p], back[p])))
      BY Parts, CurrentChanged DEF TypeOK, Ended
    <3> QED
      BY <1>10, <2>2, <3>1 DEF SelectBack, Goto, SaveThen, SetCurrent, TypeOK, CurrentInv,
         VisitInv, Saving, Ended
  <2> QED
    BY <1>10, <2>1, <2>2 DEF SelectBack
<1>11. CASE OpenForm(p)
  BY <1>11, Parts, CurrentChanged DEF OpenForm, Goto, SetCurrent, TypeOK, CurrentInv, VisitInv,
     Saving, Ended
<1>12. CASE SaveForm(p)
  BY <1>12, Parts, ContextWritten DEF SaveForm, SaveThen, Goto, TypeOK, CurrentInv, VisitInv,
     Saving, Ended
<1>13. CASE Submit(p) \/ TypeLate(p) \/ Abort(p)
  BY <1>13 DEF Submit, TypeLate, Abort, Goto, TypeOK, CurrentInv, VisitInv, Saving, Ended
<1>14. CASE SaveTruncates(p)
  BY <1>14 DEF SaveTruncates, Goto, TypeOK, CurrentInv, VisitInv, Saving, Ended
<1>15. CASE SaveWrites(p)
  BY <1>15, Parts DEF SaveWrites, Goto, AfterSave, TypeOK, CurrentInv, VisitInv, Saving, Ended
<1>16. CASE SaveFails(p)
  BY <1>16 DEF SaveFails, Goto, AfterFailure, TypeOK, CurrentInv, VisitInv, Saving, Ended
<1>17. CASE Crash(p)
  BY <1>17 DEF Crash, Goto, TypeOK, CurrentInv, VisitInv, Saving, Ended
<1> QED
  BY <1>1, <1>2, <1>3, <1>4, <1>5, <1>6, <1>7, <1>8, <1>9, <1>10, <1>11, <1>12, <1>13, <1>14,
     <1>15, <1>16, <1>17 DEF StepOf

(* The ports of a copy, and of the file, stay different.                  *)
LEMMA PortsStep ==
    ASSUME TypeOK, UniquePorts, NEW p \in Proc, StepOf(p)
    PROVE  UniquePorts'
<1> USE NothingEmpty DEF localVars
<1>1. CASE Start(p)
  BY <1>1, MissingAssumption DEF Start, Goto, TypeOK, UniquePorts
<1>2. CASE LoadNothing(p)
  BY <1>2, MissingAssumption DEF LoadNothing, Goto, TypeOK, UniquePorts
<1>3. CASE Load(p)
  BY <1>3, MissingAssumption, Parts, CurrentChanged, SMTT(60)
     DEF Load, Goto, SaveThen, TypeOK, UniquePorts
<1>4. CASE Select(p)
  <2>1. CASE UNCHANGED <<mem, then>> /\ (Goto(p, "run") \/ Goto(p, "failed"))
    BY <1>4, <2>1, MissingAssumption DEF Select, Goto, TypeOK, UniquePorts
  <2>2. CASE flag[p] \in Defined(mem[p]) /\ SetCurrent(p, flag[p]) /\ SaveThen(p, "run")
    <3>1. WithCurrent(mem[p], flag[p]) \in Config
          /\ WithCurrent(mem[p], flag[p]).current = flag[p]
          /\ Defined(WithCurrent(mem[p], flag[p])) = Defined(mem[p])
          /\ (PortsDiffer(mem[p]) => PortsDiffer(WithCurrent(mem[p], flag[p])))
      BY <2>2, Parts, CurrentChanged DEF TypeOK, Ended
    <3> QED
      BY <1>4, <2>2, <3>1, MissingAssumption DEF Select, Goto, SaveThen, SetCurrent, TypeOK,
         UniquePorts
  <2> QED
    BY <1>4, <2>1, <2>2 DEF Select
<1>5. CASE Finish(p)
  BY <1>5, MissingAssumption DEF Finish, Goto, TypeOK, UniquePorts
<1>6. CASE Toggle(p)
  BY <1>6, MissingAssumption, Parts, FlagFlipped DEF Toggle, SaveThen, Goto, TypeOK, UniquePorts
<1>7. CASE StopAll(p)
  BY <1>7, MissingAssumption, Parts DEF StopAll, Goto, TypeOK, UniquePorts
<1>8. CASE SelectNext(p)
  BY <1>8, MissingAssumption, Parts, CurrentChanged DEF SelectNext, SaveThen, SetCurrent, Goto,
     TypeOK, UniquePorts
<1>9. CASE StopOne(p)
  BY <1>9, MissingAssumption DEF StopOne, Goto, TypeOK, UniquePorts
<1>10. CASE SelectBack(p)
  <2>1. CASE UNCHANGED <<mem, then>> /\ Goto(p, "done")
    BY <1>10, <2>1, MissingAssumption DEF SelectBack, Goto, TypeOK, UniquePorts
  <2>2. CASE Defined(mem[p]) # {} /\ SetCurrent(p, back[p]) /\ SaveThen(p, "back")
    <3>1. WithCurrent(mem[p], back[p]) \in Config
          /\ WithCurrent(mem[p], back[p]).current = back[p]
          /\ Defined(WithCurrent(mem[p], back[p])) = Defined(mem[p])
          /\ (PortsDiffer(mem[p]) => PortsDiffer(WithCurrent(mem[p], back[p])))
      BY Parts, CurrentChanged DEF TypeOK, Ended
    <3> QED
      BY <1>10, <2>2, <3>1, MissingAssumption DEF SelectBack, Goto, SaveThen, SetCurrent,
         TypeOK, UniquePorts
  <2> QED
    BY <1>10, <2>1, <2>2 DEF SelectBack
<1>11. CASE OpenForm(p)
  BY <1>11, MissingAssumption, Parts, CurrentChanged DEF OpenForm, Goto, SetCurrent, TypeOK,
     UniquePorts
<1>12. CASE SaveForm(p)
  <2>1. CASE p \in late
    BY <1>12, <2>1 DEF SaveForm, UniquePorts
  <2>2. CASE p \notin late
    <3>1. PICK c \in Ctx, n \in Port :
            /\ \A d \in Ctx \ {c} : mem[p].port[d] # n
            /\ mem' = [mem EXCEPT ![p] = WithContext(@, c, n)]
      BY <1>12, <2>2 DEF SaveForm, PortIsFree
    <3>2. PortsDiffer(mem[p]) => PortsDiffer(WithContext(mem[p], c, n))
      BY <3>1, ContextWritten DEF TypeOK
    <3>3. UNCHANGED <<file, late>>
      BY <1>12 DEF SaveForm
    <3> QED
      BY <3>1, <3>2, <3>3 DEF TypeOK, UniquePorts
  <2> QED
    BY <2>1, <2>2
<1>13. CASE Submit(p) \/ TypeLate(p) \/ Abort(p)
  BY <1>13, MissingAssumption DEF Submit, TypeLate, Abort, Goto, TypeOK, UniquePorts
<1>14. CASE SaveTruncates(p)
  BY <1>14, MissingAssumption DEF SaveTruncates, Goto, TypeOK, UniquePorts
<1>15. CASE SaveWrites(p)
  BY <1>15, MissingAssumption, Parts DEF SaveWrites, Goto, AfterSave, TypeOK, UniquePorts
<1>16. CASE SaveFails(p)
  BY <1>16, MissingAssumption DEF SaveFails, Goto, AfterFailure, TypeOK, UniquePorts
<1>17. CASE Crash(p)
  BY <1>17, MissingAssumption DEF Crash, Goto, TypeOK, UniquePorts
<1> QED
  BY <1>1, <1>2, <1>3, <1>4, <1>5, <1>6, <1>7, <1>8, <1>9, <1>10, <1>11, <1>12, <1>13, <1>14,
     <1>15, <1>16, <1>17 DEF StepOf

(* A stop --all doesn't forget what it has found.                          *)
LEMMA ReturnStep ==
    ASSUME TypeOK, ReturnInv, NEW p \in Proc, StepOf(p)
    PROVE  ReturnInv'
<1> USE DEF localVars
<1>1. CASE Start(p)
  BY <1>1, ConfigAssumption, Parts DEF Start, Goto, TypeOK, ReturnInv, Saving, Ended
<1>2. CASE LoadNothing(p)
  BY <1>2, ConfigAssumption, Parts DEF LoadNothing, Goto, TypeOK, ReturnInv, Saving, Ended
<1>3. CASE Load(p)
  BY <1>3, ConfigAssumption, Parts, CurrentChanged DEF Load, Goto, SaveThen, TypeOK, ReturnInv,
     Saving, Ended
<1>4. CASE Select(p)
  <2>1. CASE UNCHANGED <<mem, then>> /\ (Goto(p, "run") \/ Goto(p, "failed"))
    BY <1>4, <2>1, ConfigAssumption, Parts DEF Select, Goto, TypeOK, ReturnInv, Saving, Ended
  <2>2. CASE flag[p] \in Defined(mem[p]) /\ SetCurrent(p, flag[p]) /\ SaveThen(p, "run")
    <3>1. WithCurrent(mem[p], flag[p]) \in Config
          /\ WithCurrent(mem[p], flag[p]).current = flag[p]
          /\ Defined(WithCurrent(mem[p], flag[p])) = Defined(mem[p])
          /\ (PortsDiffer(mem[p]) => PortsDiffer(WithCurrent(mem[p], flag[p])))
      BY <2>2, Parts, CurrentChanged DEF TypeOK, Ended
    <3> QED
      BY <1>4, <2>2, <3>1, ConfigAssumption, Parts DEF Select, Goto, SaveThen, SetCurrent,
         TypeOK, ReturnInv, Saving, Ended
  <2> QED
    BY <1>4, <2>1, <2>2 DEF Select
<1>5. CASE Finish(p)
  BY <1>5, ConfigAssumption, Parts DEF Finish, Goto, TypeOK, ReturnInv, Saving, Ended
<1>6. CASE Toggle(p)
  BY <1>6, ConfigAssumption, Parts, FlagFlipped DEF Toggle, SaveThen, Goto, TypeOK, ReturnInv,
     Saving, Ended
<1>7. CASE StopAll(p)
  BY <1>7, ConfigAssumption, Parts DEF StopAll, Goto, TypeOK, ReturnInv, Saving, Ended
<1>8. CASE SelectNext(p)
  BY <1>8, ConfigAssumption, Parts, CurrentChanged DEF SelectNext, SaveThen, SetCurrent, Goto,
     TypeOK, ReturnInv, Saving, Ended
<1>9. CASE StopOne(p)
  BY <1>9, ConfigAssumption, Parts DEF StopOne, Goto, TypeOK, ReturnInv, Saving, Ended
<1>10. CASE SelectBack(p)
  <2>1. CASE UNCHANGED <<mem, then>> /\ Goto(p, "done")
    BY <1>10, <2>1, ConfigAssumption, Parts DEF SelectBack, Goto, TypeOK, ReturnInv, Saving, Ended
  <2>2. CASE Defined(mem[p]) # {} /\ SetCurrent(p, back[p]) /\ SaveThen(p, "back")
    <3>1. WithCurrent(mem[p], back[p]) \in Config
          /\ WithCurrent(mem[p], back[p]).current = back[p]
          /\ Defined(WithCurrent(mem[p], back[p])) = Defined(mem[p])
          /\ (PortsDiffer(mem[p]) => PortsDiffer(WithCurrent(mem[p], back[p])))
      BY Parts, CurrentChanged DEF TypeOK, Ended
    <3> QED
      BY <1>10, <2>2, <3>1, ConfigAssumption, Parts DEF SelectBack, Goto, SaveThen,
         SetCurrent, TypeOK, ReturnInv, Saving, Ended
  <2> QED
    BY <1>10, <2>1, <2>2 DEF SelectBack
<1>11. CASE OpenForm(p)
  BY <1>11, ConfigAssumption, Parts, CurrentChanged DEF OpenForm, Goto, SetCurrent, TypeOK,
     ReturnInv, Saving, Ended
<1>12. CASE SaveForm(p)
  BY <1>12, ConfigAssumption, Parts, ContextWritten DEF SaveForm, SaveThen, Goto, TypeOK,
     ReturnInv, Saving, Ended
<1>13. CASE Submit(p) \/ TypeLate(p) \/ Abort(p)
  BY <1>13, ConfigAssumption, Parts DEF Submit, TypeLate, Abort, Goto, TypeOK, ReturnInv,
     Saving, Ended
<1>14. CASE SaveTruncates(p)
  BY <1>14, ConfigAssumption, Parts DEF SaveTruncates, Goto, TypeOK, ReturnInv, Saving, Ended
<1>15. CASE SaveWrites(p)
  BY <1>15, ConfigAssumption, Parts DEF SaveWrites, Goto, AfterSave, TypeOK, ReturnInv, Saving,
     Ended
<1>16. CASE SaveFails(p)
  BY <1>16, ConfigAssumption, Parts DEF SaveFails, Goto, AfterFailure, TypeOK, ReturnInv,
     Saving, Ended
<1>17. CASE Crash(p)
  BY <1>17, ConfigAssumption, Parts DEF Crash, Goto, TypeOK, ReturnInv, Saving, Ended
<1> QED
  BY <1>1, <1>2, <1>3, <1>4, <1>5, <1>6, <1>7, <1>8, <1>9, <1>10, <1>11, <1>12, <1>13, <1>14,
     <1>15, <1>16, <1>17 DEF StepOf

(* And no context is lost, as long as the history is clean.                *)
LEMMA SurviveStep ==
    ASSUME TypeOK, SurviveInv, NEW p \in Proc, StepOf(p)
    PROVE  SurviveInv'
<1> USE NothingEmpty DEF localVars
<1>1. CASE Start(p)
  BY <1>1, MissingAssumption DEF Start, Goto, TypeOK, SurviveInv, Active, Loaded, Saving, Ended
<1>2. CASE LoadNothing(p)
  BY <1>2, MissingAssumption DEF LoadNothing, Goto, TypeOK, SurviveInv, Active, Loaded, Saving,
     Ended
<1>3. CASE Load(p)
  <2>1. /\ \A q \in Proc \ {p} : pc'[q] = pc[q] /\ mem'[q] = mem[q]
        /\ pc[p] = "load" /\ pc'[p] \in {"select", "truncate"}
        /\ UNCHANGED <<file, known, clean>> /\ file # Missing
    BY <1>3 DEF Load, Goto, SaveThen, TypeOK
  <2>2. Defined(mem'[p]) = Defined(file)
    BY <1>3, Parts, CurrentChanged DEF Load, TypeOK
  <2> QED
    BY <2>1, <2>2 DEF TypeOK, SurviveInv, Active, Loaded, Saving, Ended
<1>4. CASE Select(p)
  <2>1. CASE UNCHANGED <<mem, then>> /\ (Goto(p, "run") \/ Goto(p, "failed"))
    BY <1>4, <2>1, MissingAssumption DEF Select, Goto, TypeOK, SurviveInv, Active, Loaded,
       Saving, Ended
  <2>2. CASE flag[p] \in Defined(mem[p]) /\ SetCurrent(p, flag[p]) /\ SaveThen(p, "run")
    <3>1. WithCurrent(mem[p], flag[p]) \in Config
          /\ WithCurrent(mem[p], flag[p]).current = flag[p]
          /\ Defined(WithCurrent(mem[p], flag[p])) = Defined(mem[p])
          /\ (PortsDiffer(mem[p]) => PortsDiffer(WithCurrent(mem[p], flag[p])))
      BY <2>2, Parts, CurrentChanged DEF TypeOK, Ended
    <3> QED
      BY <1>4, <2>2, <3>1, MissingAssumption DEF Select, Goto, SaveThen, SetCurrent, TypeOK,
         SurviveInv, Active, Loaded, Saving, Ended
  <2> QED
    BY <1>4, <2>1, <2>2 DEF Select
<1>5. CASE Finish(p)
  BY <1>5, MissingAssumption DEF Finish, Goto, TypeOK, SurviveInv, Active, Loaded, Saving, Ended
<1>6. CASE Toggle(p)
  BY <1>6, MissingAssumption, Parts, FlagFlipped DEF Toggle, SaveThen, Goto, TypeOK, SurviveInv,
     Active, Loaded, Saving, Ended
<1>7. CASE StopAll(p)
  BY <1>7, MissingAssumption, Parts DEF StopAll, Goto, TypeOK, SurviveInv, Active, Loaded,
     Saving, Ended
<1>8. CASE SelectNext(p)
  BY <1>8, MissingAssumption, Parts, CurrentChanged DEF SelectNext, SaveThen, SetCurrent, Goto,
     TypeOK, SurviveInv, Active, Loaded, Saving, Ended
<1>9. CASE StopOne(p)
  BY <1>9, MissingAssumption DEF StopOne, Goto, TypeOK, SurviveInv, Active, Loaded, Saving, Ended
<1>10. CASE SelectBack(p)
  <2>1. CASE UNCHANGED <<mem, then>> /\ Goto(p, "done")
    BY <1>10, <2>1, MissingAssumption DEF SelectBack, Goto, TypeOK, SurviveInv, Active,
       Loaded, Saving, Ended
  <2>2. CASE Defined(mem[p]) # {} /\ SetCurrent(p, back[p]) /\ SaveThen(p, "back")
    <3>1. WithCurrent(mem[p], back[p]) \in Config
          /\ WithCurrent(mem[p], back[p]).current = back[p]
          /\ Defined(WithCurrent(mem[p], back[p])) = Defined(mem[p])
          /\ (PortsDiffer(mem[p]) => PortsDiffer(WithCurrent(mem[p], back[p])))
      BY Parts, CurrentChanged DEF TypeOK, Ended
    <3> QED
      BY <1>10, <2>2, <3>1, MissingAssumption DEF SelectBack, Goto, SaveThen, SetCurrent,
         TypeOK, SurviveInv, Active, Loaded, Saving, Ended
  <2> QED
    BY <1>10, <2>1, <2>2 DEF SelectBack
<1>11. CASE OpenForm(p)
  <2>1. /\ WithCurrent(mem[p], flag[p]) \in Config
        /\ Defined(WithCurrent(mem[p], flag[p])) = Defined(mem[p])
    BY CurrentChanged DEF TypeOK
  <2> QED
    BY <1>11, <2>1 DEF OpenForm, Goto, SetCurrent, TypeOK, SurviveInv, Active, Loaded, Saving,
       Ended
<1>12. CASE SaveForm(p)
  BY <1>12, MissingAssumption, Parts, ContextWritten DEF SaveForm, SaveThen, Goto, TypeOK,
     SurviveInv, Active, Loaded, Saving, Ended
<1>13. CASE Submit(p) \/ TypeLate(p) \/ Abort(p)
  BY <1>13, MissingAssumption DEF Submit, TypeLate, Abort, Goto, TypeOK, SurviveInv, Active,
     Loaded, Saving, Ended
<1>14. CASE SaveTruncates(p)
  BY <1>14, MissingAssumption DEF SaveTruncates, Goto, TypeOK, SurviveInv, Active, Loaded,
     Saving, Ended
<1>15. CASE SaveWrites(p)
  BY <1>15, MissingAssumption, Parts DEF SaveWrites, Goto, AfterSave, TypeOK, SurviveInv,
     Active, Loaded, Saving, Ended
<1>16. CASE SaveFails(p)
  BY <1>16, MissingAssumption DEF SaveFails, Goto, AfterFailure, TypeOK, SurviveInv, Active,
     Loaded, Saving, Ended
<1>17. CASE Crash(p)
  BY <1>17, MissingAssumption DEF Crash, Goto, TypeOK, SurviveInv, Active, Loaded, Saving, Ended
<1> QED
  BY <1>1, <1>2, <1>3, <1>4, <1>5, <1>6, <1>7, <1>8, <1>9, <1>10, <1>11, <1>12, <1>13, <1>14,
     <1>15, <1>16, <1>17 DEF StepOf

LEMMA ConfigStep == CopyInv /\ UniquePorts /\ SurviveInv /\ [Next]_vars
                      => CopyInv' /\ UniquePorts' /\ SurviveInv'
<1> SUFFICES ASSUME CopyInv, UniquePorts, SurviveInv, [Next]_vars
             PROVE  CopyInv' /\ UniquePorts' /\ SurviveInv'
  OBVIOUS
<1>1. CASE Next
  <2> PICK p \in Proc : StepOf(p)
    BY <1>1 DEF Next, StepOf
  <2> QED
    BY TypeStep, FreshStep, UsingStep, CurrentStep, VisitStep, PortsStep, ReturnStep, SurviveStep
       DEF CopyInv
<1>2. CASE UNCHANGED vars
  BY <1>2 DEF CopyInv, TypeOK, FreshInv, UsingInv, CurrentInv, VisitInv, ReturnInv, Saving,
     UniquePorts, PortsDiffer, Defined, SurviveInv, Active, Loaded, vars, localVars
<1> QED
  BY <1>1, <1>2

LEMMA ConfigInvariant == Spec => [](CopyInv /\ UniquePorts /\ SurviveInv)
  BY ConfigInit, ConfigStep, PTL DEF Spec

-----------------------------------------------------------------------------
(* Every variable keeps its type.                                          *)
THEOREM ConfigTypeCorrect == Spec => []TypeOK
<1>1. CopyInv => TypeOK
  BY DEF CopyInv
<1> QED
  BY <1>1, ConfigInvariant, PTL

(* Where a command uses its context, it is the one it names, also after a  *)
(* switch that could not be saved.                                         *)
THEOREM CommandsUseNamed == Spec => []UsesNamed
<1>1. CopyInv => UsesNamed
  BY DEF CopyInv, UsingInv, UsesNamed
<1> QED
  BY <1>1, ConfigInvariant, PTL

(* No interleaving of commands makes two contexts share a port, unless a   *)
(* key came after a form was submitted.                                    *)
THEOREM PortsStayUnique == Spec => []UniquePorts
  BY ConfigInvariant, PTL

(* Every save names a context that is defined.                             *)
THEOREM SavesStayUsable == Spec => []SavesAreUsable
<1>1. CopyInv => SavesAreUsable
  BY DEF CopyInv, CurrentInv, Saving, SavesAreUsable
<1> QED
  BY <1>1, ConfigInvariant, PTL

(* One command after the other, with whatever failures, keeps all contexts. *)
THEOREM NoContextLost == Spec => []ContextsSurvive
<1>1. SurviveInv => ContextsSurvive
  BY DEF SurviveInv, ContextsSurvive
<1> QED
  BY <1>1, ConfigInvariant, PTL

(* stop --all leaves the current context as it found it, unless the save   *)
(* that goes back to it fails; no other failure keeps it away.             *)
THEOREM StopAllReturns == Spec => StopAllComesBack
<1> DEFINE A == \A p \in Proc :
         cmd[p] = "stopAll" /\ flag[p] = None /\ Defined(mem[p]) # {}
             /\ pc[p] # "done" /\ pc'[p] = "done"
           => file'.current = found[p] \/ (SaveFails(p) /\ then[p] = "back")
<1>1. CopyInv /\ [Next]_vars => [A]_vars
  <2> SUFFICES ASSUME CopyInv, NEW p \in Proc, StepOf(p), NEW q \in Proc,
                      cmd[q] = "stopAll", flag[q] = None, Defined(mem[q]) # {},
                      pc[q] # "done", pc'[q] = "done"
               PROVE  file'.current = found[q] \/ (SaveFails(q) /\ then[q] = "back")
    BY DEF Next, StepOf
  <2> USE DEF CopyInv, TypeOK, ReturnInv, Saving, localVars
  <2>1. CASE Start(p) \/ LoadNothing(p) \/ Load(p) \/ Select(p) \/ Toggle(p) \/ StopAll(p)
             \/ SelectNext(p) \/ StopOne(p) \/ OpenForm(p) \/ SaveTruncates(p) \/ Crash(p)
    BY <2>1 DEF Start, LoadNothing, Load, Select, Toggle, StopAll, SelectNext, StopOne, OpenForm,
       SaveTruncates, Crash, SaveThen, Goto
  <2>2. CASE Finish(p) \/ Submit(p) \/ TypeLate(p) \/ SaveForm(p) \/ Abort(p)
    BY <2>2 DEF Finish, Submit, TypeLate, SaveForm, Abort, SaveThen, Goto
  <2>3. CASE SelectBack(p)
    BY <2>3 DEF SelectBack, SaveThen, Goto
  <2>4. CASE SaveWrites(p)
    BY <2>4 DEF SaveWrites, AfterSave, Goto
  <2>5. CASE SaveFails(p)
    <3>1. p = q /\ AfterFailure(then[p]) = "done"
      BY <2>5 DEF SaveFails, Goto
    <3> QED
      BY <2>5, <3>1 DEF AfterFailure
  <2> QED
    BY <2>1, <2>2, <2>3, <2>4, <2>5 DEF StepOf
<1> HIDE DEF A
<1> QED
  BY <1>1, ConfigInvariant, PTL DEF StopAllComesBack, Spec, A
=============================================================================
