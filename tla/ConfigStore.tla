----------------------------- MODULE ConfigStore -----------------------------
(***************************************************************************)
(* The configuration file and the commands that share it: Load,            *)
(* SwitchContext and save of internal/types/config.go, the switch by --ctx *)
(* (cmd/root.go), `gws ctx', the stop-on-exit key of a tunnel (tui.go),    *)
(* `gws stop --all' (internal/gcloud/client.go) and the last step of the   *)
(* setup wizard (internal/setup).                                          *)
(*                                                                         *)
(* Every command is a process with a copy of the configuration.  It reads  *)
(* the file once and, whenever it saves, writes its whole copy in place:   *)
(* the file is truncated and then written.  A truncated file loads as a    *)
(* configuration without contexts.                                         *)
(***************************************************************************)
CONSTANTS
    Proc,     \* commands, each run once
    Ctx,      \* names of contexts
    Port,     \* local ports
    None,     \* no name, no port
    Missing,  \* there is no file
    Faults    \* what may happen: "io", "crash"

ASSUME ConfigAssumption ==
    /\ None \notin Ctx \cup Port
    /\ Faults \subseteq {"io", "crash"}

Config == [port: [Ctx -> Port \cup {None}], current: Ctx \cup {None}, on: SUBSET Ctx]

ASSUME MissingAssumption == Missing \notin Config

VARIABLES
    file,   \* the configuration in the file, or Missing
    pc,     \* where each command is
    cmd,    \* which command it is
    flag,   \* its --ctx, or the name `gws ctx' is to switch to
    path,   \* its FilePath: none yet, the file, or only the directory
    mem,    \* its copy of the configuration: Contexts and CurrentContextName
    using,  \* currentContext
    then,   \* where it goes on after a save
    left,   \* stop --all: the contexts it has not visited
    back,   \* stop --all: currContext
    found,  \* history: the current context when it was loaded
    known,  \* history: the contexts that are or were in the file
    clean,  \* history: no two commands overlapped, no save was cut short
    late    \* history: the wizards in which a key came after the form was submitted

localVars == <<cmd, flag, path, left, back, found>>
vars == <<file, pc, mem, using, then, localVars, known, clean, late>>

Nothing == [port |-> [c \in Ctx |-> None], current |-> None, on |-> {}]

Defined(f) == {c \in Ctx : f.port[c] # None}

(* A configuration as a user may have written it: its current context need *)
(* not be defined.  The wizard's check is assumed of the ports.            *)
PortsDiffer(f) == \A c, d \in Defined(f) : c # d => f.port[c] # f.port[d]

Ended == {"done", "failed", "crashed"}

TypeOK ==
    /\ file \in Config \cup {Missing}
    /\ pc \in [Proc -> {"idle", "load", "select", "run", "form", "quitting", "stopNext",
                        "stopOne", "truncate", "write"} \cup Ended]
    /\ cmd \in [Proc -> {"tunnel", "ctx", "stopAll", "setup"}]
    /\ flag \in [Proc -> Ctx \cup {None}]
    /\ path \in [Proc -> {"none", "file", "directory"}]
    /\ mem \in [Proc -> Config]
    /\ using \in [Proc -> Ctx \cup {None}]
    /\ then \in [Proc -> {"select", "run", "resume", "stopOne", "back", "done"}]
    /\ left \in [Proc -> SUBSET Ctx]
    /\ back \in [Proc -> Ctx \cup {None}]
    /\ found \in [Proc -> Ctx \cup {None}]
    /\ known \in SUBSET Ctx
    /\ clean \in BOOLEAN
    /\ late \in SUBSET Proc

Init ==
    /\ file \in {f \in Config : PortsDiffer(f) /\ f.on \subseteq Defined(f)} \cup {Missing}
    /\ pc = [p \in Proc |-> "idle"]
    /\ cmd = [p \in Proc |-> "tunnel"]
    /\ flag = [p \in Proc |-> None]
    /\ path = [p \in Proc |-> "none"]
    /\ mem = [p \in Proc |-> Nothing]
    /\ using = [p \in Proc |-> None]
    /\ then = [p \in Proc |-> "done"]
    /\ left = [p \in Proc |-> {}]
    /\ back = [p \in Proc |-> None]
    /\ found = [p \in Proc |-> None]
    /\ known = IF file = Missing THEN {} ELSE Defined(file)
    /\ clean = TRUE
    /\ late = {}

-----------------------------------------------------------------------------
Goto(p, l) == pc' = [pc EXCEPT ![p] = l]

Active(p) == pc[p] \notin Ended \cup {"idle"}

(* Save, and go on at l afterwards.                                        *)
SaveThen(p, l) == Goto(p, "truncate") /\ then' = [then EXCEPT ![p] = l]

(* A configuration with its current context changed, with the stop-on-exit *)
(* flag of a context flipped, and with a context written by the wizard.    *)
WithCurrent(f, c) == [f EXCEPT !.current = c]

Flipped(f, c) == [f EXCEPT !.on = IF c \in @ THEN @ \ {c} ELSE @ \cup {c}]

WithContext(f, c, n) == [f EXCEPT !.port[c] = n, !.current = c]

SetCurrent(p, c) == mem' = [mem EXCEPT ![p] = WithCurrent(@, c)]

Start(p) ==
    /\ pc[p] = "idle"
    /\ \E k \in {"tunnel", "ctx", "stopAll", "setup"}, c \in Ctx \cup {None} :
         /\ k = "ctx" => c # None
         /\ cmd' = [cmd EXCEPT ![p] = k]
         /\ flag' = [flag EXCEPT ![p] = c]
    /\ clean' = (clean /\ \A q \in Proc : ~Active(q))
    /\ Goto(p, "load")
    /\ UNCHANGED <<file, path, mem, using, then, left, back, found, known, late>>

(* Load without a file: only the wizard goes on.  (A configuration that    *)
(* isn't valid ends every command here, as a crash does.)                  *)
LoadNothing(p) ==
    /\ pc[p] = "load" /\ file = Missing
    /\ Goto(p, IF cmd[p] = "setup" THEN "select" ELSE "failed")
    /\ UNCHANGED <<file, mem, using, then, localVars, known, clean, late>>

(* Load: a current context that isn't defined is replaced by any that is,  *)
(* which is saved.                                                         *)
Load(p) ==
    /\ pc[p] = "load" /\ file # Missing
    /\ path' = [path EXCEPT ![p] = "file"]
    /\ LET names == Defined(file) IN
       \E c \in IF file.current \in names THEN {file.current}
                ELSE IF names = {} THEN {None} ELSE names :
         /\ mem' = [mem EXCEPT ![p] = WithCurrent(file, c)]
         /\ found' = [found EXCEPT ![p] = c]
         /\ IF c \in names /\ c # file.current
            THEN SaveThen(p, "select") /\ UNCHANGED using
            ELSE /\ Goto(p, "select")
                 /\ using' = [using EXCEPT ![p] = c]
                 /\ UNCHANGED then
    /\ UNCHANGED <<file, cmd, flag, left, back, known, clean, late>>

(* readConfig: SwitchContext(flagContext, false).                          *)
Select(p) ==
    /\ pc[p] = "select" /\ cmd[p] # "setup"
    /\ \/ /\ flag[p] \in {None, mem[p].current}
          /\ Goto(p, "run")
          /\ UNCHANGED <<mem, then>>
       \/ /\ flag[p] # None /\ flag[p] \notin Defined(mem[p])
          /\ Goto(p, "failed")
          /\ UNCHANGED <<mem, then>>
       \/ /\ flag[p] \in Defined(mem[p]) \ {mem[p].current}
          /\ SetCurrent(p, flag[p])
          /\ SaveThen(p, "run")
    /\ UNCHANGED <<file, using, localVars, known, clean, late>>

Finish(p) ==
    /\ pc[p] = "run" /\ cmd[p] \in {"tunnel", "ctx"}
    /\ Goto(p, "done")
    /\ UNCHANGED <<file, mem, using, then, localVars, known, clean, late>>

(* The s key of a tunnel flips the flag of its context and saves.          *)
Toggle(p) ==
    /\ pc[p] = "run" /\ cmd[p] = "tunnel" /\ using[p] # None
    /\ mem' = [mem EXCEPT ![p] = Flipped(@, using[p])]
    /\ SaveThen(p, "resume")
    /\ UNCHANGED <<file, using, localVars, known, clean, late>>

-----------------------------------------------------------------------------
(* StopAllWorkstations selects one context after the other, for good, and  *)
(* goes back to the current one.                                           *)
StopAll(p) ==
    /\ pc[p] = "run" /\ cmd[p] = "stopAll"
    /\ back' = [back EXCEPT ![p] = mem[p].current]
    /\ left' = [left EXCEPT ![p] = Defined(mem[p])]
    /\ Goto(p, "stopNext")
    /\ UNCHANGED <<file, mem, using, then, cmd, flag, path, found, known, clean, late>>

SelectNext(p) ==
    /\ pc[p] = "stopNext"
    /\ \E c \in left[p] :
         /\ left' = [left EXCEPT ![p] = @ \ {c}]
         /\ SetCurrent(p, c)
    /\ SaveThen(p, "stopOne")
    /\ UNCHANGED <<file, using, cmd, flag, path, back, found, known, clean, late>>

(* StopWorkstation acts on currentContext and reports CurrentContextName.  *)
StopOne(p) ==
    /\ pc[p] = "stopOne"
    /\ Goto(p, "stopNext")
    /\ UNCHANGED <<file, mem, using, then, localVars, known, clean, late>>

(* Mutation of SelectBack: the last context stays selected.                *)
StayThere(p) ==
    /\ pc[p] = "stopNext" /\ left[p] = {}
    /\ Goto(p, "done")
    /\ UNCHANGED <<file, mem, using, then, localVars, known, clean, late>>

(* Without contexts there is nothing to save.                              *)
SelectBack(p) ==
    /\ pc[p] = "stopNext" /\ left[p] = {}
    /\ IF Defined(mem[p]) = {}
       THEN Goto(p, "done") /\ UNCHANGED <<mem, then>>
       ELSE SetCurrent(p, back[p]) /\ SaveThen(p, "back")
    /\ UNCHANGED <<file, using, localVars, known, clean, late>>

-----------------------------------------------------------------------------
(* setup.Run starts the wizard, which edits the context named by --ctx.    *)
(* If there was no file FilePath becomes the directory of the default one. *)
OpenForm(p) ==
    /\ pc[p] = "select" /\ cmd[p] = "setup"
    /\ SetCurrent(p, flag[p])
    /\ path' = [path EXCEPT ![p] = IF @ = "none" THEN "directory" ELSE @]
    /\ Goto(p, "form")
    /\ UNCHANGED <<file, using, then, cmd, flag, left, back, found, known, clean, late>>

(* Mutation of PortIsFree: the port is not compared.                       *)
AnyPortIsFree(p, c, n) == c \in Ctx

(* validateAndSubmit takes a port no other context has.                    *)
PortIsFree(p, c, n) == \A d \in Ctx \ {c} : mem[p].port[d] # n

(* It answers with tea.Quit.  What is in the form then is chosen below, by *)
(* SaveForm; nobody looks at it before.                                    *)
Submit(p) ==
    /\ pc[p] = "form"
    /\ \E c \in Ctx, n \in Port : PortIsFree(p, c, n)
    /\ Goto(p, "quitting")
    /\ UNCHANGED <<file, mem, using, then, localVars, known, clean, late>>

(* Until the loop takes the quit message keys still change the form, and   *)
(* nothing validates it again.                                             *)
TypeLate(p) ==
    /\ pc[p] = "quitting"
    /\ late' = late \cup {p}
    /\ UNCHANGED <<file, pc, mem, using, then, localVars, known, clean>>

(* Mutation of SaveForm: only the new context is kept.                     *)
SaveFormOnly(p) ==
    /\ pc[p] = "quitting"
    /\ \E c \in Ctx, n \in Port :
         mem' = [mem EXCEPT ![p] = WithContext(Nothing, c, n)]
    /\ SaveThen(p, "done")
    /\ UNCHANGED <<file, using, localVars, known, clean, late>>

(* The loop has ended: SaveConfig adds or changes the context and switches *)
(* to it.                                                                  *)
SaveForm(p) ==
    /\ pc[p] = "quitting"
    /\ \E c \in Ctx, n \in Port :
         /\ p \in late \/ PortIsFree(p, c, n)
         /\ mem' = [mem EXCEPT ![p] = WithContext(@, c, n)]
    /\ SaveThen(p, "done")
    /\ UNCHANGED <<file, using, localVars, known, clean, late>>

(* Esc, also after the form was submitted.                                 *)
Abort(p) ==
    /\ pc[p] \in {"form", "quitting"}
    /\ Goto(p, "done")
    /\ UNCHANGED <<file, mem, using, then, localVars, known, clean, late>>

-----------------------------------------------------------------------------
(* save: os.WriteFile truncates, then writes.                              *)
SaveTruncates(p) ==
    /\ pc[p] = "truncate" /\ path[p] = "file"
    /\ file' = Nothing
    /\ Goto(p, "write")
    /\ UNCHANGED <<mem, using, then, localVars, known, clean, late>>

(* Mutation of AfterSave: a toggle leaves the command where it saves.      *)
AfterSaveAsIs(l) == l

AfterSave(l) == IF l = "resume" THEN "run" ELSE IF l = "back" THEN "done" ELSE l

(* After a save SwitchContext moves currentContext to the name it has set. *)
SaveWrites(p) ==
    /\ pc[p] = "write"
    /\ file' = mem[p]
    /\ known' = known \cup Defined(mem[p])
    /\ using' = [using EXCEPT ![p] = mem[p].current]
    /\ Goto(p, AfterSave(then[p]))
    /\ UNCHANGED <<mem, then, localVars, clean, late>>

(* Mutation of AfterFailure: stop --all doesn't look at the error.         *)
AfterFailureGoOn(l) ==
    IF l = "resume" THEN "run"
    ELSE IF l = "stopOne" THEN "stopOne"
    ELSE IF l = "back" THEN "done"
    ELSE "failed"

(* The tunnel only notes that it could not save, stop --all tries the next *)
(* context and, in the end, discards the error of going back; the others   *)
(* fail.                                                                   *)
AfterFailure(l) ==
    IF l = "resume" THEN "run"
    ELSE IF l = "stopOne" THEN "stopNext"
    ELSE IF l = "back" THEN "done"
    ELSE "failed"

(* The file cannot be opened, or the disk is full and nothing is written.  *)
(* A directory can never be opened for writing.                            *)
SaveFails(p) ==
    /\ "io" \in Faults \/ path[p] = "directory"
    /\ pc[p] \in {"truncate", "write"}
    /\ Goto(p, AfterFailure(then[p]))
    /\ clean' = (clean /\ pc[p] = "truncate")
    /\ UNCHANGED <<file, mem, using, then, localVars, known, late>>

Crash(p) ==
    /\ "crash" \in Faults /\ Active(p)
    /\ Goto(p, "crashed")
    /\ clean' = (clean /\ pc[p] # "write")
    /\ UNCHANGED <<file, mem, using, then, localVars, known, late>>

Next == \E p \in Proc :
    \/ Start(p) \/ LoadNothing(p) \/ Load(p) \/ Select(p) \/ Finish(p) \/ Toggle(p)
    \/ StopAll(p) \/ SelectNext(p) \/ StopOne(p) \/ SelectBack(p)
    \/ OpenForm(p) \/ Submit(p) \/ TypeLate(p) \/ SaveForm(p) \/ Abort(p)
    \/ SaveTruncates(p) \/ SaveWrites(p) \/ SaveFails(p) \/ Crash(p)

Spec == Init /\ [][Next]_vars

-----------------------------------------------------------------------------
(* A command acts upon the context it names, also after a switch that      *)
(* could not be saved: currentContext and CurrentContextName never         *)
(* disagree where a command uses them (config.go 249-257, client.go 465).  *)
UsesNamed == \A p \in Proc : pc[p] \in {"run", "stopOne"} => using[p] = mem[p].current

(* No two contexts of the file share a local port, although the wizard     *)
(* compares with its own copy and commands overwrite each other's files    *)
(* (setup/update.go 243-250), unless a key came between the comparison and *)
(* the end of the wizard's loop (271).                                     *)
UniquePorts ==
    late = {} =>
        /\ file # Missing => PortsDiffer(file)
        /\ \A p \in Proc : PortsDiffer(mem[p])

(* What a command saves names a current context that is defined, whatever  *)
(* the user or an interrupted command has left in the file (config.go      *)
(* 147-158).                                                               *)
SavesAreUsable ==
    \A p \in Proc : pc[p] \in {"truncate", "write"} => mem[p].current \in Defined(mem[p])

(* If commands don't overlap and no save is cut short no context is ever   *)
(* lost, whatever fails: every save writes all of them.                    *)
ContextsSurvive ==
    clean /\ file # Missing /\ (\A p \in Proc : pc[p] # "write") => known \subseteq Defined(file)

(* stop --all, when it has come to its end, has left the current context   *)
(* in the file as it found it (client.go 462-463), unless the very save    *)
(* that should do so fails: that error is discarded.  A switch that failed *)
(* on the way is no reason.                                                *)
StopAllComesBack ==
    [][\A p \in Proc :
         cmd[p] = "stopAll" /\ flag[p] = None /\ Defined(mem[p]) # {}
             /\ pc[p] # "done" /\ pc'[p] = "done"
           => file'.current = found[p] \/ (SaveFails(p) /\ then[p] = "back")]_vars

=============================================================================
