-------------------------------- MODULE Wizard --------------------------------
(***************************************************************************)
(* The setup wizard (internal/setup): log in, choose a project, choose a   *)
(* workstation, fill in a form, save.  One action per message of           *)
(* Model.Update; the calls to Google run in the background and answer with *)
(* a message.  `pending' is the call that has not answered.                *)
(*                                                                         *)
(* Of the form's ten fields three have an action of their own; one stands  *)
(* for the others that must not be empty.                                  *)
(***************************************************************************)
EXTENDS Integers, FiniteSets

CONSTANTS Project,      \* projects Google may list
          Workstation,  \* workstations Google may list
          Filter,       \* what may be typed in the filter: the set of names that match
          Port,         \* what may be typed as a port
          TakenPort     \* ports of the other contexts

All == Project \cup Workstation
None == -1

ASSUME WizardAssumption ==
    /\ Project \subseteq Nat /\ Workstation \subseteq Nat /\ Project \cap Workstation = {}
    /\ Filter \subseteq SUBSET All
    /\ IsFiniteSet(All)
    /\ Port \subseteq Nat /\ TakenPort \subseteq Nat

VARIABLES step,         \* Step
          pending,      \* the call that will answer
          status,       \* StatusMessage, which hides the lists: none, a wait or an error
          url,          \* AuthURL is known
          listed,       \* Projects or Workstations, as the last answer had them
          items,        \* FilteredItems; they are sorted
          cursor,       \* ListCursor
          filterInput,  \* FilterInput
          project,      \* the form's project
          machine,      \* the form's cluster, config and name
          form,         \* the form's other fields
          focus,        \* Focused
          picker,       \* FilePickerActive
          quitting,     \* tea.Quit is on its way
          aborted,      \* Aborted
          ended,        \* how the program ended
          late          \* history: a key was taken after the form was submitted

list == <<listed, items, cursor, filterInput>>
fields == <<project, machine, form>>
input == <<focus, picker>>
exit == <<quitting, aborted, ended, late>>
wizard == <<step, pending, status, url, list, fields, input, exit>>

Name == 0
PortField == 1
HostsField == 2
Other == 3
Submit == 4

Form == [name: BOOLEAN, port: Port, filled: BOOLEAN,
         hosts: {"empty", "file", "absent", "directory", "unreadable"}]

WizardOK ==
    /\ step \in {"login", "project", "config", "form"}
    /\ pending \in {"none", "login", "projects", "workstations"}
    /\ status \in {"none", "wait", "error"}
    /\ listed \subseteq All /\ items \subseteq All
    /\ cursor \in Nat
    /\ filterInput \in Filter \cup {All}
    /\ project \in Project \cup {None} /\ machine \in Workstation \cup {None}
    /\ form \in Form
    /\ focus \in Name .. Submit
    /\ {url, picker, quitting, aborted, late} \subseteq BOOLEAN
    /\ ended \in {"no", "saved", "aborted", "crashed"}
    /\ items # {} => cursor < Cardinality(items)

(* A new context, or an existing one whose values fill the form.           *)
FirstForm == {f \in Form : f.hosts \in {"empty", "absent", "file"} /\ f.filled}

WizardInit ==
    /\ step = "login" /\ pending = "login" /\ status = "none" /\ url = FALSE
    /\ listed = {} /\ items = {} /\ cursor = 0 /\ filterInput = All
    /\ project = None /\ machine = None
    /\ form \in FirstForm
    /\ focus = Name /\ picker = FALSE
    /\ quitting = FALSE /\ aborted = FALSE /\ ended = "no" /\ late = FALSE

-----------------------------------------------------------------------------
(* The item a cursor is on: as many are sorted before it.                  *)
ItemAt(S, i) == {x \in S : Cardinality({y \in S : y < x}) = i}

(* Mutation of ApplyFilter: the cursor stays where it was.                 *)
ApplyFilterOnly(S, f, c) ==
    /\ listed' = S /\ filterInput' = f
    /\ items' = S \cap f
    /\ cursor' = c

(* applyFilter on what is listed; the cursor must stay on an item.         *)
ApplyFilter(S, f, c) ==
    /\ listed' = S /\ filterInput' = f
    /\ items' = S \cap f
    /\ cursor' = IF c >= Cardinality(S \cap f) THEN 0 ELSE c

(* selectProject: the old items stay until the next message.               *)
SelectProject(p) ==
    /\ project' = p
    /\ step' = "config" /\ status' = "wait" /\ pending' = "workstations"
    /\ filterInput' = All /\ cursor' = 0

(* selectWorkstation: a name the context has already is kept.              *)
SelectWorkstation(w, p) ==
    /\ machine' = w /\ project' = p
    /\ form' = [form EXCEPT !.name = TRUE]
    /\ step' = "form" /\ status' = "none"

Answered(call) == ended = "no" /\ pending = call

(* SendAuthURL, from the login or from one a later call needs.             *)
AuthURL ==
    /\ ended = "no" /\ pending # "none"
    /\ url' = TRUE
    /\ UNCHANGED <<step, pending, status, list, fields, input, exit>>

LoginAnswers ==
    /\ Answered("login")
    /\ step' = "project" /\ status' = "wait" /\ pending' = "projects"
    /\ UNCHANGED <<url, list, fields, input, exit>>

(* ListProjects has answered: a single project is chosen at once.          *)
ProjectsAnswer ==
    /\ Answered("projects")
    /\ \E S \in SUBSET Project :
         IF Cardinality(S) = 1
         THEN /\ SelectProject(CHOOSE p \in S : TRUE)
              /\ listed' = {} /\ items' = {}
              /\ UNCHANGED machine
         ELSE /\ step' = "project" /\ status' = "none" /\ pending' = "none"
              /\ ApplyFilter(S, filterInput, cursor)
              /\ UNCHANGED <<project, machine>>
    /\ UNCHANGED <<url, form, input, exit>>

(* ListWorkstations has answered, with workstations of the project.        *)
WorkstationsAnswer ==
    /\ Answered("workstations")
    /\ pending' = "none"
    /\ \E S \in SUBSET Workstation :
         IF Cardinality(S) = 1
         THEN /\ SelectWorkstation(CHOOSE w \in S : TRUE, project)
              /\ listed' = S /\ UNCHANGED <<items, cursor, filterInput>>
         ELSE /\ step' = "config" /\ status' = "none"
              /\ ApplyFilter(S, filterInput, cursor)
              /\ UNCHANGED fields
    /\ UNCHANGED <<url, input, exit>>

(* Any call may fail; its error stays on the screen and nothing tries again.*)
CallFails ==
    /\ ended = "no" /\ pending # "none"
    /\ pending' = "none" /\ status' = "error"
    /\ UNCHANGED <<step, url, list, fields, input, exit>>

-----------------------------------------------------------------------------
KeyAt(steps) == ended = "no" /\ step \in steps

(* History: a key taken while a submitted form is on its way.              *)
Late == late' = (late \/ (quitting /\ ~aborted))

(* Mutation of Escape: the file picker takes every key.                    *)
EscapePicked ==
    /\ KeyAt({"login", "project", "config", "form"}) /\ ~picker
    /\ Late
    /\ aborted' = TRUE /\ quitting' = TRUE
    /\ UNCHANGED <<step, pending, status, url, list, fields, input, ended>>

(* Esc (Ctrl+C, too, except in the file picker).                           *)
Escape ==
    /\ KeyAt({"login", "project", "config", "form"})
    /\ Late
    /\ IF picker
       THEN picker' = FALSE /\ UNCHANGED <<aborted, quitting>>
       ELSE aborted' = TRUE /\ quitting' = TRUE /\ UNCHANGED picker
    /\ UNCHANGED <<step, pending, status, url, list, fields, focus, ended>>

(* What updateList lists: Projects, or Workstations, which are none before *)
(* the answer.                                                             *)
Listable == IF step = "config" THEN listed \cap Workstation ELSE listed \cap Project

(* Up, down and typing.  Every message ends with applyFilter.              *)
Browse ==
    /\ KeyAt({"project", "config"})
    /\ \E c \in {cursor - 1, cursor, cursor + 1}, f \in Filter \cup {filterInput} :
         /\ c < cursor => c >= 0
         /\ c > cursor => c <= Cardinality(items) - 1
         /\ c # cursor => f = filterInput
         /\ ApplyFilter(Listable, f, c)
    /\ Late
    /\ UNCHANGED <<step, pending, status, url, fields, input, quitting, aborted, ended>>

(* Mutation of Choose: what is under the cursor is taken for what the step *)
(* asks for.                                                               *)
ChooseUnseen ==
    /\ KeyAt({"project", "config"})
    /\ \E x \in ItemAt(items, cursor) :
         IF step = "project"
         THEN SelectProject(x) /\ UNCHANGED <<listed, items, machine, form>>
         ELSE SelectWorkstation(x, project) /\ UNCHANGED <<pending, list>>
    /\ Late
    /\ UNCHANGED <<url, input, quitting, aborted, ended>>

(* Enter on an item of the kind the step asks for.                         *)
Choose ==
    /\ KeyAt({"project", "config"})
    /\ \E x \in ItemAt(items, cursor) :
         \/ /\ step = "project" /\ x \in Project
            /\ SelectProject(x)
            /\ UNCHANGED <<listed, items, machine, form>>
         \/ /\ step = "config" /\ x \in Workstation
            /\ SelectWorkstation(x, project)
            /\ UNCHANGED <<pending, list>>
    /\ Late
    /\ UNCHANGED <<url, input, quitting, aborted, ended>>

FormKey == KeyAt({"form"}) /\ ~picker

(* Tab, arrows, and Enter on a field: the focus goes round.                *)
Navigate ==
    /\ FormKey
    /\ status' = "none"
    /\ focus' \in {(focus + 1) % 5, (focus + 4) % 5}
    /\ Late
    /\ UNCHANGED <<step, pending, url, list, fields, picker, quitting, aborted, ended>>

(* Typing changes the field that has the focus.                            *)
FieldName == [i \in Name .. Other |-> IF i = Name THEN "name" ELSE IF i = PortField THEN "port"
                                      ELSE IF i = HostsField THEN "hosts" ELSE "filled"]

Type ==
    /\ FormKey
    /\ \E f \in Form :
         /\ \A k \in DOMAIN f : f[k] # form[k] => focus # Submit /\ k = FieldName[focus]
         /\ form' = f
    /\ Late
    /\ UNCHANGED <<step, pending, status, url, list, project, machine, input, quitting, aborted, ended>>

(* Ctrl+F on the known_hosts field, and the choice of a file.              *)
OpenPicker ==
    /\ FormKey /\ focus = HostsField
    /\ picker' = TRUE /\ status' = "none"
    /\ Late
    /\ UNCHANGED <<step, pending, url, list, fields, focus, quitting, aborted, ended>>

PickFile ==
    /\ KeyAt({"form"}) /\ picker
    /\ picker' = FALSE
    /\ form' = [form EXCEPT !.hosts = "file"]
    /\ Late
    /\ UNCHANGED <<step, pending, status, url, list, project, machine, focus, quitting, aborted, ended>>

-----------------------------------------------------------------------------
PortValid(f) == f.port \in 1000 .. 65535 /\ f.port \notin TakenPort

(* validateAndSubmit on Enter: the first mistake is shown, or the program  *)
(* quits.  With an error of Stat other than that there is no file it       *)
(* reads a FileInfo it doesn't have.                                       *)
Validates(f) == PortValid(f) /\ f.name /\ f.filled

SubmitFails ==
    /\ FormKey /\ focus = Submit
    /\ ~Validates(form) \/ form.hosts \in {"absent", "directory"}
    /\ status' = "error"
    /\ Late
    /\ UNCHANGED <<step, pending, url, list, fields, input, quitting, aborted, ended>>

SubmitCrashes ==
    /\ FormKey /\ focus = Submit
    /\ Validates(form) /\ form.hosts = "unreadable"
    /\ ended' = "crashed"
    /\ UNCHANGED <<step, pending, status, url, list, fields, input, quitting, aborted, late>>

(* Mutation of SubmitQuits: the file and the fields aren't looked at.      *)
SubmitQuitsByPort ==
    /\ FormKey /\ focus = Submit
    /\ PortValid(form)
    /\ quitting' = TRUE
    /\ UNCHANGED <<step, pending, status, url, list, fields, input, aborted, ended, late>>

SubmitQuits ==
    /\ FormKey /\ focus = Submit
    /\ Validates(form) /\ form.hosts \in {"empty", "file"}
    /\ quitting' = TRUE
    /\ UNCHANGED <<step, pending, status, url, list, fields, input, aborted, ended, late>>

(* The program has taken the quit message; Run saves unless it was aborted.*)
Quit ==
    /\ ended = "no" /\ quitting
    /\ ended' = IF aborted THEN "aborted" ELSE "saved"
    /\ UNCHANGED <<step, pending, status, url, list, fields, input, quitting, aborted, late>>

WizardNext ==
    \/ AuthURL \/ LoginAnswers \/ ProjectsAnswer \/ WorkstationsAnswer \/ CallFails
    \/ Escape \/ Browse \/ Choose
    \/ Navigate \/ Type \/ OpenPicker \/ PickFile
    \/ SubmitFails \/ SubmitCrashes \/ SubmitQuits \/ Quit

WizardSpec == WizardInit /\ [][WizardNext]_wizard

-----------------------------------------------------------------------------
(* The form is reached only with a workstation of the chosen project,      *)
(* although the list of the step before stays until the next message.      *)
FormNamesWorkstation == step = "form" => machine \in Workstation /\ project \in Project

(* A key moves to the next step only from a list the user sees: not while  *)
(* a message that waits or reports an error is shown in its place.         *)
ByAnswer == pending # "none" /\ pending' # pending

ChoiceIsSeen == [][step' # step /\ ~ByAnswer => status = "none"]_wizard

(* What is saved was validated as it is, unless keys were taken between    *)
(* Enter and the end of the loop.                                          *)
SavedIsValid ==
    ended = "saved" /\ ~late => Validates(form) /\ form.hosts \in {"empty", "file"} /\ step = "form"
=============================================================================
