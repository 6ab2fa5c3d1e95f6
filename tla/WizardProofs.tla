----------------------------- MODULE WizardProofs -----------------------------
(***************************************************************************)
(* Proofs about Wizard for any lists of projects and workstations, filters *)
(* and ports: the form names a workstation, a choice is one the user sees, *)
(* and what is saved was validated.                                        *)
(***************************************************************************)
EXTENDS Wizard, FiniteSetTheorems, TLAPS

(* Each call belongs to a step, and the form waits for none.               *)
CallsFit ==
    /\ pending = "login" => step = "login"
    /\ pending = "projects" => step = "project"
    /\ pending = "workstations" => step = "config"

(* What is listed before the answer is of another kind; once there is      *)
(* something to choose, no call and no message is in its place.            *)
Shown ==
    /\ step = "login" => listed = {} /\ items = {}
    /\ step = "project" => listed \subseteq Project /\ items \subseteq Project
    /\ step = "project" /\ (listed # {} \/ items # {}) => pending = "none" /\ status = "none"
    /\ step = "config" /\ (listed \cup items) \cap Workstation # {} => pending = "none" /\ status = "none"

Named ==
    /\ step \in {"config", "form"} => project \in Project
    /\ step = "form" => machine \in Workstation /\ pending = "none"

Submitted ==
    /\ quitting /\ ~aborted /\ ~late =>
        Validates(form) /\ form.hosts \in {"empty", "file"} /\ step = "form"
    /\ ended = "saved" => quitting /\ ~aborted

WizardInv == WizardOK /\ CallsFit /\ Shown /\ Named /\ Submitted

-----------------------------------------------------------------------------
LEMMA SomeItems ==
    ASSUME NEW S \in SUBSET All
    PROVE  Cardinality(S) \in Nat /\ (S # {} <=> Cardinality(S) > 0)
<1>1. IsFiniteSet(S)
  BY WizardAssumption, FS_Subset
<1>2. Cardinality(S) \in Nat /\ (Cardinality(S) = 0 <=> S = {})
  BY <1>1, FS_CardinalityType, FS_EmptySet
<1> QED
  BY <1>2

(* The one that is listed is chosen.                                       *)
LEMMA OnlyItem ==
    ASSUME NEW S \in SUBSET All, Cardinality(S) = 1
    PROVE  (CHOOSE x \in S : TRUE) \in S
BY SomeItems

(* Whatever the cursor was, it is on an item if there is one.              *)
LEMMA FilterType ==
    ASSUME NEW S \in SUBSET All, NEW f \in Filter \cup {All}, NEW c \in Nat, ApplyFilter(S, f, c)
    PROVE  /\ listed' \subseteq All /\ items' \subseteq All /\ items' \subseteq listed'
           /\ listed' = S /\ cursor' \in Nat /\ filterInput' \in Filter \cup {All}
           /\ items' # {} => cursor' < Cardinality(items')
<1>1. S \cap f \in SUBSET All
  OBVIOUS
<1>2. Cardinality(S \cap f) \in Nat /\ (S \cap f # {} <=> Cardinality(S \cap f) > 0)
  BY <1>1, SomeItems
<1> QED
  BY <1>1, <1>2 DEF ApplyFilter

LEMMA FormType ==
    ASSUME NEW f \in Form
    PROVE  /\ [f EXCEPT !.name = TRUE] \in Form
           /\ [f EXCEPT !.hosts = "file"] \in Form
BY DEF Form

LEMMA WizardInvInit == WizardInit => WizardInv
<1> SUFFICES ASSUME WizardInit PROVE WizardInv
    OBVIOUS
<1>1. form \in Form /\ focus \in Name .. Submit
  BY DEF WizardInit, FirstForm, Name, Submit
<1>2. WizardOK
  BY <1>1 DEF WizardInit, FirstForm, WizardOK, None
<1> QED
  BY <1>2 DEF WizardInit, FirstForm, WizardInv, CallsFit, Shown, Named, Submitted

LEMMA WizardInvStep == WizardInv /\ [WizardNext]_wizard => WizardInv'
<1> SUFFICES ASSUME WizardInv, [WizardNext]_wizard PROVE WizardInv'
    OBVIOUS
<1>t. WizardOK
  BY DEF WizardInv
<1> USE DEF WizardInv, WizardOK, CallsFit, Shown, Named, Submitted, list, fields, input, exit
<1>1. CASE AuthURL \/ LoginAnswers \/ CallFails
  <2>1. CASE AuthURL
    BY <2>1 DEF AuthURL
  <2>2. CASE LoginAnswers
    BY <2>2 DEF LoginAnswers, Answered
  <2>3. CASE CallFails
    BY <2>3 DEF CallFails
  <2> QED
    BY <1>1, <2>1, <2>2, <2>3
<1>2. CASE Escape
  BY <1>2 DEF Escape, KeyAt, Late
<1>3. CASE Navigate
  BY <1>3 DEF Navigate, FormKey, KeyAt, Late, Name, Submit
<1>4. CASE Type
  BY <1>4 DEF Type, FormKey, KeyAt, Late
<1>5. CASE OpenPicker
  BY <1>5 DEF OpenPicker, FormKey, KeyAt, Late
<1>6. CASE PickFile
  <2>1. form' \in Form
    BY <1>6, <1>t, FormType DEF PickFile
  <2>2. late' \in BOOLEAN /\ (quitting /\ ~aborted => late')
    BY <1>6 DEF PickFile, Late
  <2>3. UNCHANGED <<step, pending, status, url, listed, items, cursor, filterInput, project, machine, focus,
                    quitting, aborted, ended>> /\ picker' \in BOOLEAN /\ ended = "no"
    BY <1>6 DEF PickFile, KeyAt
  <2> QED
    BY <2>1, <2>2, <2>3
<1>7. CASE SubmitFails \/ SubmitCrashes
  BY <1>7 DEF SubmitFails, SubmitCrashes, FormKey, KeyAt, Late
<1>8. CASE SubmitQuits
  BY <1>8 DEF SubmitQuits, FormKey, KeyAt
<1>9. CASE Quit
  BY <1>9 DEF Quit
<1>10. CASE UNCHANGED wizard
  BY <1>10 DEF wizard
<1>11. CASE ProjectsAnswer
  <2> SUFFICES ASSUME NEW S \in SUBSET Project,
                 IF Cardinality(S) = 1
                 THEN /\ SelectProject(CHOOSE p \in S : TRUE)
                      /\ listed' = {} /\ items' = {}
                      /\ UNCHANGED machine
                 ELSE /\ step' = "project" /\ status' = "none" /\ pending' = "none"
                      /\ ApplyFilter(S, filterInput, cursor)
                      /\ UNCHANGED <<project, machine>>
               PROVE  WizardInv'
    BY <1>11 DEF ProjectsAnswer
  <2>1. pending = "projects" /\ ended = "no" /\ UNCHANGED <<url, form, focus, picker, quitting, aborted, ended, late>>
    BY <1>11 DEF ProjectsAnswer, Answered
  <2>2. S \in SUBSET All /\ step = "project" /\ (quitting /\ ~aborted => late)
    BY <2>1 DEF All
  <2>3. CASE Cardinality(S) = 1
    <3>1. (CHOOSE p \in S : TRUE) \in Project
      BY <2>2, <2>3, OnlyItem
    <3>2. project' \in Project /\ step' = "config" /\ status' = "wait" /\ pending' = "workstations"
          /\ filterInput' = All /\ cursor' = 0 /\ listed' = {} /\ items' = {} /\ UNCHANGED machine
      BY <2>3, <3>1 DEF SelectProject
    <3> QED
      BY <2>1, <2>2, <3>2
  <2>4. CASE Cardinality(S) # 1
    <3>1. ApplyFilter(S, filterInput, cursor)
      BY <2>4
    <3>2. /\ listed' \subseteq All /\ items' \subseteq All /\ items' \subseteq listed'
          /\ listed' = S /\ cursor' \in Nat /\ filterInput' \in Filter \cup {All}
          /\ items' # {} => cursor' < Cardinality(items')
      BY <2>2, <3>1, FilterType
    <3> QED
      BY <2>1, <2>2, <2>4, <3>2
  <2> QED
    BY <2>3, <2>4
<1>12. CASE WorkstationsAnswer
  <2> SUFFICES ASSUME NEW S \in SUBSET Workstation,
                 IF Cardinality(S) = 1
                 THEN /\ SelectWorkstation(CHOOSE w \in S : TRUE, project)
                      /\ listed' = S /\ UNCHANGED <<items, cursor, filterInput>>
                 ELSE /\ step' = "config" /\ status' = "none"
                      /\ ApplyFilter(S, filterInput, cursor)
                      /\ UNCHANGED fields
               PROVE  WizardInv'
    BY <1>12 DEF WorkstationsAnswer
  <2>1. /\ pending = "workstations" /\ pending' = "none" /\ ended = "no"
        /\ UNCHANGED <<url, focus, picker, quitting, aborted, ended, late>>
    BY <1>12 DEF WorkstationsAnswer, Answered
  <2>2. S \in SUBSET All /\ step = "config" /\ (quitting /\ ~aborted => late)
    BY <2>1 DEF All
  <2>3. CASE Cardinality(S) = 1
    <3>1. (CHOOSE w \in S : TRUE) \in Workstation
      BY <2>2, <2>3, OnlyItem
    <3>2. form' \in Form
      BY <1>t, <2>3, FormType DEF SelectWorkstation
    <3>3. step' = "form" /\ status' = "none" /\ machine' \in Workstation /\ project' = project
          /\ listed' = S /\ UNCHANGED <<items, cursor, filterInput>>
      BY <2>3, <3>1 DEF SelectWorkstation
    <3> QED
      BY <2>1, <2>2, <3>2, <3>3
  <2>4. CASE Cardinality(S) # 1
    <3>1. ApplyFilter(S, filterInput, cursor)
      BY <2>4
    <3>2. /\ listed' \subseteq All /\ items' \subseteq All /\ items' \subseteq listed'
          /\ listed' = S /\ cursor' \in Nat /\ filterInput' \in Filter \cup {All}
          /\ items' # {} => cursor' < Cardinality(items')
      BY <2>2, <3>1, FilterType
    <3> QED
      BY <2>1, <2>2, <2>4, <3>2
  <2> QED
    BY <2>3, <2>4
<1>13. CASE Browse
  <2>1. PICK c \in {cursor - 1, cursor, cursor + 1}, f \in Filter \cup {filterInput} :
             (c < cursor => c >= 0) /\ ApplyFilter(Listable, f, c)
    BY <1>13 DEF Browse
  <2>2. c \in Nat /\ f \in Filter \cup {All}
    BY <1>t, <2>1
  <2>3. Listable \in SUBSET All /\ Listable \subseteq listed /\ Listable \subseteq (IF step = "config" THEN Workstation ELSE Project)
    BY <1>t DEF Listable, All
  <2>4. /\ listed' \subseteq All /\ items' \subseteq All /\ items' \subseteq listed'
        /\ listed' = Listable /\ cursor' \in Nat /\ filterInput' \in Filter \cup {All}
        /\ items' # {} => cursor' < Cardinality(items')
    BY <2>1, <2>2, <2>3, FilterType
  <2>5. late' \in BOOLEAN /\ (quitting /\ ~aborted => late') /\ step \in {"project", "config"} /\ ended = "no"
        /\ UNCHANGED <<step, pending, status, url, project, machine, form, focus, picker, quitting, aborted, ended>>
    BY <1>13 DEF Browse, Late, KeyAt
  <2> QED
    BY <2>3, <2>4, <2>5
<1>14. CASE Choose
  <2>1. late' \in BOOLEAN /\ (quitting /\ ~aborted => late') /\ ended = "no"
        /\ UNCHANGED <<url, focus, picker, quitting, aborted, ended>>
    BY <1>14 DEF Choose, Late, KeyAt
  <2>x. PICK x \in items :
             \/ step = "project" /\ x \in Project /\ SelectProject(x) /\ UNCHANGED <<listed, items, machine, form>>
             \/ step = "config" /\ x \in Workstation /\ SelectWorkstation(x, project) /\ UNCHANGED <<pending, list>>
    BY <1>14 DEF Choose, ItemAt
  <2>2. CASE step = "project" /\ x \in Project /\ SelectProject(x) /\ UNCHANGED <<listed, items, machine, form>>
    <3>1. Cardinality(items) > 0
      BY <1>t, SomeItems
    <3>2. (listed \cup items) \cap Workstation = {}
      BY <2>2, WizardAssumption
    <3> QED
      BY <2>1, <2>2, <3>1, <3>2 DEF SelectProject
  <2>3. CASE step = "config" /\ x \in Workstation /\ SelectWorkstation(x, project) /\ UNCHANGED <<pending, list>>
    <3>1. form' \in Form
      BY <1>t, <2>3, FormType DEF SelectWorkstation
    <3>2. step' = "form" /\ status' = "none" /\ machine' \in Workstation /\ project' = project
      BY <2>3 DEF SelectWorkstation
    <3>3. pending = "none" /\ (quitting /\ ~aborted => late)
      BY <2>3
    <3> QED
      BY <2>1, <2>3, <3>1, <3>2, <3>3
  <2> QED
    BY <2>x, <2>2, <2>3
<1> QED
  BY <1>1, <1>2, <1>3, <1>4, <1>5, <1>6, <1>7, <1>8, <1>9, <1>10, <1>11, <1>12, <1>13, <1>14 DEF WizardNext

LEMMA WizardAlways == WizardSpec => []WizardInv
BY WizardInvInit, WizardInvStep, PTL DEF WizardSpec

(* The variables have their types, and the cursor is on an item.           *)
THEOREM WizardTypes == WizardSpec => []WizardOK
<1>1. WizardInv => WizardOK
  BY DEF WizardInv
<1> QED
  BY <1>1, WizardAlways, PTL

(* Whatever is listed, the form is about a workstation and its project.    *)
THEOREM FormIsNamed == WizardSpec => []FormNamesWorkstation
<1>1. WizardInv => FormNamesWorkstation
  BY DEF WizardInv, Named, FormNamesWorkstation
<1> QED
  BY <1>1, WizardAlways, PTL

(* Whatever is typed, what is saved was validated.                         *)
THEOREM SavesAreValid == WizardSpec => []SavedIsValid
<1>1. WizardInv => SavedIsValid
  BY DEF WizardInv, Submitted, SavedIsValid
<1> QED
  BY <1>1, WizardAlways, PTL

(* A step is left by a key only while its list is on the screen: the items *)
(* of the step before, which stay for a while, are never taken for those   *)
(* of the next.                                                            *)
THEOREM ChoicesAreSeen == WizardSpec => ChoiceIsSeen
<1> DEFINE Seen == step' # step /\ ~ByAnswer => status = "none"
<1>1. WizardInv /\ [WizardNext]_wizard => [Seen]_wizard
  <2> SUFFICES ASSUME WizardInv, WizardNext, step' # step, pending = "none" \/ pending' = pending
               PROVE  status = "none"
    BY DEF ByAnswer
  <2> USE DEF WizardInv, CallsFit, Shown, list, fields
  <2>1. CASE Choose
    <3>1. PICK x \in items :
             \/ step = "project" /\ x \in Project
             \/ step = "config" /\ x \in Workstation
      BY <2>1 DEF Choose, ItemAt
    <3> QED
      BY <3>1
  <2>2. CASE LoginAnswers \/ ProjectsAnswer
    <3>1. pending \in {"login", "projects"}
      BY <2>2 DEF LoginAnswers, ProjectsAnswer, Answered
    <3>2. CASE LoginAnswers
      BY <3>1, <3>2 DEF LoginAnswers, Answered
    <3>3. CASE ProjectsAnswer
      BY <3>1, <3>3 DEF ProjectsAnswer, Answered, SelectProject
    <3> QED
      BY <2>2, <3>2, <3>3
  <2>3. CASE WorkstationsAnswer
    BY <2>3 DEF WorkstationsAnswer, Answered
  <2>4. CASE AuthURL \/ CallFails \/ Escape \/ Browse \/ Quit
    BY <2>4 DEF AuthURL, CallFails, Escape, Browse, Quit
  <2>5. CASE Navigate \/ Type \/ OpenPicker \/ PickFile
    BY <2>5 DEF Navigate, Type, OpenPicker, PickFile
  <2>6. CASE SubmitFails \/ SubmitCrashes \/ SubmitQuits
    BY <2>6 DEF SubmitFails, SubmitCrashes, SubmitQuits
  <2> QED
    BY <2>1, <2>2, <2>3, <2>4, <2>5, <2>6 DEF WizardNext
<1> QED
  BY <1>1, WizardAlways, PTL DEF WizardSpec, ChoiceIsSeen
=============================================================================
