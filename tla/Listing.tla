------------------------------- MODULE Listing -------------------------------
(***************************************************************************)
(* The two listings of workstations: `gws list' and `gws ps', which walk   *)
(* the configurations of one cluster, filter and sort (cmd/list.go), and   *)
(* the wizard's, which asks for the usable workstations and, if that       *)
(* fails, walks the whole project (internal/gcloud/client.go).             *)
(*                                                                         *)
(* The service answers page by page through iterators.  An iterator that   *)
(* has failed once fails for ever.                                         *)
(***************************************************************************)
EXTENDS Naturals, Sequences, SequencesExt

CONSTANTS Cluster,   \* the clusters of the project
          Config,    \* the configurations: <<cluster, number>>
          Machine,   \* the workstations: [config, name, user, state, started, created]
          Usable,    \* those the user may use
          Text,      \* the filters: each the set of the words that contain it
          Never,     \* the time of what has not happened
          PerDay     \* units of time in a day

(* Words and times are ordered, states numbered as the service does.       *)
State == [unspecified |-> 0, starting |-> 1, running |-> 2, stopping |-> 3, stopped |-> 4]

ASSUME ListingAssumption ==
    /\ "project" \notin Cluster
    /\ Config \subseteq Cluster \X Nat
    /\ \A m \in Machine :
        /\ m.config \in Config /\ m.name \in Nat /\ m.user \in Nat
        /\ m.state \in 0 .. 4
        /\ m.started \in Nat \cup {Never} /\ m.created \in Nat \cup {Never}
    /\ Usable \subseteq Machine
    /\ Never \notin Nat /\ PerDay \in Nat \ {0}

Sort == {"name", "user", "config", "state", "last-started"}

(* What is asked: the wizard's listing has a project, `gws list' a cluster *)
(* and its flags.                                                          *)
Query == [of : {"project"}] \cup
         [of : Cluster, text : Text, running : BOOLEAN, never : BOOLEAN, sort : Sort]

VARIABLES query,   \* the query, or none
          level,   \* the loop it is in, or how it ended
          todo,    \* what the iterator of each level has not returned yet
          broken,  \* the iterator of this level has failed
          calls,   \* the parity of the calls made to the service
          found,   \* the workstations found, in the order of their arrival
          shown    \* the rows printed

listing == <<query, level, todo, broken, calls, found, shown>>

NoQuery == [of |-> "none"]

Level == {"clusters", "configs", "machines", "usable"}
Ended == {"failed", "listed", "printed"}

ListingOK ==
    /\ query \in Query \cup {NoQuery}
    /\ level \in {"idle"} \cup Level \cup Ended
    /\ todo \in [clusters : SUBSET Cluster, configs : SUBSET Config, machines : SUBSET Machine]
    /\ broken \in BOOLEAN /\ calls \in {0, 1}
    /\ found \in Seq(Machine) /\ shown \in Seq(Machine)

ListInit ==
    /\ query = NoQuery /\ level = "idle"
    /\ todo = [clusters |-> {}, configs |-> {}, machines |-> {}]
    /\ broken = FALSE /\ calls = 0
    /\ found = <<>> /\ shown = <<>>

ConfigsOf(c) == {k \in Config : k[1] = c}
MachinesOf(k) == {m \in Machine : m.config = k}

-----------------------------------------------------------------------------
(* readConfig, the flags and getClient have succeeded.                     *)
Ask(q) ==
    /\ level = "idle"
    /\ query' = q
    /\ IF q.of = "project"
       THEN level' = "usable" /\ todo' = [todo EXCEPT !.machines = Usable]
       ELSE level' = "configs" /\ todo' = [todo EXCEPT !.configs = ConfigsOf(q.of)]
    /\ UNCHANGED <<broken, calls, found, shown>>

Called == ~broken /\ calls' = 1 - calls

(* Every iterator's Next: an item, the end, or an error.                   *)
NextCluster ==
    /\ level = "clusters" /\ Called
    /\ \E c \in todo.clusters :
        todo' = [todo EXCEPT !.clusters = @ \ {c}, !.configs = ConfigsOf(c)]
    /\ level' = "configs"
    /\ UNCHANGED <<query, broken, found, shown>>

NextConfig ==
    /\ level = "configs" /\ Called
    /\ \E k \in todo.configs :
        todo' = [todo EXCEPT !.configs = @ \ {k}, !.machines = MachinesOf(k)]
    /\ level' = "machines"
    /\ UNCHANGED <<query, broken, found, shown>>

NextMachine ==
    /\ level \in {"machines", "usable"} /\ Called
    /\ \E m \in todo.machines :
        /\ todo' = [todo EXCEPT !.machines = @ \ {m}]
        /\ found' = Append(found, m)
    /\ UNCHANGED <<query, level, broken, shown>>

(* Where a loop goes on after its iterator's end.                          *)
Outer == CASE level = "machines" -> "configs"
           [] level = "configs" /\ query.of = "project" -> "clusters"
           [] OTHER -> "listed"

Rest == CASE level = "clusters" -> todo.clusters
          [] level = "configs" -> todo.configs
          [] OTHER -> todo.machines

Done ==
    /\ level \in Level /\ Called
    /\ Rest = {}
    /\ level' = Outer
    /\ UNCHANGED <<query, todo, broken, found, shown>>

(* An error of the list of clusters ends the listing.                      *)
ClustersFail ==
    /\ level = "clusters" /\ Called
    /\ level' = "failed"
    /\ UNCHANGED <<query, todo, broken, found, shown>>

(* Mutation of UsableFails: what was found until then is kept.             *)
UsableFailsHalfway ==
    /\ level = "usable" /\ Called
    /\ level' = "clusters"
    /\ todo' = [todo EXCEPT !.clusters = Cluster, !.machines = {}]
    /\ UNCHANGED <<query, broken, found, shown>>

(* One of the usable workstations starts the nested listing from nothing.  *)
UsableFails ==
    /\ level = "usable" /\ Called
    /\ level' = "clusters"
    /\ todo' = [todo EXCEPT !.clusters = Cluster, !.machines = {}]
    /\ found' = <<>>
    /\ UNCHANGED <<query, broken, shown>>

(* The inner loops only `continue', and get the same error again.          *)
InnerFails ==
    /\ level \in {"configs", "machines"} /\ Called
    /\ broken' = TRUE
    /\ UNCHANGED <<query, level, todo, found, shown>>

FailsAgain ==
    /\ broken /\ calls' = 1 - calls
    /\ UNCHANGED <<query, level, todo, broken, found, shown>>

-----------------------------------------------------------------------------
Alive == {State.running, State.starting, State.stopping}

(* The three filters, one after the other.                                 *)
Passes(m) ==
    /\ m.name \in query.text \/ m.user \in query.text
    /\ query.running => m.state \in Alive
    /\ query.never => m.started = Never

Day(t) == t \div PerDay

(* compareDate: what never happened is last, the newest day first.         *)
CompareDate(a, b) ==
    CASE a = Never /\ b = Never -> 0
      [] a = Never /\ b # Never -> 1
      [] a # Never /\ b = Never -> -1
      [] OTHER -> IF Day(a) = Day(b) THEN 0 ELSE IF Day(a) < Day(b) THEN 1 ELSE -1

Compare(a, b) ==
    CASE query.sort = "name" -> a.name - b.name
      [] query.sort = "user" -> a.user - b.user
      [] query.sort = "config" -> a.config[2] - b.config[2]
      [] query.sort = "state" -> a.state - b.state
      [] OTHER -> LET s == CompareDate(a.started, b.started)
                      c == CompareDate(a.created, b.created)
                  IN  IF s # 0 THEN s ELSE IF c # 0 THEN c ELSE a.name - b.name

(* slices.SortFunc leaves equal rows in any order.                         *)
Sorted(rows) == \A i \in 1 .. Len(rows) - 1 : Compare(rows[i], rows[i + 1]) <= 0

Kept == {i \in 1 .. Len(found) : Passes(found[i])}

ShowTable ==
    /\ level = "listed" /\ query.of # "project"
    /\ \E p \in SetToSeqs(Kept) :
        LET rows == [i \in 1 .. Cardinality(Kept) |-> found[p[i]]]
        IN  Sorted(rows) /\ shown' = rows
    /\ level' = "printed"
    /\ UNCHANGED <<query, todo, broken, calls, found>>

ListWorks ==
    \/ NextCluster \/ NextConfig \/ NextMachine \/ Done
    \/ ClustersFail \/ UsableFails \/ InnerFails \/ FailsAgain \/ ShowTable

ListNext == (\E q \in Query : Ask(q)) \/ ListWorks

ListSpec == ListInit /\ [][ListNext]_listing

ListFairSpec == ListSpec /\ WF_listing(ListWorks)

-----------------------------------------------------------------------------
Wanted ==
    {m \in Machine :
        /\ m.config[1] = query.of
        /\ {m.name, m.user} \cap query.text # {}
        /\ ~(query.running /\ m.state \in {State.unspecified, State.stopped})
        /\ ~(query.never /\ m.started # Never)}

(* a is not printed below b: the day of the last start, that of the        *)
(* creation, and the name decide, in this order, the latest first.         *)
Later(s, t) == s # Never /\ (t = Never \/ Day(s) > Day(t))

NotBelow(a, b) ==
    CASE query.sort = "name" -> a.name <= b.name
      [] query.sort = "user" -> a.user <= b.user
      [] query.sort = "config" -> a.config[2] <= b.config[2]
      [] query.sort = "state" -> a.state <= b.state
      [] OTHER -> \/ Later(a.started, b.started)
                  \/ /\ ~Later(b.started, a.started)
                     /\ \/ Later(a.created, b.created)
                        \/ ~Later(b.created, a.created) /\ a.name <= b.name

Once(seq, set) == Len(seq) = Cardinality(set) /\ ToSet(seq) = set

(* Whatever iterators fail, a listing that ends without an error is        *)
(* complete and has nothing twice: all the usable workstations or, after   *)
(* falling back, all there are; a printed table has each workstation that  *)
(* the flags ask for once, and every two rows are in order.                *)
ListingIsExact ==
    /\ level = "listed" /\ query.of = "project" => Once(found, Usable) \/ Once(found, Machine)
    /\ level = "printed" =>
        /\ Once(shown, Wanted)
        /\ \A i \in 1 .. Len(shown) : \A j \in i + 1 .. Len(shown) : NotBelow(shown[i], shown[j])

(* A listing that was asked for ends, with an error if there was one.      *)
ListingEnds == level \in Level ~> level \in Ended
=============================================================================
