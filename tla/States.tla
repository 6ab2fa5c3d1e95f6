-------------------------------- MODULE States --------------------------------
(***************************************************************************)
(* `gws status': GetWorkstationStates goes round the contexts in the map's *)
(* order, makes each the current one, asks the service for its             *)
(* configuration and its workstation, and goes back                        *)
(* (internal/gcloud/client.go); the table is sorted and may be turned on   *)
(* its side (cmd/status.go).                                               *)
(***************************************************************************)
EXTENDS Naturals, Sequences, SequencesExt

CONSTANTS Context,    \* the contexts, numbered in the order of their names
          WithGCloud  \* those that have a workstation

ASSUME StatesAssumption ==
    IsFiniteSet(Context) /\ Context \subseteq Nat \ {0} /\ WithGCloud \subseteq Context

VARIABLES round,    \* where the command is
          filter,   \* --ctx, or 0: all contexts
          left,     \* contexts the loop has not reached
          turn,     \* the one it is at
          named,    \* Config.CurrentContextName
          current,  \* Config.currentContext
          client,   \* has the shared client been created
          rows,     \* the states, in the order of the loop
          table     \* the table that is rendered

states == <<round, filter, left, turn, named, current, client, rows, table>>

(* A row has its context, which workstation's state it has and what that   *)
(* is, and whether it shows an uptime and a shutdown.                      *)
StateRow ==
    [context : Context, of : Context, is : {"RUNNING", "OTHER", "NOT_FOUND", "UNSPECIFIED"},
     uptime : BOOLEAN, shutdown : BOOLEAN]

StatesOK ==
    /\ round \in {"idle", "loop", "ask", "collected", "rendered"}
    /\ filter \in Context \cup {0} /\ left \subseteq Context
    /\ {turn, named, current} \subseteq Context
    /\ client \in BOOLEAN
    /\ rows \in Seq(StateRow) /\ Len(rows) <= Cardinality(Context)

StatesInit ==
    /\ round = "idle" /\ filter = 0 /\ left = {}
    /\ named \in Context /\ current = named /\ turn = named
    /\ client = FALSE /\ rows = <<>> /\ table = <<>>

(* readConfig: --ctx becomes the current context, for good.                *)
AskAll(c) ==
    /\ round = "idle"
    /\ filter' = c
    /\ left' = Context
    /\ IF c = 0 THEN UNCHANGED <<named, current>> ELSE named' = c /\ current' = c
    /\ round' = "loop"
    /\ UNCHANGED <<turn, client, rows, table>>

Skipped(c) == c \notin WithGCloud \/ filter \notin {0, c}

Skip ==
    /\ round = "loop"
    /\ \E c \in left : Skipped(c) /\ left' = left \ {c}
    /\ UNCHANGED <<round, filter, turn, named, current, client, rows, table>>

(* Mutation of Visit: only a filter makes another context the current one. *)
VisitFiltered(c) ==
    /\ round = "loop" /\ c \in left /\ ~Skipped(c)
    /\ left' = left \ {c} /\ turn' = c
    /\ current' = IF filter = c THEN c ELSE current
    /\ round' = "ask"
    /\ UNCHANGED <<filter, named, client, rows, table>>

(* UseContext changes the current context, but neither its name nor what   *)
(* is saved.                                                               *)
Visit(c) ==
    /\ round = "loop" /\ c \in left /\ ~Skipped(c)
    /\ left' = left \ {c} /\ turn' = c
    /\ current' = c
    /\ round' = "ask"
    /\ UNCHANGED <<filter, named, client, rows, table>>

Add(is, uptime, shutdown) ==
    rows' = Append(rows, [context |-> turn, of |-> current, is |-> is,
                          uptime |-> uptime, shutdown |-> shutdown])

(* setup fails: the login, which the next context tries again, or one of   *)
(* the requests.                                                           *)
AskFails ==
    /\ round = "ask"
    /\ \/ ~client /\ UNCHANGED client /\ Add("UNSPECIFIED", FALSE, FALSE)
       \/ client' = TRUE /\ \E why \in {"UNSPECIFIED", "NOT_FOUND"} : Add(why, FALSE, FALSE)
    /\ round' = "loop"
    /\ UNCHANGED <<filter, left, turn, named, current, table>>

(* setup asks for the current context.  A running workstation that has a   *)
(* start time has an uptime, and an end if its running time is limited.    *)
AskWorks ==
    /\ round = "ask"
    /\ client' = TRUE
    /\ \/ Add("OTHER", FALSE, FALSE)
       \/ \E started, limited \in BOOLEAN : Add("RUNNING", started, started /\ limited)
    /\ round' = "loop"
    /\ UNCHANGED <<filter, left, turn, named, current, table>>

(* The deferred UseContext goes back to the context that is named.         *)
Collect ==
    /\ round = "loop" /\ left = {}
    /\ current' = named
    /\ round' = "collected"
    /\ UNCHANGED <<filter, left, turn, named, client, rows, table>>

Header == <<"CONTEXT", "NAME", "STATE", "UPTIME", "SHUTDOWN">>

(* The current context is marked.                                          *)
Label(c) == <<c, c = named>>

Cells(r) == <<Label(r.context), r.context, [of |-> r.of, is |-> r.is], r.uptime, r.shutdown>>

(* transposeTable, without the column of the names, which are the header.  *)
Transposed(header, body, names) ==
    [header |-> <<"">> \o names,
     body |-> [i \in 1 .. Len(header) |-> <<header[i]>> \o [j \in 1 .. Len(body) |-> body[j][i]]]]

(* The rows are sorted by the names of their contexts.                     *)
Render(transpose) ==
    /\ round = "collected"
    /\ \E p \in SetToSeqs(1 .. Len(rows)) :
        LET sorted == [i \in 1 .. Len(rows) |-> rows[p[i]]]
            body == [i \in 1 .. Len(rows) |-> Cells(sorted[i])]
        IN  /\ \A i \in 1 .. Len(rows) - 1 : sorted[i].context <= sorted[i + 1].context
            /\ table' = IF transpose
                        THEN Transposed(Tail(Header), [i \in 1 .. Len(rows) |-> Tail(body[i])],
                                        [i \in 1 .. Len(rows) |-> Label(sorted[i].context)])
                        ELSE [header |-> Header, body |-> body]
    /\ round' = "rendered"
    /\ UNCHANGED <<filter, left, turn, named, current, client, rows>>

StatesNext ==
    \/ \E c \in Context \cup {0} : AskAll(c)
    \/ Skip \/ AskFails \/ AskWorks \/ Collect
    \/ \E c \in Context : Visit(c)
    \/ \E transpose \in BOOLEAN : Render(transpose)

StatesSpec == StatesInit /\ [][StatesNext]_states

-----------------------------------------------------------------------------
Listed == {c \in WithGCloud : filter \in {0, c}}

(* What the table shows of a context, a row or a column of it.             *)
Shows(i) ==
    IF table.header = Header THEN table.body[i]
    ELSE <<table.header[i + 1]>> \o [k \in 1 .. Len(table.body) |-> table.body[k][i + 1]]

(* Whatever fails on the way, the table has every context that was asked   *)
(* for once, in the order of their names, with the state of its own        *)
(* workstation and nobody else's, whichever way it is turned; it marks     *)
(* the current context, and that is the current one again.                 *)
StatusIsOwn ==
    round = "rendered" =>
        /\ \E names \in SetToSeqs(Listed) :
            /\ \A i, j \in 1 .. Len(names) : i < j => names[i] < names[j]
            /\ Len(rows) = Len(names)
            /\ \A i \in 1 .. Len(names) : \E r \in ToSet(rows) :
                /\ r.context = names[i]
                /\ Shows(i) = <<Label(names[i]), names[i], [of |-> names[i], is |-> r.is],
                               r.uptime, r.shutdown>>
        /\ current = named
=============================================================================
