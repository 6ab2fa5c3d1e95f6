----------------------------- MODULE MCKnownHosts -----------------------------
(***************************************************************************)
(* KnownHosts for TLC: two tunnels with a name and a number each, and an   *)
(* address nobody tunnels to.  The old file may have a line of two         *)
(* tunnels, a current one, a stale one and a stranger's.                   *)
(***************************************************************************)
EXTENDS KnownHosts

MCAddressOf == [t \in {1, 2} |-> IF t = 1 THEN {"num1", "name1"} ELSE {"num2", "name2"}]

OldLine(h, k) == [hosts |-> h, key |-> k]

Mixed == {OldLine({"num1", "num2"}, "k1"), OldLine({"name1", "else"}, "k1")}

MCOldFile == {{}, Mixed, Mixed \cup {OldLine({"name1"}, "k2"), OldLine({"else"}, "k2")}}
=============================================================================
