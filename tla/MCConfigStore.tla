---------------------------- MODULE MCConfigStore ----------------------------
(***************************************************************************)
(* ConfigStore for TLC: two commands, two contexts and two ports.  None of *)
(* the three is distinguished from its like.                               *)
(***************************************************************************)
EXTENDS ConfigStore, TLC

AnyOrder == Permutations(Proc) \cup Permutations(Ctx) \cup Permutations(Port)

AllFaults == {"io", "crash"}
NoFaults == {}
=============================================================================
