------------------------------ MODULE MCTransfer ------------------------------
(***************************************************************************)
(* Transfer for TLC: a directory with permissions and one without, files   *)
(* of every kind of permissions in either direction.                       *)
(***************************************************************************)
EXTENDS Transfer

MCDirs == <<[name |-> "ssh", perm |-> "0700"], [name |-> "bin", perm |-> NoPerm]>>

MCFiles ==
    <<[name |-> "key", dir |-> "ssh", perm |-> "0400", up |-> TRUE],
      [name |-> "log", dir |-> "bin", perm |-> NoPerm, up |-> FALSE],
      [name |-> "tool", dir |-> "bin", perm |-> "0500", up |-> TRUE]>>
=============================================================================
