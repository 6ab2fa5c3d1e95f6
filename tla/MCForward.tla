------------------------------ MODULE MCForward ------------------------------
(***************************************************************************)
(* Forward for TLC.  Connections are interchangeable in safety runs.       *)
(***************************************************************************)
EXTENDS Forward, TLC

=============================================================================
