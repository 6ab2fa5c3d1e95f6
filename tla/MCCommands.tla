------------------------------ MODULE MCCommands ------------------------------
(***************************************************************************)
(* The commands for TLC, each with the instance of its own module.         *)
(***************************************************************************)
EXTENDS Commands, MCListing, MCTransfer, MCKnownHosts, MCRelease, MCUpdater

=============================================================================
