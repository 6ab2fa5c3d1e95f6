------------------------------ MODULE MCUpdater ------------------------------
(***************************************************************************)
(* Updater for TLC: what may fail.                                         *)
(***************************************************************************)
EXTENDS Updater

OneAtATime == {"io", "rollback", "crash"}
OnlyCrashes == {"crash"}
=============================================================================
