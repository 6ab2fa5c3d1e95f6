-------------------------- MODULE MCShutdownPrompt --------------------------
(***************************************************************************)
(* ShutdownPrompt for TLC: the tunnel command with a countdown of three    *)
(* seconds of two time units each and up to three openings of the prompt,  *)
(* so that two stale chains of ticks can meet a third prompt.              *)
(***************************************************************************)
EXTENDS ShutdownPrompt
=============================================================================
