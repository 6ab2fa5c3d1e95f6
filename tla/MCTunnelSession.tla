-------------------------- MODULE MCTunnelSession --------------------------
(***************************************************************************)
(* TunnelSession for TLC.  The specification is finite as it stands; the   *)
(* configurations differ in the faults they allow.                         *)
(***************************************************************************)
EXTENDS TunnelSession

TerminalCloses == {"hangup"}
=============================================================================
