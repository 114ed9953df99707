---------------------------- MODULE MCDaemonClient ----------------------------
(* Small instances of DaemonClient for TLC.                                 *)
EXTENDS DaemonClient
CONSTANTS r1, r2
=============================================================================
