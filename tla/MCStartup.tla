------------------------------ MODULE MCStartup ------------------------------
(* Small instances of Startup for TLC.                                      *)
EXTENDS Startup
CONSTANTS c1, c2, c3
=============================================================================
