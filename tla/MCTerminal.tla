------------------------------ MODULE MCTerminal ------------------------------
(* Small instances of Terminal for TLC.                                     *)
EXTENDS Terminal
CONSTANTS r1, blank, prompt
=============================================================================
