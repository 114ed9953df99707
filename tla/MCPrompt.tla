------------------------------ MODULE MCPrompt ------------------------------
(* Small instances of Prompt for TLC.                                       *)
EXTENDS Prompt
=============================================================================
