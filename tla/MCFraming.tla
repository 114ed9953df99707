------------------------------ MODULE MCFraming ------------------------------
(* Small instances of Framing for TLC.                                      *)
EXTENDS Framing
=============================================================================
