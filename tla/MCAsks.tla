------------------------------- MODULE MCAsks -------------------------------
(* Small instances of Asks for TLC.                                           *)
EXTENDS Asks
==============================================================================
