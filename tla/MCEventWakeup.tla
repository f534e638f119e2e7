---------------------------- MODULE MCEventWakeup ----------------------------
(* A small instance of EventWakeup for TLC.                                   *)
EXTENDS EventWakeup, TLC
=============================================================================
