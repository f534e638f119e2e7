------------------------------- MODULE MCRules -------------------------------
(* Small instances of Rules for TLC: two rules that set each other off, one   *)
(* of which also queues an AI step.                                           *)
EXTENDS Rules, TLC

CONSTANTS r1, r2, moved, filled

PingPongOn   == (r1 :> moved) @@ (r2 :> filled)
PingPongDoes == (r1 :> filled) @@ (r2 :> moved)
=============================================================================
