------------------------------ MODULE MCOutbox ------------------------------
(* Instances of Outbox for TLC.                                               *)
EXTENDS Outbox, TLC

Interchangeable == Permutations(Workers)
=============================================================================
