---------------------------- MODULE MCTaskGraph -----------------------------
(* Small instances of TaskGraph for TLC.                                      *)
EXTENDS TaskGraph, TLC

Symmetry == Permutations(Tasks) \cup Permutations(Requests)
=============================================================================
