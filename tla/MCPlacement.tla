---------------------------- MODULE MCPlacement -----------------------------
(* Small instances of Placement for TLC.                                      *)
EXTENDS Placement, TLC

CONSTANTS s1, s2, s3, p1, p2

TwoProjects == [s \in Sections |-> IF s = s3 THEN p2 ELSE p1]
Symmetry    == Permutations(Sessions)
=============================================================================
