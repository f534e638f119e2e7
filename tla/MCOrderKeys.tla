---------------------------- MODULE MCOrderKeys -----------------------------
(* Small instances of OrderKeys for TLC.                                      *)
EXTENDS OrderKeys, TLC

CONSTANTS r1, r2

SomeStarts == {<<1, 1, 1>>}
Symmetry   == Permutations(Requests)

\* An entry that was taken back decides nothing any more: what it says is not told apart.
Told == <<place, dead, gone, given, req,
          [n \in DOMAIN log |-> IF log[n].undone THEN None ELSE log[n]]>>
=============================================================================
