----------------------------- MODULE MCAiActions -----------------------------
(* Small instances of AiActions for TLC.                                      *)
EXTENDS AiActions, TLC

CONSTANTS t1, t2, a1, a2

\* One action about both tasks, one about a task they share.
TwoActions == a1 :> <<t1, t2>> @@ a2 :> <<t2>>
\* Two edits of one task.
TwiceOne   == a1 :> <<t1, t1>>
Symmetry   == Permutations(Requests)
==============================================================================
