----------------------------- MODULE MCJobEngine -----------------------------
(* Small instances of JobEngine for TLC.                                      *)
EXTENDS JobEngine, TLC

CONSTANTS j1, j2, p1, p2, task1

OneSleep   == {2}
SharedSlot == [j \in Jobs |-> task1]
Symmetry   == Permutations(Passes) \cup Permutations(Jobs)

\* Views that leave out variables on which nothing else depends.  Nothing reads
\* applied and overlapped, and UndoAll alone reads undone.  The properties of
\* engine_jobs do not mention undone, and of the writes of a job in overlapped
\* they say nothing; those of engine_batch mention none of the three.
Visible ==
    <<runVars, row, world, passVars,
      [j \in Jobs |-> IF j \in overlapped THEN <<>> ELSE applied[j]]>>
Decisive ==
    <<runVars, row, enabled, due, passVars>>
==============================================================================
