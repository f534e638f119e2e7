------------------------------ MODULE JobPromise ------------------------------
(* What a durable job promises to the person who asked for it, and all they   *)
(* can see of it: the writes of its steps appear one step after the other,    *)
(* each once; a step starts only while the job is working and runs alone; a   *)
(* job that ended starts nothing until it is retried.  How passes, replays,   *)
(* crashes and sweeps bring that about is the business of JobEngine.          *)
(*                                                                            *)
(* The promise has an end: once two passes dispute a job, because it was      *)
(* claimed or retried under the one that still held it, nothing is promised   *)
(* of its writes any more.                                                    *)
EXTENDS Integers

CONSTANT NumSteps

Steps == 1 .. NumSteps

VARIABLES
    phase,      \* "parked" (not claimed), "working", "ended" or "disputed"
    inflight,   \* a step's body is running
    writes      \* [Steps -> how often the step's writes have been made]

vars == <<phase, inflight, writes>>

Init ==
    /\ phase = "parked"
    /\ inflight = FALSE
    /\ writes = [k \in Steps |-> 0]

\* The next step of the program, and only that one, writes.
WriteNext ==
    \E k \in Steps :
        /\ \A n \in Steps : writes[n] = IF n < k THEN 1 ELSE 0
        /\ writes' = [writes EXCEPT ![k] = 1]

Work   == phase = "parked" /\ ~inflight /\ phase' = "working" /\ UNCHANGED <<inflight, writes>>
Start  == phase = "working" /\ ~inflight /\ inflight' = TRUE /\ UNCHANGED <<phase, writes>>
Commit == inflight /\ inflight' = FALSE /\ WriteNext /\ UNCHANGED phase
Abort  == inflight /\ inflight' = FALSE /\ UNCHANGED <<phase, writes>>
Park   == phase = "working" /\ phase' = "parked" /\ UNCHANGED <<inflight, writes>>
End    == phase \in {"parked", "working"} /\ phase' = "ended" /\ UNCHANGED <<inflight, writes>>
Reopen == phase = "ended" /\ ~inflight /\ phase' = "parked" /\ UNCHANGED <<inflight, writes>>

\* A wait that came true while the job was parked is recorded for it.
Met    == phase = "parked" /\ ~inflight /\ WriteNext /\ UNCHANGED <<phase, inflight>>

Dispute ==
    phase \in {"parked", "ended"} /\ phase' = "disputed" /\ UNCHANGED <<inflight, writes>>
NoPromise ==
    phase = "disputed" /\ phase' = "disputed"
    /\ inflight' \in BOOLEAN /\ writes' \in [Steps -> 0 .. 2]

Next ==
    \/ Work \/ Start \/ Commit \/ Abort \/ Park \/ End \/ Reopen \/ Met
    \/ Dispute \/ NoPromise

Spec == Init /\ [][Next]_vars
==============================================================================
