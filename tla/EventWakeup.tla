----------------------------- MODULE EventWakeup -----------------------------
(* Jobs that wait for an event: Job.wait_for_event (agents/jobs/job.py), the  *)
(* consumer wake_on_events and the parts of _finish and tick_jobs that touch  *)
(* such a wait (agents/jobs/engine.py), pause, resume and cancel              *)
(* (agents/jobs/control.py, domain/agents/runs.py).                           *)
(*                                                                            *)
(* A job asks somebody for something in a step, waits for the event that says *)
(* it was done, and ends.  The rest of the engine is in JobEngine; that a second *)
(* pass begins while one still runs is left to it.                            *)
(*                                                                            *)
(* wake_on_events is one transaction: it locks the cursor, reads the waiting  *)
(* jobs without a lock, reads the events, and writes what follows from the    *)
(* rows it read.  Three things can therefore go wrong, and each is recorded:  *)
(*   raced  the row of the job whose event was read changed between that      *)
(*          reading and that writing;                                         *)
(*   late   the event got its id before the cursor passed it and committed    *)
(*          after;                                                            *)
(*   and an event that comes before its job waits is not in heard.            *)
EXTENDS Integers, FiniteSets, Sequences, JobStatus

CONSTANTS
    Jobs,
    MaxEvents,   \* bound: events in the outbox
    MaxTurns     \* bound: pauses, cancellations and crashes

ASSUME BoundsAssumption == MaxEvents \in Nat /\ MaxTurns \in Nat

VARIABLES
    status,   \* agent_runs.status
    wait,     \* waiting_on, see Waits
    asked,    \* the step before the wait is done
    answer,   \* the event recorded as the output of the wait, or 0
    pass,     \* where the job's pass is
    known,    \* the pass replays the wait
    events,   \* the outbox: [about, seen], the job it is for, whether committed
    cursor,   \* last_event_id of the consumer agent_jobs
    wake,     \* the open transaction of wake_on_events
    turns,
    heard,    \* history: events that committed while their job was waiting
    late,     \* history
    raced     \* history

row  == <<status, wait, answer>>
ran  == <<asked, pass, known>>
hist == <<heard, late>>
vars == <<row, ran, events, cursor, wake, turns, hist, raced>>

Ids == DOMAIN events

\* "event" is {"type": "event"}; "held" and "kept" are a pause, which has that
\* in "was" when it is "kept".
Waits == {"none", "event", "held", "kept"}
Phases == {"none", "handler", "parking", "closing"}

Asleep == [open |-> FALSE, jobs |-> {}, held |-> {}, events |-> {}, changed |-> {}]

TypeOK ==
    /\ status \in [Jobs -> Statuses] /\ wait \in [Jobs -> Waits]
    /\ asked \in [Jobs -> BOOLEAN] /\ known \in [Jobs -> BOOLEAN]
    /\ pass \in [Jobs -> Phases]
    /\ events \in Seq([about : Jobs, seen : BOOLEAN]) /\ Len(events) <= MaxEvents
    /\ cursor \in 0 .. Len(events)
    /\ \A j \in Jobs : answer[j] # 0 => /\ answer[j] \in 1 .. cursor
                                        /\ events[answer[j]] = [about |-> j, seen |-> TRUE]
    /\ wake.open \in BOOLEAN /\ wake.held \subseteq wake.jobs
    /\ wake.jobs \subseteq Jobs /\ wake.changed \subseteq Jobs
    /\ wake.events \subseteq {i \in Ids : i > cursor /\ events[i].seen}
    /\ turns \in 0 .. MaxTurns /\ heard \subseteq Ids /\ late \subseteq Ids /\ raced \subseteq Jobs

Init ==
    /\ status = [j \in Jobs |-> "queued"] /\ wait = [j \in Jobs |-> "none"]
    /\ asked = [j \in Jobs |-> FALSE] /\ answer = [j \in Jobs |-> 0]
    /\ pass = [j \in Jobs |-> "none"] /\ known = [j \in Jobs |-> FALSE]
    /\ events = <<>> /\ cursor = 0 /\ wake = Asleep
    /\ turns = 0 /\ heard = {} /\ late = {} /\ raced = {}

\* A transaction other than wake_on_events writes the row of the job.
Write(j, s, w) ==
    /\ status' = [status EXCEPT ![j] = s] /\ wait' = [wait EXCEPT ![j] = w]
    /\ wake' = IF wake.open THEN [wake EXCEPT !.changed = @ \cup {j}] ELSE wake
    /\ UNCHANGED <<answer, raced>>

-----------------------------------------------------------------------------
(* A pass.                                                                    *)

Claim(j) ==
    /\ status[j] = "queued" /\ pass[j] = "none"
    /\ Write(j, "running", wait[j])
    /\ pass' = [pass EXCEPT ![j] = "handler"] /\ known' = [known EXCEPT ![j] = answer[j] # 0]
    /\ UNCHANGED <<asked, events, cursor, turns, hist>>

\* The step that asks; a job taken away meanwhile is left alone.
Ask(j) ==
    /\ pass[j] = "handler" /\ ~asked[j]
    /\ IF status[j] = "running"
       THEN asked' = [asked EXCEPT ![j] = TRUE] /\ UNCHANGED pass
       ELSE pass' = [pass EXCEPT ![j] = "none"] /\ UNCHANGED asked
    /\ UNCHANGED <<row, known, events, cursor, wake, turns, hist, raced>>

\* wait_for_event: Suspend, unless its output is on record.
Wait(j) ==
    /\ pass[j] = "handler" /\ asked[j]
    /\ pass' = [pass EXCEPT ![j] = IF known[j] THEN "closing" ELSE "parking"]
    /\ UNCHANGED <<row, asked, known, events, cursor, wake, turns, hist, raced>>

\* _finish.  Unlike a child, a timer or an ask, an event that is there already
\* is not seen (_condition_met).
Finish(j) ==
    /\ pass[j] \in {"parking", "closing"}
    /\ pass' = [pass EXCEPT ![j] = "none"]
    /\ IF status[j] # "running" THEN UNCHANGED <<row, wake, raced>>
       ELSE IF pass[j] = "parking" THEN Write(j, "waiting", "event")
       ELSE Write(j, "succeeded", "none")
    /\ UNCHANGED <<asked, known, events, cursor, turns, hist>>

Crash(j) ==
    /\ pass[j] # "none" /\ turns < MaxTurns /\ turns' = turns + 1
    /\ pass' = [pass EXCEPT ![j] = "none"]
    /\ UNCHANGED <<row, asked, known, events, cursor, wake, hist, raced>>

\* tick_jobs: a job whose pass has died
Requeue(j) ==
    /\ status[j] = "running" /\ pass[j] = "none"
    /\ Write(j, "queued", wait[j])
    /\ UNCHANGED <<ran, events, cursor, turns, hist>>

\* Faulty variant: a job that waits is not looked at.
ExpireQueued(j) ==
    /\ status[j] \in {"queued", "paused"}
    /\ Write(j, "expired", "none")
    /\ UNCHANGED <<ran, events, cursor, turns, hist>>

\* tick_jobs: the job has been open for too long
Expire(j) ==
    /\ status[j] \in {"queued", "waiting", "paused"}
    /\ Write(j, "expired", "none")
    /\ UNCHANGED <<ran, events, cursor, turns, hist>>

-----------------------------------------------------------------------------
(* People.                                                                    *)

Turn == turns < MaxTurns /\ turns' = turns + 1

\* Faulty variant: what the job waited for is forgotten.
PauseForgets(j) ==
    /\ status[j] \in {"queued", "running", "waiting"} /\ Turn
    /\ Write(j, "paused", "held")
    /\ UNCHANGED <<ran, events, cursor, hist>>

\* pause, and pause_jobs_of when the agent is turned off
Pause(j) ==
    /\ status[j] \in {"queued", "running", "waiting"} /\ Turn
    /\ Write(j, "paused", IF wait[j] = "event" THEN "kept" ELSE "held")
    /\ UNCHANGED <<ran, events, cursor, hist>>

\* restore_from_pause
Resume(j) ==
    /\ status[j] = "paused"
    /\ IF wait[j] = "kept" THEN Write(j, "waiting", "event") ELSE Write(j, "queued", "none")
    /\ UNCHANGED <<ran, events, cursor, turns, hist>>

Cancel(j) ==
    /\ status[j] \in Open /\ Turn
    /\ Write(j, "cancelled", "none")
    /\ UNCHANGED <<ran, events, cursor, hist>>

\* Somebody does what the job asked for: the event gets its id ...
Emit(j) ==
    /\ asked[j] /\ Len(events) < MaxEvents
    /\ events' = Append(events, [about |-> j, seen |-> FALSE])
    /\ UNCHANGED <<row, ran, cursor, wake, turns, hist, raced>>

StandsBy(j) == <<status[j], wait[j]>> \in {<<"waiting", "event">>, <<"paused", "kept">>}

\* ... and is committed.
Commit(i) ==
    /\ ~events[i].seen
    /\ events' = [events EXCEPT ![i].seen = TRUE]
    /\ heard' = IF StandsBy(events[i].about) THEN heard \cup {i} ELSE heard
    /\ late' = IF \/ i <= cursor
                  \/ \E k \in wake.events : i <= k
               THEN late \cup {i} ELSE late
    /\ UNCHANGED <<row, ran, cursor, wake, turns, raced>>

-----------------------------------------------------------------------------
(* wake_on_events, every minute.                                              *)

Fresh == {i \in Ids : i > cursor /\ events[i].seen}

WakeJobs ==
    /\ ~wake.open /\ Fresh # {}
    /\ LET J == {j \in Jobs : StandsBy(j)}
       IN  wake' = [Asleep EXCEPT !.open = TRUE, !.jobs = J,
                                  !.held = {j \in J : status[j] = "paused"}]
    /\ UNCHANGED <<row, ran, events, cursor, turns, hist, raced>>

WakeEvents ==
    /\ wake.open /\ wake.events = {}
    /\ wake' = [wake EXCEPT !.events = Fresh]
    /\ UNCHANGED <<row, ran, events, cursor, turns, hist, raced>>

For(j) == {i \in wake.events : events[i].about = j}

Record(J) ==
    answer' = [j \in Jobs |-> IF j \in J THEN CHOOSE i \in For(j) : \A k \in For(j) : i <= k
                                         ELSE answer[j]]
Woken == {j \in wake.jobs : For(j) # {}}
Passed ==
    /\ wake.events # {} /\ cursor' = CHOOSE i \in wake.events : \A k \in wake.events : k <= i
    /\ wake' = Asleep
    /\ raced' = raced \cup {j \in wake.changed : For(j) # {}}
    /\ UNCHANGED <<ran, events, turns, hist>>

\* Faulty variant: whatever has happened is for everybody who waits.
WakeAll ==
    /\ Passed
    /\ answer' = [j \in Jobs |-> IF j \in wake.jobs THEN CHOOSE i \in wake.events : TRUE
                                                    ELSE answer[j]]
    /\ status' = [j \in Jobs |-> IF j \in wake.jobs \ wake.held THEN "queued" ELSE status[j]]
    /\ wait' = [j \in Jobs |-> IF j \notin wake.jobs THEN wait[j]
                               ELSE IF j \in wake.held THEN "held" ELSE "none"]

\* Faulty variant: a paused job is queued with the others.
WakePaused ==
    /\ Passed /\ Record(Woken)
    /\ status' = [j \in Jobs |-> IF j \in Woken THEN "queued" ELSE status[j]]
    /\ wait' = [j \in Jobs |-> IF j \in Woken THEN "none" ELSE wait[j]]

\* Its writes are those of the rows it has read.
WakeCommit ==
    /\ Passed /\ Record(Woken)
    /\ status' = [j \in Jobs |-> IF j \in Woken \ wake.held THEN "queued" ELSE status[j]]
    /\ wait' = [j \in Jobs |-> IF j \notin Woken THEN wait[j]
                               ELSE IF j \in wake.held THEN "held" ELSE "none"]

\* The transaction fails, or its worker dies.
WakeCrash ==
    /\ wake.open /\ Turn
    /\ wake' = Asleep
    /\ UNCHANGED <<row, ran, events, cursor, hist, raced>>

-----------------------------------------------------------------------------
Work(j) == Claim(j) \/ Ask(j) \/ Wait(j) \/ Finish(j) \/ Requeue(j)
Wake == WakeJobs \/ WakeEvents \/ WakeCommit

Next ==
    \/ \E j \in Jobs :
        Work(j) \/ Crash(j) \/ Expire(j) \/ Pause(j) \/ Resume(j) \/ Cancel(j) \/ Emit(j)
    \/ \E i \in Ids : Commit(i)
    \/ Wake \/ WakeCrash

Spec == Init /\ [][Next]_vars

\* Passes, tick_jobs and wake_on_events run every minute, and time goes by.
FairSpec ==
    /\ Spec /\ WF_vars(Wake)
    /\ \A j \in Jobs : WF_vars(Work(j)) /\ WF_vars(Expire(j))

-----------------------------------------------------------------------------
(* Properties.                                                                *)

\* A job that was waiting, or paused while it waited, when its event happened
\* gets it: once the cursor has passed the event it is on record, and the job
\* is not waiting any more, however it was paused and resumed in between.
HeardWakes ==
    \A j \in Jobs : j \notin raced =>
        /\ \A i \in heard \ late :
            events[i].about = j /\ i <= cursor => answer[j] # 0 \/ status[j] \in Terminal
        /\ answer[j] # 0 => ~StandsBy(j)

\* The decision was made while wake_on_events was open, after it had read the
\* row, and its commit writes over it: a cancelled job is queued again.
WrittenOver(j) == j \in wake.changed /\ cursor' # cursor

\* An ended job stays ended and a paused one is paused until it is resumed,
\* cancelled or expires, with one exception, which the docstring of
\* wake_on_events does not have: WrittenOver.
DecisionsStand ==
    [][\A j \in Jobs : status'[j] # status[j] =>
        \/ WrittenOver(j)
        \/ /\ status[j] \notin Terminal
           /\ status[j] = "paused" => Resume(j) \/ Cancel(j) \/ Expire(j)]_vars

\* Nothing waits for ever, also when its event was lost.
WaitsEnd == \A j \in Jobs : <>[](status[j] \in Terminal)
=============================================================================
