------------------------------ MODULE JobEngine ------------------------------
(* The durable job engine: what agents/jobs/engine.py, job.py, control.py and *)
(* domain/agents/runs.py do to a job's row in agent_runs, to its step rows in *)
(* agent_run_steps and to the writes its steps make.                          *)
(*                                                                            *)
(* A job is a sequential program of steps 1..NumSteps.  A pass runs it from   *)
(* the top: finished steps replay, a new one runs in two transactions (its    *)
(* row is marked running; then its writes and its row commit together).  The  *)
(* steps in Sleeps are sleep_until calls.  A pass is one run_agent_runs task  *)
(* of the worker: it claims a batch of queued jobs and runs them one by one.  *)
(* Every action is one committed transaction, or the crash of a worker.       *)
(*                                                                            *)
(* Nothing keeps a job away from a second pass while an older one still holds *)
(* it: tick_jobs goes by started_at, the time of the claim of a whole batch,  *)
(* and a person may resume or retry a job whose pass has not noticed that it  *)
(* was stopped.  overlapped is the history of the jobs to which that happened *)
(* (no guard reads it): for them less is true, and each property says so.     *)
(*                                                                            *)
(* A definition called a faulty variant is the bug of the next definition     *)
(* that some property below has to notice; no specification uses it.          *)
EXTENDS Integers, FiniteSets, JobStatus

CONSTANTS
    Jobs,         \* runs with mode = 'job'
    Passes,       \* run_agent_runs tasks that may run at the same time
    NumSteps,     \* length of the pack's job function, in steps
    Sleeps,       \* the steps that are sleep_until calls
    SlotOf,       \* run_entity: what each job is about, or NoSlot for a child
    NoSlot,
    NoJob,
    ClaimLimit,   \* CLAIM_BATCH
    MaxCrashes,   \* MAX_CRASHES
    MaxAttempts   \* bound: nobody retries a job past this attempt

Steps == 1 .. NumSteps

ASSUME ShapeAssumption ==
    /\ NumSteps \in Nat /\ Sleeps \subseteq Steps
    /\ MaxCrashes \in Nat \ {0} /\ MaxAttempts \in Nat /\ ClaimLimit \in Nat
    /\ NoJob \notin Jobs

VARIABLES
    \* the job's row
    status,     \* [Jobs -> Statuses]
    attempt,    \* [Jobs -> Nat]
    hold,       \* waiting_on.type of a paused job, else "none"
    timer,      \* the sleep the job waits on (or did, in waiting_on.was), or 0
    \* the job's step rows and the writes of its steps
    row,        \* [Jobs -> [Steps -> status of the row, "none" when there is none]]
    applied,    \* how often the step's body has committed (2 means "2 or more")
    undone,     \* Undo everything was run, and the job not restarted since
    \* the world
    enabled,    \* agents.enabled
    due,        \* [Jobs -> the sleeps whose time has come]
    \* history
    overlapped, \* jobs claimed or retried while an older pass still held them
    \* the passes
    pc,         \* where the pass is
    batch,      \* claimed jobs it has not finished with
    cur,        \* the job it executes
    at,         \* the step its handler has reached
    known,      \* JobState.done: the steps finished when the pass began, or by it
    outcome,    \* how the handler ended
    stray       \* its step row was deleted under it

runVars  == <<status, attempt, hold, timer>>
stepVars == <<row, applied, undone>>
passVars == <<pc, batch, cur, at, known, outcome, stray>>
world    == <<enabled, due, overlapped>>
vars     == <<runVars, stepVars, world, passVars>>

RowStatuses == {"none", "running", "done", "failed"}
Outcomes    == {"none", "succeeded", "failed", "cancelled", "budget_exceeded",
                "waiting", "agent_off", "interrupted"}

TypeOK ==
    /\ status \in [Jobs -> Statuses]
    /\ attempt \in [Jobs -> Nat]
    /\ hold \in [Jobs -> {"none", "paused", "agent_off"}]
    /\ timer \in [Jobs -> Sleeps \cup {0}]
    /\ row \in [Jobs -> [Steps -> RowStatuses]]
    /\ applied \in [Jobs -> [Steps -> 0 .. 2]]
    /\ undone \in [Jobs -> BOOLEAN]
    /\ enabled \in BOOLEAN
    /\ due \in [Jobs -> SUBSET Sleeps]
    /\ overlapped \subseteq Jobs
    /\ pc \in [Passes -> {"idle", "handler", "body", "undo", "closing"}]
    /\ batch \in [Passes -> SUBSET Jobs]
    /\ cur \in [Passes -> Jobs \cup {NoJob}]
    /\ at \in [Passes -> 0 .. NumSteps + 1]
    /\ known \in [Passes -> SUBSET Steps]
    /\ outcome \in [Passes -> Outcomes]
    /\ stray \in [Passes -> BOOLEAN]

Init ==
    /\ status = [j \in Jobs |-> "queued"]
    /\ attempt = [j \in Jobs |-> 0]
    /\ hold = [j \in Jobs |-> "none"]
    /\ timer = [j \in Jobs |-> 0]
    /\ row = [j \in Jobs |-> [k \in Steps |-> "none"]]
    /\ applied = [j \in Jobs |-> [k \in Steps |-> 0]]
    /\ undone = [j \in Jobs |-> FALSE]
    /\ enabled = TRUE
    /\ due = [j \in Jobs |-> {}]
    /\ overlapped = {}
    /\ pc = [p \in Passes |-> "idle"]
    /\ batch = [p \in Passes |-> {}]
    /\ cur = [p \in Passes |-> NoJob]
    /\ at = [p \in Passes |-> 0]
    /\ known = [p \in Passes |-> {}]
    /\ outcome = [p \in Passes |-> "none"]
    /\ stray = [p \in Passes |-> FALSE]

Held(j)     == \E p \in Passes : j \in batch[p]
DoneRows(j) == {k \in Steps : row[j][k] = "done"}

------------------------------------------------------------------------------
(* The worker: claim_runs, then execute_job for each claimed job.             *)

SlotFree(j) ==
    SlotOf[j] = NoSlot \/ \A i \in Jobs : status[i] = "running" => SlotOf[i] # SlotOf[j]

\* Faulty variant: two runs of one batch may share a slot.
ClaimUnfiltered(p) ==
    /\ pc[p] = "idle" /\ batch[p] = {}
    /\ \E B \in SUBSET {j \in Jobs : status[j] = "queued" /\ SlotFree(j)} :
        /\ B # {} /\ Cardinality(B) <= ClaimLimit
        /\ status' = [j \in Jobs |-> IF j \in B THEN "running" ELSE status[j]]
        /\ batch' = [batch EXCEPT ![p] = B]
        /\ undone' = [j \in Jobs |-> undone[j] /\ j \notin B]
        /\ overlapped' = overlapped \cup {j \in B : Held(j)}
    /\ UNCHANGED <<attempt, hold, timer, row, applied, enabled, due,
                   pc, cur, at, known, outcome, stray>>

\* claim_runs: queued jobs whose slot is free, no two for one slot.  Any such
\* set stands for the oldest ones less the rows SKIP LOCKED passes over.
Claim(p) ==
    /\ pc[p] = "idle" /\ batch[p] = {}
    /\ \E B \in SUBSET {j \in Jobs : status[j] = "queued" /\ SlotFree(j)} :
        /\ B # {} /\ Cardinality(B) <= ClaimLimit
        /\ \A i, j \in B : i # j => SlotOf[i] = NoSlot \/ SlotOf[i] # SlotOf[j]
        /\ status' = [j \in Jobs |-> IF j \in B THEN "running" ELSE status[j]]
        /\ batch' = [batch EXCEPT ![p] = B]
        /\ undone' = [j \in Jobs |-> undone[j] /\ j \notin B]
        /\ overlapped' = overlapped \cup {j \in B : Held(j)}
    /\ UNCHANGED <<attempt, hold, timer, row, applied, enabled, due,
                   pc, cur, at, known, outcome, stray>>

\* The pass is done with its job and turns to the rest of its batch.
LeaveJob(p, j) ==
    /\ batch' = [batch EXCEPT ![p] = @ \ {j}]
    /\ pc' = [pc EXCEPT ![p] = "idle"]
    /\ cur' = [cur EXCEPT ![p] = NoJob]
    /\ at' = [at EXCEPT ![p] = 0]
    /\ known' = [known EXCEPT ![p] = {}]
    /\ outcome' = [outcome EXCEPT ![p] = "none"]
    /\ stray' = [stray EXCEPT ![p] = FALSE]

\* The handler ends with outcome o; _finish comes next.
Close(p, o) ==
    /\ pc' = [pc EXCEPT ![p] = "closing"]
    /\ outcome' = [outcome EXCEPT ![p] = o]

\* execute_job: the run is no longer running when its turn in the batch comes.
Skip(p, j) ==
    /\ pc[p] = "idle" /\ j \in batch[p] /\ status[j] # "running"
    /\ LeaveJob(p, j)
    /\ UNCHANGED <<runVars, stepVars, world>>

\* _prepare: the agent is off, or gone, or lost its access, or the person the
\* job was for is no longer active.
Refuse(p, j) ==
    /\ pc[p] = "idle" /\ j \in batch[p] /\ status[j] = "running"
    /\ cur' = [cur EXCEPT ![p] = j]
    /\ IF enabled THEN \E o \in {"failed", "cancelled"} : Close(p, o)
                  ELSE Close(p, "agent_off")
    /\ UNCHANGED <<runVars, stepVars, world, batch, at, known, stray>>

\* Faulty variant: a step that was only begun counts as finished.
PrepareFromAnyRow(p, j) ==
    /\ pc[p] = "idle" /\ j \in batch[p] /\ status[j] = "running" /\ enabled
    /\ pc' = [pc EXCEPT ![p] = "handler"]
    /\ cur' = [cur EXCEPT ![p] = j]
    /\ known' = [known EXCEPT ![p] = {k \in Steps : row[j][k] # "none"}]
    /\ at' = [at EXCEPT ![p] = 1]
    /\ UNCHANGED <<runVars, stepVars, world, batch, outcome, stray>>

\* _prepare: the finished steps are read and the handler starts from the top.
Prepare(p, j) ==
    /\ pc[p] = "idle" /\ j \in batch[p] /\ status[j] = "running" /\ enabled
    /\ pc' = [pc EXCEPT ![p] = "handler"]
    /\ cur' = [cur EXCEPT ![p] = j]
    /\ known' = [known EXCEPT ![p] = DoneRows(j)]
    /\ at' = [at EXCEPT ![p] = 1]
    /\ UNCHANGED <<runVars, stepVars, world, batch, outcome, stray>>

\* A step that finished in an earlier pass, or was met meanwhile, is replayed.
Replay(p) ==
    /\ pc[p] = "handler" /\ at[p] \in known[p]
    /\ at' = [at EXCEPT ![p] = @ + 1]
    /\ UNCHANGED <<runVars, stepVars, world, pc, batch, cur, known, outcome,
                   stray>>

\* Faulty variant: the sleep is begun like any other step before it waits.
SuspendWithRow(p) ==
    /\ pc[p] = "handler" /\ at[p] \in Sleeps \ (known[p] \cup due[cur[p]])
    /\ Close(p, "waiting")
    /\ row' = [row EXCEPT ![cur[p]][at[p]] = "running"]
    /\ UNCHANGED <<runVars, applied, undone, world, batch, cur, at, known, stray>>

\* sleep_until before its time: Suspend.
Suspend(p) ==
    /\ pc[p] = "handler" /\ at[p] \in Sleeps \ (known[p] \cup due[cur[p]])
    /\ Close(p, "waiting")
    /\ UNCHANGED <<runVars, stepVars, world, batch, cur, at, known, stray>>

\* The handler calls run_step for a new step; for a sleep only when it is due.
NewStep(p) ==
    /\ pc[p] = "handler" /\ at[p] \in Steps \ known[p]
    /\ at[p] \in Sleeps => at[p] \in due[cur[p]]

\* Faulty variant: nobody looks whether the job is still running.
BeginStepAnyway(p) ==
    /\ NewStep(p)
    /\ row' = [row EXCEPT ![cur[p]][at[p]] = "running"]
    /\ pc' = [pc EXCEPT ![p] = "body"]
    /\ stray' = [stray EXCEPT ![p] = FALSE]
    /\ UNCHANGED <<runVars, applied, undone, world, batch, cur, at, known, outcome>>

\* run_step, first transaction: the job is still running, so its step row is
\* made, or taken over whatever its status is.
BeginStep(p) ==
    /\ NewStep(p) /\ status[cur[p]] = "running"
    /\ row' = [row EXCEPT ![cur[p]][at[p]] = "running"]
    /\ pc' = [pc EXCEPT ![p] = "body"]
    /\ stray' = [stray EXCEPT ![p] = FALSE]
    /\ UNCHANGED <<runVars, applied, undone, world, batch, cur, at, known, outcome>>

\* run_step, first transaction: somebody took the job away (Interrupted).
Interrupt(p) ==
    /\ NewStep(p) /\ status[cur[p]] # "running"
    /\ Close(p, "interrupted")
    /\ UNCHANGED <<runVars, stepVars, world, batch, cur, at, known, stray>>

\* Faulty variant: the body commits and its row is left for later.
CommitStepApart(p) ==
    /\ pc[p] = "body"
    /\ applied' = [applied EXCEPT ![cur[p]][at[p]] = IF @ = 0 THEN 1 ELSE 2]
    /\ known' = [known EXCEPT ![p] = @ \cup {at[p]}]
    /\ at' = [at EXCEPT ![p] = @ + 1]
    /\ pc' = [pc EXCEPT ![p] = "handler"]
    /\ UNCHANGED <<runVars, row, undone, world, batch, cur, outcome, stray>>

\* run_step, second transaction: the body's writes and the step row commit
\* together (the update by id finds no row when a retry has deleted it).
CommitStep(p) ==
    /\ pc[p] = "body"
    /\ applied' = [applied EXCEPT ![cur[p]][at[p]] = IF @ = 0 THEN 1 ELSE 2]
    /\ row' = IF stray[p] THEN row ELSE [row EXCEPT ![cur[p]][at[p]] = "done"]
    /\ known' = [known EXCEPT ![p] = @ \cup {at[p]}]
    /\ at' = [at EXCEPT ![p] = @ + 1]
    /\ pc' = [pc EXCEPT ![p] = "handler"]
    /\ UNCHANGED <<runVars, undone, world, batch, cur, outcome, stray>>

\* The body raised, timed out or ran out of budget: its writes roll back.
FailStep(p) ==
    /\ pc[p] = "body" /\ at[p] \notin Sleeps
    /\ pc' = [pc EXCEPT ![p] = "undo"]
    /\ \E o \in {"failed", "budget_exceeded"} : outcome' = [outcome EXCEPT ![p] = o]
    /\ UNCHANGED <<runVars, stepVars, world, batch, cur, at, known, stray>>

\* _mark_failed, in a transaction of its own.
MarkFailed(p) ==
    /\ pc[p] = "undo"
    /\ row' = IF stray[p] THEN row ELSE [row EXCEPT ![cur[p]][at[p]] = "failed"]
    /\ pc' = [pc EXCEPT ![p] = "closing"]
    /\ UNCHANGED <<runVars, applied, undone, world, batch, cur, at, known, outcome, stray>>

\* The handler raises between steps (OutOfTime, PackError, a bug in the pack).
Raise(p) ==
    /\ pc[p] = "handler"
    /\ Close(p, "failed")
    /\ UNCHANGED <<runVars, stepVars, world, batch, cur, at, known, stray>>

\* The handler returns.
Return(p) ==
    /\ pc[p] = "handler" /\ at[p] = NumSteps + 1
    /\ Close(p, "succeeded")
    /\ UNCHANGED <<runVars, stepVars, world, batch, cur, at, known, stray>>

\* The row _finish leaves behind for an outcome of a job that is still running.
\* A wait that is already met (_condition_met) queues the job again.
FinishRow(p, j) ==
    LET met == outcome[p] = "waiting" /\ at[p] \in due[j]
        to  == CASE met                         -> "queued"
                 [] outcome[p] = "agent_off"    -> "paused"
                 [] OTHER                       -> outcome[p]
    IN  /\ status' = [status EXCEPT ![j] = to]
        /\ timer' = [timer EXCEPT ![j] = IF to = "waiting" THEN at[p] ELSE 0]
        /\ hold' = [hold EXCEPT ![j] = IF to = "paused" THEN "agent_off" ELSE "none"]
        /\ UNCHANGED attempt

\* Faulty variant: the outcome is written over whatever the status is by now.
FinishBlindly(p) ==
    /\ pc[p] = "closing"
    /\ IF outcome[p] = "interrupted" THEN UNCHANGED runVars ELSE FinishRow(p, cur[p])
    /\ LeaveJob(p, cur[p])
    /\ UNCHANGED <<stepVars, world>>

\* _finish, under the row's lock: a decision somebody took meanwhile stands.
Finish(p) ==
    LET j == cur[p] IN
    /\ pc[p] = "closing"
    /\ IF status[j] # "running" \/ outcome[p] = "interrupted"
       THEN UNCHANGED runVars
       ELSE FinishRow(p, j)
    /\ LeaveJob(p, j)
    /\ UNCHANGED <<stepVars, world>>

\* The worker dies with its whole batch, or a transaction of execute_job fails
\* and the exception ends the task.  What was not committed is gone.
Crash(p) ==
    /\ batch[p] # {}
    /\ batch' = [batch EXCEPT ![p] = {}]
    /\ pc' = [pc EXCEPT ![p] = "idle"]
    /\ cur' = [cur EXCEPT ![p] = NoJob]
    /\ at' = [at EXCEPT ![p] = 0]
    /\ known' = [known EXCEPT ![p] = {}]
    /\ outcome' = [outcome EXCEPT ![p] = "none"]
    /\ stray' = [stray EXCEPT ![p] = FALSE]
    /\ UNCHANGED <<runVars, stepVars, world>>

------------------------------------------------------------------------------
(* tick_jobs, once a minute.  It locks the rows it changes one by one and     *)
(* they do not depend on each other, so each row is an action.                *)

\* A sleep that is due is recorded as a done step and the job queued.  The row
\* is inserted, so one that exists already would abort the whole tick.
TickTimer(j) ==
    /\ status[j] = "waiting" /\ timer[j] \in due[j] /\ row[j][timer[j]] = "none"
    /\ row' = [row EXCEPT ![j][timer[j]] = "done"]
    /\ applied' = [applied EXCEPT ![j][timer[j]] = IF @ = 0 THEN 1 ELSE 2]
    /\ status' = [status EXCEPT ![j] = "queued"]
    /\ timer' = [timer EXCEPT ![j] = 0]
    /\ UNCHANGED <<attempt, hold, undone, world, passVars>>

\* A job that has been open too long, whatever it was doing but running.
TickExpire(j) ==
    /\ status[j] \in {"queued", "waiting", "paused"}
    /\ status' = [status EXCEPT ![j] = "expired"]
    /\ timer' = [timer EXCEPT ![j] = 0]
    /\ hold' = [hold EXCEPT ![j] = "none"]
    /\ UNCHANGED <<attempt, stepVars, world, passVars>>

\* Running, and claimed too long ago: whether a pass still holds it does not
\* show in its row.  Time is not modelled, so it may be any running job.
Stale(j) == status[j] = "running"

\* Faulty variant: a job out of attempts is not failed.
TickStaleGivesUp(j) ==
    /\ Stale(j) /\ attempt[j] < MaxCrashes
    /\ status' = [status EXCEPT ![j] = "queued"]
    /\ attempt' = [attempt EXCEPT ![j] = @ + 1]
    /\ UNCHANGED <<hold, timer, stepVars, world, passVars>>

TickStale(j) ==
    /\ Stale(j)
    /\ IF attempt[j] >= MaxCrashes
       THEN status' = [status EXCEPT ![j] = "failed"] /\ UNCHANGED attempt
       ELSE /\ status' = [status EXCEPT ![j] = "queued"]
            /\ attempt' = [attempt EXCEPT ![j] = @ + 1]
    /\ UNCHANGED <<hold, timer, stepVars, world, passVars>>

------------------------------------------------------------------------------
(* People: control.py, and turning the agent off and on.                      *)

\* What was waited on stays in waiting_on.was.
Pause(j) ==
    /\ status[j] \in {"queued", "running", "waiting"}
    /\ status' = [status EXCEPT ![j] = "paused"]
    /\ hold' = [hold EXCEPT ![j] = "paused"]
    /\ UNCHANGED <<attempt, timer, stepVars, world, passVars>>

\* restore_from_pause: a timer is waited on again, anything else is queued.
Restored(j) == IF timer[j] # 0 THEN "waiting" ELSE "queued"

Resume(j) ==
    /\ status[j] = "paused" /\ enabled
    /\ status' = [status EXCEPT ![j] = Restored(j)]
    /\ hold' = [hold EXCEPT ![j] = "none"]
    /\ UNCHANGED <<attempt, timer, stepVars, world, passVars>>

\* control.cancel, and cancel_jobs_in_project.
Cancel(j) ==
    /\ status[j] \in Open
    /\ status' = [status EXCEPT ![j] = "cancelled"]
    /\ timer' = [timer EXCEPT ![j] = 0]
    /\ hold' = [hold EXCEPT ![j] = "none"]
    /\ UNCHANGED <<attempt, stepVars, world, passVars>>

\* The rows of unfinished steps are deleted, under any pass that still runs one.
Retry(j) ==
    /\ status[j] \in Retryable /\ attempt[j] < MaxAttempts
    /\ status' = [status EXCEPT ![j] = "queued"]
    /\ attempt' = [attempt EXCEPT ![j] = @ + 1]
    /\ row' = [row EXCEPT ![j] = [k \in Steps |-> IF @[k] = "done" THEN "done" ELSE "none"]]
    /\ stray' = [p \in Passes |->
                    stray[p] \/ /\ pc[p] \in {"body", "undo"} /\ cur[p] = j
                                /\ row[j][at[p]] # "done"]
    /\ overlapped' = IF Held(j) THEN overlapped \cup {j} ELSE overlapped
    /\ UNCHANGED <<hold, timer, applied, undone, enabled, due, pc, batch, cur, at, known, outcome>>

\* undo_all: refused while the job is running.  It reverses the recorded changes
\* row by row through core/undo.py; here it only leaves a mark (applied counts
\* the commits of a step's body, not what is left of its writes).
UndoAll(j) ==
    /\ status[j] # "running" /\ ~undone[j]
    /\ undone' = [undone EXCEPT ![j] = TRUE]
    /\ UNCHANGED <<runVars, row, applied, world, passVars>>

\* update_agent, enabled = false: pause_jobs_of.
AgentOff ==
    LET parked == {j \in Jobs : status[j] \in {"queued", "waiting"}} IN
    /\ enabled
    /\ enabled' = FALSE
    /\ status' = [j \in Jobs |-> IF j \in parked THEN "paused" ELSE status[j]]
    /\ hold' = [j \in Jobs |-> IF j \in parked THEN "agent_off" ELSE hold[j]]
    /\ UNCHANGED <<attempt, timer, stepVars, due, overlapped, passVars>>

\* update_agent, enabled = true: resume_jobs_of.
AgentOn ==
    LET back == {j \in Jobs : status[j] = "paused" /\ hold[j] = "agent_off"} IN
    /\ ~enabled
    /\ enabled' = TRUE
    /\ status' = [j \in Jobs |-> IF j \in back THEN Restored(j) ELSE status[j]]
    /\ hold' = [j \in Jobs |-> IF j \in back THEN "none" ELSE hold[j]]
    /\ UNCHANGED <<attempt, timer, stepVars, due, overlapped, passVars>>

\* Time passes.
TimeComes(j, k) ==
    /\ k \in Sleeps \ due[j]
    /\ due' = [due EXCEPT ![j] = @ \cup {k}]
    /\ UNCHANGED <<runVars, stepVars, enabled, overlapped, passVars>>

------------------------------------------------------------------------------
StepOfPass(p) ==
    \/ \E j \in Jobs : Skip(p, j) \/ Refuse(p, j) \/ Prepare(p, j)
    \/ Replay(p) \/ Suspend(p) \/ BeginStep(p) \/ Interrupt(p) \/ CommitStep(p) \/ FailStep(p)
    \/ MarkFailed(p) \/ Raise(p) \/ Return(p) \/ Finish(p)

Tick(j)   == TickTimer(j) \/ TickExpire(j) \/ TickStale(j)
Person(j) == Pause(j) \/ Resume(j) \/ Cancel(j) \/ Retry(j) \/ UndoAll(j)

Next ==
    \/ \E p \in Passes : Claim(p) \/ StepOfPass(p) \/ Crash(p)
    \/ \E j \in Jobs : Tick(j) \/ Person(j) \/ \E k \in Sleeps : TimeComes(j, k)
    \/ AgentOff \/ AgentOn

Spec == Init /\ [][Next]_vars

\* The worker goes on with what it claimed (every step has a timeout), the tick
\* runs every minute and time passes.  A queued job whose slot is free is taken
\* by one of the sweeps, oldest first.  Nobody has to press a button.
ClaimOf(j) == \E p \in Passes : Claim(p) /\ j \in batch'[p]

Fairness ==
    /\ \A p \in Passes : WF_vars(StepOfPass(p))
    /\ \A j \in Jobs :
        /\ WF_vars(TickTimer(j)) /\ WF_vars(TickStale(j)) /\ SF_vars(ClaimOf(j))
        /\ \A k \in Sleeps : WF_vars(TimeComes(j, k))

FairSpec == Spec /\ Fairness

------------------------------------------------------------------------------
(* What the engine promises.                                                  *)

\* A step runs once: its writes are in the database exactly when its row says
\* done, and never twice, whatever crashes, requeues, retries and pauses happened
\* (run_step) -- but for a job that a second pass, or a retry, took up while an
\* older pass still held it.
StepsRunOnce ==
    \A j \in Jobs \ overlapped, k \in Steps :
        applied[j][k] = IF row[j][k] = "done" THEN 1 ELSE 0

\* The history a pass read in _prepare is still the job's history when the pass
\* acts on it: nobody finishes or loses a step of the job behind its back, again
\* but for the jobs that two passes have held.
ReplayIsCurrent ==
    \A p \in Passes :
        pc[p] \in {"handler", "body"} /\ cur[p] \notin overlapped =>
            known[p] = DoneRows(cur[p])

\* tick_jobs inserts the row of a sleep that is due; a row already there would
\* violate uq (run, key), abort the tick's transaction and stop every job.
TickNeverConflicts ==
    \A j \in Jobs : status[j] = "waiting" => row[j][timer[j]] = "none"

\* How a job that is paused or has ended may go on.
MayBecome(s) ==
    CASE s = "paused"     -> {"paused", "queued", "waiting", "cancelled", "expired"}
      [] s \in Retryable -> {s, "queued"}
      [] OTHER            -> {s}

\* A decision stands: a pass that ends late, a tick or a claim never overwrites
\* a pause, a cancellation or the end of a job; only a retry reopens one, and
\* as a new attempt (_finish, control.py).
DecisionsStand ==
    [][\A j \in Jobs :
        status[j] \in {"paused"} \cup Terminal =>
            /\ status'[j] \in MayBecome(status[j])
            /\ status[j] \in Terminal /\ status'[j] = "queued" => attempt'[j] = attempt[j] + 1
      ]_vars

\* A run neither works nor sleeps for good: its pass ends, or the tick finds it
\* dead and requeues or fails it; and the tick finds that its time has come, also
\* when it was paused and resumed while it slept.
RunsEnd ==
    \A j \in Jobs : status[j] \in {"running", "waiting"} ~> status[j] \notin {"running", "waiting"}

\* The refinement: to each person their job looks like JobPromise.
PhaseOf(j) ==
    IF j \in overlapped THEN "disputed"
    ELSE IF status[j] = "running" THEN "working"
    ELSE IF status[j] \in Terminal THEN "ended" ELSE "parked"

Promise(j) == INSTANCE JobPromise WITH
    phase    <- PhaseOf(j),
    inflight <- \E p \in Passes : pc[p] = "body" /\ cur[p] = j,
    writes   <- applied[j]

\* The engine keeps the promise to every job: through crashes, requeues, pauses
\* and retries its steps write in order, one at a time, once, and none starts
\* after the end; a job comes to be disputed only by a claim or a retry while an
\* older pass holds it.  This is Promise(j)!Spec for all j, with the quantifiers
\* moved inside so that TLC can check it.
KeepsPromise ==
    /\ \A j \in Jobs : Promise(j)!Init
    /\ [][\A j \in Jobs : [Promise(j)!Next]_(Promise(j)!vars)]_vars

\* Row-level exclusion of a slot: claimers that race, requeues and resumed jobs
\* never leave two runs of one agent running on one entity (claim_runs).
SlotExclusive ==
    \A i, j \in Jobs :
        i # j /\ status[i] = "running" /\ status[j] = "running" =>
            SlotOf[i] = NoSlot \/ SlotOf[i] # SlotOf[j]

------------------------------------------------------------------------------
(* What the documents say and the code does not always do.                    *)

\* No step's writes are ever committed twice, also those of a job in overlapped,
\* as engine.py:516-517 has it of the tick's requeue ("safe: finished steps
\* replay").
WritesOnce == \A j \in Jobs, k \in Steps : applied[j][k] <= 1

\* "Turning the agent back on queues the jobs its switch-off paused"
\* (resume_jobs_of): with the agent on, no job is held because it is off.
OffOnlyWhileOff == \A j \in Jobs : hold[j] = "agent_off" => ~enabled

\* Undo everything on a job that has ended is final: the job's steps write
\* nothing more, unless it is retried (control.py, undo_all).
UndoIsFinal ==
    [][\A j \in Jobs : undone[j] /\ status[j] \in Terminal => applied'[j] = applied[j]]_vars
==============================================================================
