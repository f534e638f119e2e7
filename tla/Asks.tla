-------------------------------- MODULE Asks --------------------------------
(* A job that asks people: job.ask of agents/jobs/talk.py, the rows of asks   *)
(* and their timers in domain/asks/service.py, and the job's end closing them.*)
(*                                                                            *)
(* The job has one step, an ask.  Its rows in asks are numbered 1..n: an      *)
(* escalation supersedes the newest row and inserts the next, so all rows but *)
(* the n-th are superseded and the n-th is the one the unique index calls     *)
(* live.  As in JobTree a run has one pass at most, a transaction is split    *)
(* where it waits for a row's lock or acts on what it read unlocked, and its  *)
(* changes appear with its last action.                                       *)
(*                                                                            *)
(* Two narrow races break what the asks promise.  They are let happen, and    *)
(* history variables tell when they have:                                     *)
(*   astray     the job began to wait between the unlocked read of _expire    *)
(*              and its write, and so waits for a superseded ask;             *)
(*   takenBack  the answer that the pass has read was taken back before the   *)
(*              pass recorded it.                                             *)
EXTENDS Integers, JobStatus

CONSTANTS
    Answers,      \* what people may answer
    Default,      \* the value of default_on_expiry
    NoAnswer,
    MaxAsks,      \* the first ask and one for each route of ESCALATION
    MaxCrashes,   \* MAX_CRASHES
    MaxAttempts   \* bound: nobody retries a job past this attempt

ASSUME AsksAssumption ==
    /\ Default \notin Answers /\ NoAnswer \notin Answers \cup {Default}
    /\ MaxAsks \in Nat \ {0} /\ MaxCrashes \in Nat /\ MaxAttempts \in Nat

VARIABLES
    \* the job's row
    run,        \* status
    wait,       \* the ask in waiting_on of a waiting job
    tries,      \* attempt
    \* its step row
    recorded,   \* the step is done
    used,       \* its output: the answer the job goes on with
    \* its asks
    n,          \* how many rows there are
    ask,        \* status of the n-th, "none" before there is one
    value,      \* its answer
    expiry,     \* its default_on_expiry: an action, or "value"
    \* the pass
    pc,         \* where it is
    got,        \* the answer it has read
    suspendOn,  \* the ask its Suspend names
    ending,     \* how its handler ended
    met,        \* what _condition_met said
    \* whoever answers, or the timer, holding the ask's row
    lock,       \* "free", "answer" or "expire"
    saw,        \* the timer read the run as waiting
    astray,     \* history
    takenBack   \* history

runVars  == <<run, wait, tries>>
stepVars == <<recorded, used>>
askVars  == <<n, ask, value, expiry>>
passVars == <<pc, got, suspendOn, ending, met>>
lockVars == <<lock, saw>>
raceVars == <<astray, takenBack>>
vars     == <<runVars, stepVars, askVars, passVars, lockVars, raceVars>>

Actions == {"value", "fail", "escalate", "route_to_review"}
Values  == Answers \cup {Default, NoAnswer}

TypeOK ==
    /\ run \in Statuses /\ wait \in 0 .. MaxAsks /\ tries \in Nat
    /\ recorded \in BOOLEAN /\ used \in Values
    /\ n \in 0 .. MaxAsks
    /\ ask \in {"none", "open", "answered", "expired", "cancelled"}
    /\ value \in Values /\ expiry \in Actions
    /\ pc \in {"idle", "run", "got", "saving", "closing", "locked"}
    /\ got \in Values /\ suspendOn \in 0 .. n
    /\ ending \in {"none", "waiting", "succeeded", "failed"}
    /\ met \in BOOLEAN
    /\ lock \in {"free", "answer", "expire"} /\ saw \in BOOLEAN
    /\ astray \in BOOLEAN /\ takenBack \in BOOLEAN

Init ==
    /\ run = "queued" /\ wait = 0 /\ tries = 0
    /\ recorded = FALSE /\ used = NoAnswer
    /\ n = 0 /\ ask = "none" /\ value = NoAnswer /\ expiry \in Actions
    /\ pc = "idle" /\ got = NoAnswer /\ suspendOn = 0 /\ ending = "none" /\ met = FALSE
    /\ lock = "free" /\ saw = FALSE
    /\ astray = FALSE /\ takenBack = FALSE

RunFree == pc # "locked"   \* nobody else has locked the job's row
AskFree == lock = "free"
LetGo   == lock' = "free" /\ saw' = FALSE

\* Faulty variant: cancel_for_run takes every ask of the job.
EndJobAndAnswers(s) ==
    /\ AskFree
    /\ run' = s /\ wait' = 0
    /\ ask' = IF ask # "none" THEN "cancelled" ELSE ask

\* The job ends with status s, and _after_terminal closes its open asks: both
\* rows are locked for it.
EndJob(s) ==
    /\ AskFree
    /\ run' = s /\ wait' = 0
    /\ ask' = IF ask = "open" THEN "cancelled" ELSE ask

\* _wake: the job goes on if it waits for this very ask.
WakeFor(i) ==
    IF run = "waiting" /\ wait = i
    THEN run' = "queued" /\ wait' = 0
    ELSE UNCHANGED <<run, wait>>

------------------------------------------------------------------------------
(* The pass.                                                                  *)

PassGone == pc' = "idle" /\ got' = NoAnswer /\ suspendOn' = 0 /\ ending' = "none" /\ met' = FALSE

Claim ==
    /\ run = "queued" /\ pc = "idle"
    /\ run' = "running" /\ pc' = "run"
    /\ UNCHANGED <<wait, tries, stepVars, askVars, got, suspendOn, ending, met, lockVars, raceVars>>

\* ask, its transaction when there is no row yet: the ask is inserted without a
\* look at the job's status (its foreign key waits for the lock of the job's
\* row), and the job will wait for it.
AskCreate ==
    /\ pc = "run" /\ ~recorded /\ n = 0 /\ RunFree
    /\ n' = 1 /\ ask' = "open"
    /\ pc' = "closing" /\ ending' = "waiting" /\ suspendOn' = 1
    /\ UNCHANGED <<runVars, stepVars, value, expiry, got, met, lockVars, raceVars>>

\* ... and when there is one.
AskSuspend ==
    /\ pc = "run" /\ ~recorded /\ ask = "open"
    /\ pc' = "closing" /\ ending' = "waiting" /\ suspendOn' = n
    /\ UNCHANGED <<runVars, stepVars, askVars, got, met, lockVars, raceVars>>

AskGone == ask = "cancelled" \/ (ask = "expired" /\ expiry = "fail")

AskRefused ==
    /\ pc = "run" /\ ~recorded /\ AskGone
    /\ pc' = "closing" /\ ending' = "failed"
    /\ UNCHANGED <<runVars, stepVars, askVars, got, suspendOn, met, lockVars, raceVars>>

AskRead ==
    /\ pc = "run" /\ ~recorded /\ ask \in {"answered", "expired"} /\ ~AskGone
    /\ pc' = "got" /\ got' = value
    /\ takenBack' = FALSE
    /\ UNCHANGED <<runVars, stepVars, askVars, suspendOn, ending, met, lockVars, astray>>

\* record_value, run_step's first transaction: it looks whether the job is still
\* running, and its new row's reference to the job waits for the job's lock.
Announce ==
    /\ pc = "got" /\ run = "running" /\ RunFree
    /\ pc' = "saving"
    /\ UNCHANGED <<runVars, stepVars, askVars, got, suspendOn, ending, met, lockVars, raceVars>>

Interrupt ==
    /\ pc = "got" /\ run # "running"
    /\ PassGone
    /\ UNCHANGED <<runVars, stepVars, askVars, lockVars, raceVars>>

\* ... and its second, which looks at nothing any more.
Record ==
    /\ pc = "saving"
    /\ recorded' = TRUE /\ used' = got
    /\ pc' = "run" /\ got' = NoAnswer
    /\ UNCHANGED <<runVars, askVars, suspendOn, ending, met, lockVars, raceVars>>

Return ==
    /\ pc = "run" /\ recorded
    /\ pc' = "closing" /\ ending' = "succeeded"
    /\ UNCHANGED <<runVars, stepVars, askVars, got, suspendOn, met, lockVars, raceVars>>

\* The handler raises, before or after the ask.
Fail ==
    /\ pc \in {"run", "got", "saving"}
    /\ pc' = "closing" /\ ending' = "failed" /\ got' = NoAnswer
    /\ UNCHANGED <<runVars, stepVars, askVars, suspendOn, met, lockVars, raceVars>>

\* Faulty variant: _finish does not look whether the ask has been answered since.
FinishUnseen ==
    /\ pc = "closing"
    /\ IF run = "running"
       THEN pc' = "locked" /\ UNCHANGED <<got, suspendOn, ending, met>>
       ELSE PassGone
    /\ UNCHANGED <<runVars, stepVars, askVars, lockVars, raceVars>>

\* _finish locks the row; a job about to wait looks once more at the ask.
FinishLook ==
    /\ pc = "closing"
    /\ IF run = "running"
       THEN /\ pc' = "locked"
            /\ met' = (ending = "waiting" /\ ~(suspendOn = n /\ ask = "open"))
            /\ UNCHANGED <<got, suspendOn, ending>>
       ELSE PassGone
    /\ UNCHANGED <<runVars, stepVars, askVars, lockVars, raceVars>>

FinishWaiting ==
    /\ pc = "locked" /\ ending = "waiting"
    /\ run' = IF met THEN "queued" ELSE "waiting"
    /\ wait' = IF met THEN 0 ELSE suspendOn
    /\ astray' = FALSE
    /\ PassGone
    /\ UNCHANGED <<tries, stepVars, askVars, lockVars, takenBack>>

FinishEnded ==
    /\ pc = "locked" /\ ending # "waiting"
    /\ EndJob(ending)
    /\ PassGone
    /\ UNCHANGED <<tries, stepVars, n, value, expiry, lockVars, raceVars>>

\* The worker dies; or _finish is the victim of a deadlock with whoever holds
\* the ask and wants the job.
Crash ==
    /\ pc # "idle"
    /\ PassGone
    /\ UNCHANGED <<runVars, stepVars, askVars, lockVars, raceVars>>

------------------------------------------------------------------------------
(* People and the asks.                                                       *)

\* answer_ask locks the open ask ...
AnswerLock ==
    /\ AskFree /\ ask = "open"
    /\ lock' = "answer"
    /\ UNCHANGED <<runVars, stepVars, askVars, passVars, saw, raceVars>>

\* ... then the job, and both are committed.
Answer ==
    /\ lock = "answer" /\ RunFree
    /\ ask' = "answered" /\ value' \in Answers
    /\ WakeFor(n)
    /\ lock' = "free"
    /\ UNCHANGED <<tries, stepVars, n, expiry, passVars, saw, raceVars>>

\* Faulty variant: an answer is taken back without a look at the step.
TakeBackUsed ==
    /\ AskFree /\ ask = "answered"
    /\ ask' = "open" /\ value' = NoAnswer
    /\ takenBack' = (pc \in {"got", "saving"})
    /\ UNCHANGED <<runVars, stepVars, n, expiry, passVars, lockVars, astray>>

\* Undo of an answer (_undo_answer), as long as the step is not done.
TakeBack ==
    /\ AskFree /\ ask = "answered" /\ ~recorded
    /\ ask' = "open" /\ value' = NoAnswer
    /\ takenBack' = (pc \in {"got", "saving"})
    /\ UNCHANGED <<runVars, stepVars, n, expiry, passVars, lockVars, astray>>

\* The deadlock's victim, or a request or timer that fails.
Abort ==
    /\ lock # "free"
    /\ LetGo
    /\ UNCHANGED <<runVars, stepVars, askVars, passVars, raceVars>>

------------------------------------------------------------------------------
(* ask_timers: an open ask past expires_at.                                   *)

\* The select locks the ask.  _expire reads the run it may re-route, unlocked.
ExpireLock ==
    /\ AskFree /\ ask = "open"
    /\ lock' = "expire" /\ saw' = (run = "waiting")
    /\ UNCHANGED <<runVars, stepVars, askVars, passVars, raceVars>>

\* Faulty variant: an expired ask does not wake its job.
ExpireSilently ==
    /\ lock = "expire" /\ RunFree
    /\ ask' = "expired"
    /\ expiry' = IF expiry = "escalate" THEN "fail" ELSE expiry
    /\ value' = IF expiry = "value" THEN Default ELSE value
    /\ LetGo
    /\ UNCHANGED <<runVars, stepVars, n, passVars, raceVars>>

\* The default applies: a value, fail, review, or fail because nobody is left
\* to escalate to.
Expire ==
    /\ lock = "expire" /\ RunFree
    /\ ask' = "expired"
    /\ expiry' = IF expiry = "escalate" THEN "fail" ELSE expiry
    /\ value' = IF expiry = "value" THEN Default ELSE value
    /\ WakeFor(n)
    /\ LetGo
    /\ UNCHANGED <<tries, stepVars, n, passVars, raceVars>>

\* Somebody is: a new ask supersedes this one (its foreign key waits for the
\* lock of the job's row), and a job that was read as waiting is made to wait
\* for the new one, whatever it does now.
Escalate ==
    /\ lock = "expire" /\ RunFree
    /\ expiry = "escalate" /\ n < MaxAsks
    /\ n' = n + 1 /\ expiry' \in {"escalate", "fail"}
    /\ wait' = IF saw THEN n + 1 ELSE wait
    /\ astray' = (run = "waiting" /\ ~saw)
    /\ LetGo
    /\ UNCHANGED <<run, tries, stepVars, ask, value, passVars, takenBack>>

------------------------------------------------------------------------------
(* The tick and the people who control the job.                               *)

Stale ==
    /\ run = "running" /\ pc = "idle"
    /\ IF tries >= MaxCrashes
       THEN EndJob("failed") /\ UNCHANGED tries
       ELSE run' = "queued" /\ tries' = tries + 1 /\ UNCHANGED <<wait, ask>>
    /\ UNCHANGED <<stepVars, n, value, expiry, passVars, lockVars, raceVars>>

ExpireJob ==
    /\ run \in {"queued", "waiting", "paused"} /\ RunFree
    /\ EndJob("expired")
    /\ UNCHANGED <<tries, stepVars, n, value, expiry, passVars, lockVars, raceVars>>

Cancel ==
    /\ run \in Open /\ RunFree
    /\ EndJob("cancelled")
    /\ UNCHANGED <<tries, stepVars, n, value, expiry, passVars, lockVars, raceVars>>

Pause ==
    /\ run \in {"queued", "running", "waiting"} /\ RunFree
    /\ run' = "paused" /\ wait' = 0
    /\ UNCHANGED <<tries, stepVars, askVars, passVars, lockVars, raceVars>>

\* restore_from_pause queues it: the next pass looks at the ask again.
Resume ==
    /\ run = "paused" /\ RunFree
    /\ run' = "queued" /\ wait' = 0
    /\ UNCHANGED <<tries, stepVars, askVars, passVars, lockVars, raceVars>>

Retry ==
    /\ run \in Retryable /\ RunFree /\ tries < MaxAttempts
    /\ run' = "queued" /\ tries' = tries + 1
    /\ UNCHANGED <<wait, stepVars, askVars, passVars, lockVars, raceVars>>

------------------------------------------------------------------------------
Pass ==
    \/ Claim \/ AskCreate \/ AskSuspend \/ AskRefused \/ AskRead \/ Announce \/ Record \/ Interrupt
    \/ Return \/ FinishLook \/ FinishWaiting \/ FinishEnded \/ Stale

Timers == ExpireLock \/ Expire \/ Escalate

Next ==
    \/ Pass \/ Fail \/ Crash \/ Timers
    \/ AnswerLock \/ Answer \/ TakeBack \/ Abort
    \/ ExpireJob \/ Cancel \/ Pause \/ Resume \/ Retry

Spec == Init /\ [][Next]_vars

\* The worker and the tick go on; ask_timers runs every five minutes, and an
\* open ask is sooner or later past its time and found unlocked.  Whoever holds
\* a row lets it go.  Nobody has to answer.
FairSpec ==
    /\ Spec
    /\ SF_vars(Pass) /\ WF_vars(Answer \/ Abort)
    /\ SF_vars(ExpireLock) /\ SF_vars(Expire \/ Escalate)

------------------------------------------------------------------------------
(* What the asks promise.                                                     *)

\* No answer is lost: a job that waits, waits for an ask that can still be
\* answered or expire, however answers, expiries and escalations interleave
\* with the pass that is about to wait (_condition_met, _wake).  The one exception
\* is a job that began to wait after the escalation had read it.
NoLostAnswer == run = "waiting" => (wait = n /\ ask = "open") \/ astray

\* What the job went on with is what its ask says: the answer a person gave or
\* the default, and once used it is not taken back ("The agent already used this
\* answer", _undo_answer).  The one exception is an answer that was taken back
\* after the pass had read it and before it recorded it.
UsedIsOnRecord == recorded => (ask \in {"answered", "expired"} /\ used = value) \/ takenBack

\* A closed ask is settled: an expiry, the job's end or a late answer changes
\* no answer and no default that applied; only its own undo takes one back.
Settled ==
    [][(ask \in {"answered", "expired", "cancelled"}) =>
        \/ UNCHANGED <<n, ask, value>>
        \/ (ask = "answered" /\ ask' = "open" /\ ~recorded)]_vars

\* A question does not block its job for good: somebody answers or a default
\* applies, after at most all escalations.  A job that waits for a superseded ask
\* is not promised that (only its age ends the wait, if no later escalation does).
WaitEnds == run = "waiting" ~> run # "waiting" \/ astray

------------------------------------------------------------------------------
(* What the documents say and the code does not always do.                    *)

\* "cancels a job's open asks when it ends" (cancel_for_run): no question stays
\* open for a job that has ended.
NoOrphanAsk == run \in Terminal => ask # "open"
==============================================================================
