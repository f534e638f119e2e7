# Momentum: a verification of its agents, its events and its tasks

Momentum is a work management server (FastAPI and PostgreSQL) with a web client. Agents work in
it next to people: a *pack* is a program whose capabilities run as **durable jobs**, which write
tasks, ask people questions, start child jobs, sleep, and survive the death of the worker that
runs them. Every change also writes an **event** into an outbox table; events reach open browser
tabs through a live dispatcher, and rules, agent triggers and the search index through consumers
that keep a cursor in the database.

Rules change tasks when tasks change; the assistant proposes changes that people apply; and all
changes can be undone.

These modules model the core of that, in TLA+: jobs, asks, the outbox and all that hangs on it, and
the rows of tasks where requests overlap. TLC checks small instances; TLAPS proves every safety
property of the runs, and the refinement, for every value of the constants. Paths
below are under `src/apps/api/momentum/` unless they say otherwise. All code runs under PostgreSQL's READ
COMMITTED, with SQLAlchemy sessions that do not flush by themselves; an action of a module is one
committed transaction, or the part of one between two points where others can look or write in
between.

## 1. Inventory

| Component | State | Operations | Talks to |
|---|---|---|---|
| **Job engine** `agents/jobs/engine.py`, `job.py`, `jobs/agents.py` | `agent_runs` (status, attempt, waiting_on, resume_at, started_at), `agent_run_steps` (one row per step key), in memory of a pass: `JobState.done` | `run_agent_runs` (tick, claim, execute), `execute_job` (`_prepare`, `_run`, `_finish`), `run_step`, `sleep_until`, `tick_jobs` | everything a step writes; asks; children; outbox |
| **Job control** `agents/jobs/control.py`, `domain/agents/runs.py` | the same rows, `agents.enabled`, `activity.undone_at` | retry, cancel, pause, resume, undo everything, agent on/off, agent taken off a project | job engine, asks, undo |
| **Claiming** `domain/agents/runs.py` | status of all runs, an advisory lock | `claim_runs` | job engine |
| **Parent and child jobs** `engine.py`, `job.py` | `parent_run_id`, `waiting_on.ids` | `spawn`, `gather`, `wake_parent`, cancel of a tree | claiming, job engine |
| **Asks** `domain/asks/service.py`, `agents/jobs/talk.py` | `asks` (status, answer, superseded_by), the waiting job | create, answer, take back, remind, expire, escalate, cancel with the job | job engine, notifications, undo |
| **Outbox and live dispatcher** `core/events.py`, `realtime/dispatch.py`, `listener.py` | `outbox` rows, `Cursor(low, seen, gaps)` in memory | `emit`, commit, NOTIFY, `dispatch_pending`, reconnect, restart | hub |
| **Durable consumers** `agents/triggers.py`, `domain/rules/engine.py`, `ai/embeddings.py` | `consumer_offsets` | read a batch above the cursor, handle it, move the cursor | runs, rules, search index |
| **Hub, websocket, tab** `realtime/hub.py`, `router.py`, `src/apps/web/.../lib/realtime/client.ts` | channel sets, a queue of 1000 messages per connection, `lastEventId` per channel | subscribe with replay, publish, overflow, re-authorise, reconnect | dispatcher, web cache |
| **Jobs waiting for an event** `engine.py: wake_on_events` | waiting runs, a cursor | record the event, queue the job | outbox, job engine |
| **Rules engine** `domain/rules/` | rules, rule runs, a cursor | match, run, loop and rate limits | outbox, tasks |
| **AI steps of rules** `ai/rule_steps.py` | `rule_ai_steps` | queue, claim, run, fail when stale | rules, model |
| **AI actions** `ai/actions.py` | `ai_actions` (state, operations, watched versions) | propose, apply, re-preview, dismiss, undo | all tools, undo |
| **Undo** `core/undo.py` | `activity.undone_at`, payloads | undo one change or a batch | every domain |
| **Recurring tasks** `domain/tasks/recurrence*.py` | tasks, `recurrence_parent_id` | next date; next task on completion or by the nightly scan | tasks |
| **Ordering keys** `core/ordering.py`, `domain/tasks/service.py: _keys_for` | a key per list item | `key_between`, `keys_between`, `even_keys`, rebalance | tasks, sections |
| **Triggers, schedules, autonomy** `agents/triggers.py`, `autonomy.py`, `policy.py` | agents, runs | queue a run once per minute or event; demote | claiming |
| **Tasks, projects, sections, fields** `domain/...` | their rows, with versions | edits in one transaction, permission checks | activity, outbox |
| **Attachments** `domain/attachments/` | versions of a file, `is_current` | add, delete, undo | storage |
| **Records, entities, skills, pack settings** `domain/...` | versioned documents | write, validate, query | job steps |
| **Packs** `agents/packs/` | registry read at start | load, validate | job engine |
| **Model access, chat, retrieval** `ai/` | usage rows, prompts | calls to a provider | external |
| **Reports, forecasts, dashboards, goals, portfolios, workload** | snapshots, definitions | queries and summaries | tasks |
| **Imports, portability, auth, files, web app, migrations, seeds, deployment** | | conversions, stateless decisions, user interface, start-up | |

### What is hard, and what makes it correct

* *Job engine.* A pass may die anywhere between three kinds of transactions (announce a step, run
  it with its output, end the pass), and people and the tick change the job's row under it.
  Correct: a step's writes happen once and in order; what the pass believes finished is what is
  finished; a person's decision is not overwritten; a job neither runs nor sleeps for good.
* *Claiming.* Several sweeps at once. Correct: one running run per agent and entity; no more
  children of one job running than its cap.
* *Parent and child.* The end of a child races with the parent's decision to wait, and with a
  cancel that walks the tree from the other side. Correct: no wake-up is lost, a cancel takes the
  children along.
* *Asks.* An answer, its withdrawal, the expiry, an escalation and the end of the job race for two
  rows. Correct: no answer is lost, what the job used is what is on record, a closed ask stays
  closed.
* *Outbox.* Ids are given in one order and committed in another; notifications are lost while a
  connection is down. Correct: a tab's server publishes each event once and gives up a hole only
  when nothing can fill it; a consumer handles each event once.
* *Hub and tab.* A slow connection drops messages, a subscription races with a publication, a
  tab comes back with a cursor. Correct: whatever a tab shows, it fetches again after a gap.
* *Ordering keys.* A place between two neighbours is found by arithmetic on strings; when strings
  grow long the whole list gets new ones, in the middle of a move. Correct: what is moved lands
  where it was asked for, nobody else's order changes, and undo restores it.
* *Rules, AI steps, AI actions, undo, recurrence.* Checked and then written: a change between the
  two. Correct: one run per rule and event, one decision per action, one undo per change, one
  next task per occurrence.

`PROJECT.json` lists the hazards line by line, with the properties that watch each.

## 2. Modules

| Module | Models | Composes |
|---|---|---|
| `JobStatus` | the statuses of a run and their sets (`domain/agents/models.py`) | |
| `JobPromise` | what the engine promises of one job: an abstract specification with no passes | |
| `JobEngine` | jobs, step rows, passes, tick, control by people, agent on/off | `JobStatus`, implements `JobPromise` |
| `JobTree` | a parent that spawns and gathers children; row locks of ending, waking and cancelling | `JobStatus` |
| `Asks` | one step that asks: the job's row, the chain of asks, people, the timer | `JobStatus` |
| `EventWakeup` | jobs that wait for an event, the consumer that wakes them, pause and resume of such a wait | `JobStatus` |
| `Outbox` | writers, sequence, commit order, NOTIFY, live dispatcher, one durable consumer | |
| `LiveFeed` | hub, websocket and tab, after the dispatcher of `Outbox` | |
| `Rules` | the rules executor, a consumer of the outbox, and its AI steps | |
| `TaskGraph` | completion, approval, dependencies, recurrence, edit, deletion and their undo | |
| `Placement` | sections, projects, subtasks and their undo | |
| `OrderKeys` | the keys of the tasks in a section, moves, re-spacing, undo | |
| `AiActions` | preview, confirm, apply and undo of proposed changes | |
| `MC...` | definitions for TLC: symmetry, instances of constants | their module |
| `...Proofs` | theorems and proofs | their module and `TLAPS` |
| `DeliveryProofs`, `TaskProofs`, `WaitProofs` | theorems of two components each | `Outbox` and `LiveFeed`; `TaskGraph` and `Placement`; `EventWakeup` and `JobTree` |

A proof module of two components extends both, so the second one has names of its own (`FeedInit`,
`FeedSpec`, `PlaceSpec`, `TreeSpec`, `ClaimParent`, `TaskIds` and the like).

### JobEngine

The job function of a pack is a list of `NumSteps` steps, some of them sleeps: what a step does is
abstracted to one counter (`applied`), how often its body has committed, which is what replay must
keep at one. `row` is the step's row. A pass (`Passes`, one per `run_agent_runs` that runs at once;
the worker has a concurrency of four and the task's lock only keeps a second *queued* copy out)
moves through `pc`: idle, handler (between two steps), body (inside the transaction that runs one),
undo (its body failed), closing (`_finish` to come).

| Action | Code |
|---|---|
| `Claim` | `claim_runs` 99-167 |
| the start of a pass, its stop when the agent is off | `execute_job` 110-139, `_prepare` 142-238 |
| replay, announce, commit, fail a step | `run_step` 302-407, `_mark_failed` |
| sleep: pass over, suspend | `sleep_until` 884-894 |
| the end of a pass | `_run`, `_finish` 268-324, `_after_terminal`, `_condition_met` |
| the tick: timers, expiry, stale passes | `tick_jobs` 515-588, `_record_wait` |
| retry, cancel, pause, resume, undo all | `control.py` 106-233 |
| agent on and off | `pause_jobs_of`, `resume_jobs_of`, `restore_from_pause` |
| crash | a worker dies; its open transaction rolls back |

Nothing in the code keeps a job away from a second pass while an older one holds it. The tick goes by
`started_at`, which is stamped for a whole batch; a person may resume or retry a job that its pass has not
noticed to be stopped. So `TickStale`, `Resume` and `Retry` look only at the row, as the code does, and
`overlapped` remembers the jobs that were claimed or retried while an older pass held them. Of these the
properties about a step's writes say nothing; the others make no difference. `undone` is only the mark that
undo everything was run: what it reverses, `core/undo.py` does row by row (`TaskGraph`, `Placement`).

`JobPromise` says what all this is for: a job advances through its steps in order, may stop and
start again, and ends, until two passes dispute it; `KeepsPromise` is the refinement (the writes of
a job's steps, whether a body is in flight, and whether the job is parked, working, ended or disputed).

### JobTree

A parent spawns its children, gathers them all, and ends; each child runs, asks (waits), ends,
crashes, expires, is paused, retried or cancelled by itself. The locks matter here, so an end is split where
the code waits for a row: a child that ends holds its own row until it has the parent's; a cancel
holds the parent's and goes down. A claim counts the running children (`ClaimLook`) and then takes as
many queued ones as the cap leaves (`ClaimTake`). `Cap` is `concurrency`.
`TakeOffProject` is `cancel_jobs_in_project`, which cancels any of the jobs, does not walk the tree and wakes
no parent: `quiet` remembers that the last open child went that way. `outlived` are the children that a
person retries after the tree was cancelled, and those whose insert waited for the cancelled parent's row.

### Asks

One step that asks. The chain `1..MaxAsks` is an ask and those that supersede it (`ESCALATION` has
three routes). Answering and the timer take the ask's row first and the job's row second
(`answer_ask`, `_wake`, `_expire`), the pass the job's row only (`talk.ask`, `_finish`): the actions
are split at those locks, and `record_value` at its two transactions (`Announce`, `Record`). Two
histories name what the code loses: `astray`, the job began to wait after `_expire` had read it without a lock,
and waits for the ask that this escalation supersedes; `takenBack`, an answer was taken back after the pass
had read it (`_undo_answer` looks at the recorded step only).

### Outbox

Ids `1..N` are taken in order by transactions that commit in any order or roll back, each within
`MaxOpen` ticks of time; a dispatcher pass takes at most `MaxPass`; a hole is given up after
`GapWait`. The dispatcher starts (`_starting_cursor`), listens, reads in batches of `Batch`,
publishes, moves its mark (`Cursor.advance`), loses its connection or its process. The durable
consumer is the loop of `consume_events` (`run_rules` and `index_changes` have the same): lock the cursor row, read up to
`MaxBatches` batches above it, handle each event, commit; or die. `TabsHear`, `CatchesUp` and the
others speak of what is published and handled.

A hole may be given up while its writer is still at work: `Slow` are the ids whose transaction was open for
`GAP_WAIT` less a pass, or longer, as the body of a step or a pass of `run_rules` may be. `TabsHear` excepts
them. `LowWaterHolds` says the same of the mark itself; it is proved and not part of a run.

### EventWakeup

Jobs that do one step, wait for an event and end. `wake_on_events` is one transaction in three
actions: `WakeJobs` reads the waiting jobs (no lock), `WakeEvents` the batch, `WakeCommit` writes the
output, the status and the cursor. In between people pause, resume and cancel, passes start and end.
A job's wait survives a pause, a person's or the agent's (`pause_jobs_of`), in `waiting_on.was` (`kept`); a
pause with nothing to go back to, or whose event has been recorded since, is `held` and ends in a new
pass. `WrittenOver` is the step in which `wake_on_events` commits over a decision made since it read
the row. Histories name what else the code loses: `raced`,
the job changed between the reading and the writing of `wake_on_events`; `late`, the event's id
was passed before its transaction committed; an event that commits before its job waits is in
neither and simply not in `heard`.

### LiveFeed

One tab, one connection, one channel. `HubPublish` and `Send` are `Hub.publish` and `Connection.send`
with its bounded queue and overflow marker; `Replay`, `Deny`, `Subscribe`, `SendBacklog` the four
parts of `reader()` on a subscribe, between which events are published; `Guard` the re-check of
access; `Connect`, `Deliver`, `SendQueued`, `LoseConnection`, `Focus` the client and its cursor
`last`. `missed` says of every event the feed will not bring why: *fresh* (it happened before the
first subscription, without a cursor), *behind* (a lower id that committed later), *slipped*
(between backlog and subscription), *dropped* (overflow), *resync* (a backlog that was too long).

### Rules

`run_rules` is one transaction that holds the cursor: `StartRun`, `ReadBatch`, a `Fire` per event and
rule (each in a savepoint: `Record`, `Skipped`), `CommitRun` or `CrashRun`. The events a run causes
are its own until it commits and are read by its own next batch. AI steps are queued by a rule,
claimed in one transaction and run in another (`Claim`, `Take`, `Finish`), time out, or lose their
worker. Rules are created and disabled, and the kill switch used, at any moment.

### TaskGraph

Tasks, the dependencies between them, their next occurrence and the log of changes. A request
is `Ask` or `Undo` (load and check), `Flush` (`record_activity` flushes the session: its rows are
locked, and what is read after that is read now) and `Commit` or `Abort`; the nightly scan is a
transaction of its own. `raced` remembers overlaps that the code does not guard against: two
requests that both add a link (*link*), that write the same row over each other (*row*), or that
change the recurrence of a task under an open request (*mode*).

### Placement

Sections, the placement of top-level tasks in projects, subtasks under parents. A request (one of
`Sessions`) decides on a write set (`ServiceCall`, `TakeBack`) and commits it later (`CommitSession`), over
whatever has been committed meanwhile. What it saw when it decided is kept with it, for the histories alone:
`unmade`, sections whose creation was undone while tasks were in them; `collided`, sections deleted
under a request that puts a task there; `left`, deleted sections in which a task was when it came back (one of
several projects by `tasks.restore`, any by the restore of another section);
`clashed`, tasks whose home two overlapping requests have changed; `strays`, subtasks that the undo of a
removal has placed. `InSight` speaks of every placement of a live task, `Homes` of every task that
exists.

### OrderKeys

Keys are sequences of digits to a `Base`, with `Jitter` random ones at the end; `Midpoint`,
`KeyBetween`, `Bisect`, `KeysBetween` and `EvenKeys` are `_midpoint`, `key_between`, `keys_between`
and `even_keys`. `_midpoint` and the bisection are recursive functions, of one argument (a gap, or
a number and a gap), so that they can be reasoned about; the order of a section (`Sorted`) and the
common digits of two keys (`Shared`) are chosen by what they have to be, which the proofs show to
exist. `LengthAssumption` says that `MAX_KEY_LENGTH` leaves room for what is made between evenly
spaced keys: with 62 digits, three random ones and 32 in all, ten million tasks in a section
need at most 4 + 24. A request reads the section, chooses keys with `KeysFor` (two
attempts, a re-spacing in between) and notes what it will write (`Move`, `MoveBack`); `Commit`
writes the columns that changed, over whatever another request has committed meanwhile. Each entry of
`log` is the batch of activity rows that one undo takes back, all or none. `KeysSound`,
`KeepsPlace` and `UndoRestores` say what a reader of a list expects. The sections in `Closing` may be deleted
with their tasks and come back; a task restored meanwhile goes to the end of the first section that is
left, with a key that `_undo_delete` does not measure: `given` remembers these keys.

### AiActions

A proposal is a list of edits of tasks. `Propose`, `Preview` and `Store` are `propose` (dry run of
every operation in a savepoint that is rolled back, then the versions to watch); `Press` is a person
who has read the preview; `Open` is `apply_action` up to its stale check, from where it goes on to
a new preview or to `Execute`; an agent's own low-risk action goes from `Store` to `Execute` at
once. `Reject`, `Expire`, `UndoAction` and `UndoRows` (undo from the activity feed, which does not
tell the action) are the rest. Versions are numbers read and written without a lock, so a change may
give a task a number it has had before. Histories: `since`, what happened to an action's tasks since their
versions were noted (*changed*, and *doubled* if a number came again); `how`, the same when it
was applied, and whether a change overtook the write (*raced*).

## 3. Runs

| Run | Shows | Bounds |
|---|---|---|
| `engine_jobs` | steps' writes once, replay is current, the engine implements `JobPromise`, all but for jobs held twice; the tick never collides with a row, jobs do not run or sleep for good | one job, two steps, the second a sleep, two passes, two stale checks and two attempts |
| `engine_batch` | one running run per entity; decisions of people stand | two jobs about one task, batches of two, two sweeps, one step, one stale check |
| `tree` | no lost wake-up but by `cancel_jobs_in_project`, the cap, gather, a cancel takes the children along, no parent waits for good | two children under a cap of one: one runs, or is claimed in one batch with the other, while the other is held back |
| `asks` | no lost answer, the answer used is on record, closed stays closed, nothing blocks for good, but for two races | two answers (so that an answer can change), an ask and two escalations, as the code has |
| `event_wakeup` | an event heard wakes its job, decisions stand but in the window of `wake_on_events`, every wait ends | two jobs, two events, two pauses, cancellations or crashes |
| `outbox` | published once; handled once if committed in order; tabs hear of all but slow writers; consumers catch up | two events (one order and its reverse), batches of one, two workers, one fault; a gap is given up after three ticks, a pass takes one and a write two, so that a writer may be slow or not |
| `live_feed` | a tab at rest shows everything but five named losses, an overflow is told, access ends | four events, a queue and a replay limit of two (so both overflow), one lost connection |
| `rules` | one run per rule and event with all or none of its changes, AI steps once, rules that set each other off come to rest | two rules that trigger each other, both with AI steps, two workers, depth two, one change by a person, one fault |
| `task_graph` | no cycle, one next occurrence, hand-off to the tasks set free, undo restores | three tasks (a cycle of three, two blockers of one), two requests at a time, two changes |
| `placement` | no live task out of sight, every task has its home | three tasks, two projects, three sections, two requests at a time, four in all |
| `order_keys` | a move lands between its neighbours and disturbs nobody, its undo restores the order, keys stay valid and, but for the unmeasured ones, short | three tasks, two sections, one of which may be deleted, two moves and their undos, one deleted task; base three, one random digit, at most four digits, so that the second move into a gap re-spaces the section |
| `ai_actions` | what is applied was confirmed, on tasks unchanged since their versions were noted but for two kinds of change, once, whole, and is undone whole | two proposals that share a task, two requests at a time, one change by others |

Why so small is enough: two passes, requests or workers are the least at which anything overlaps,
and every transaction touches one job, one pair of rows or one task and its neighbours; limits on
crashes, faults and attempts allow one of each kind, a recovery from it and, for jobs, one beyond
the limit. In `engine_jobs` the step before the sleep is announced, fails, is replayed and is retried
under a pass that still holds it; a third step after the sleep would be as the first.
In `ai_actions` one change shows *changed* and *raced*; *doubled* needs a second, with which the same run
passes in four minutes. In `order_keys` no restored key gets too long: that takes more deletions,
and the theorem has them. For the outbox two ids are the least that can commit out of order; larger instances are
out of TLC's reach in a few minutes, which is why its safety is proved for every `N`. In `rules` one
person is enough, because the AI steps commit events of their own while the executor runs, with
which anything a second person does can be done; disabling a rule and the kill switch count as
faults. In `placement` four requests make a task, a change, its undo and one more that overlaps.

The bounds on attempts, crashes, faults and time are in the guards and named in the constants. The
`TypeOK` of the modules was checked on the same instances, and those of `JobEngine`, `Asks`, `Outbox`,
`LiveFeed`, `EventWakeup`, `Rules`, `TaskGraph`, `Placement` and `AiActions` are proved. Deadlock is checked in the engine's runs; the others
switch it off because a bounded instance really ends: all jobs have ended and nobody may retry, or
all ids and changes are used.

Four runs explore the states up to a VIEW, named with its reason in the MC module: the engine's leave out what
nothing reads (`undone` and the histories) and, for `engine_jobs`, the writes of a job held twice, of which no
property speaks; `tree` does not tell apart how a row that can never be retried has ended, and `order_keys`
not what an entry of the log said that was taken back.

### Fairness

* `JobEngine`. A pass is weakly fair in its next transaction: the worker goes on, and every step has
  a time-out (`asyncio.timeout(step_timeout_s)`), so a body ends. So are the tick's wake-up of a due
  timer and its stale check, which run every minute (`* * * * *`), and the coming of a sleep's time.
  The claim of a given job is strongly fair: the sweep takes the oldest queued runs first, so a job
  whose slot is free again and again is taken in the end. Expiry is not fair: no property leans
  on a job growing old.
* `JobTree`. Two things are strongly fair as a whole, because another transaction may take a row's lock any
  number of times in between: that some child goes on (is claimed, answered, wakes its parent, or is
  found dead), and that some child finishes. The scheduler's look is strongly fair while no cancel holds the
  rows, what follows it and an open cancel are weakly fair. An ask of a child is answered or expires
  (`ask_timers` takes its default).
* `Asks`. The pass, and the timer that finds an open ask past its time and unlocked; whoever holds a
  row lets it go. Nobody has to answer.
* `EventWakeup`. A pass goes on, `wake_on_events` and the tick run every minute, and a wait grows
  old in time (`WAIT_EXPIRES`): without expiry a job whose event was lost waits for ever.
* `LiveFeed`. The tasks of the connection (`reader`, `sender`, the guard), the dispatcher, the
  periodic re-check, and the client's reconnection. A person need not look at the tab again.
* `Rules`. The executor and each worker run every minute, and a step whose worker died times out.
* `TaskGraph`, `Placement`, `OrderKeys`, `AiActions`: safety only. Nothing in them has to happen.
* `Outbox`. The listener (`run_listener` tries again for ever) and the consumer (its job is
  periodic). Nothing makes a transaction end or time pass.

In all of them nobody has to press a button, and crashes are never required; they are bounded by
`MAX_CRASHES` and the attempts, or by `MaxFaults`, `MaxTurns` and `MaxLosses`.

## 4. Theorems

Every theorem is of the form `Spec => []...`, or `Spec =>` an action property or the refinement,
but for the three that give the contract of a pure function of `core/ordering.py`. The
invariant it rests on is named in its module; each of them was model-checked on the instance of
the run before it was proved.

| Module | Theorems | Under |
|---|---|---|
| `JobEngineProofs` | `TypeCorrect`, `SlotsExclude`, `TickIsSafe`, `DecisionsHold`, `RunsOnce`, `HistoryIsCurrent`, `PromiseKept` | nothing |
| `WaitProofs` | `WakeUpsArrive`, `CapAlways`, `GatherComplete`, `CancelComplete` of `JobTree` | nothing |
| | `TypeCorrect`, `EventsReachJobs`, `DecisionsHold` of `EventWakeup` | nothing |
| `AsksProofs` | `TypeCorrect`, `AsksSettle`, `AnswersArrive`, `UsedAnswersStand` | nothing |
| `DeliveryProofs` | `TypeCorrect`, `PublishesOnce`, `HandlesOnce`, `MarkSkipsNothing` of `Outbox` | nothing |
| | `FeedTypeCorrect`, `LossIsTold`, `NothingElseIsLost` of `LiveFeed` | nothing |
| `RulesProofs` | `TypeCorrect`, `RunsAreExact`, `StepsAreOnce` | nothing |
| `TaskProofs` | `TypeCorrect`, `NeverCyclic`, `OccursOnce`, `HandsOff`, `UndoIsSound` of `TaskGraph` | nothing |
| | `PlaceTypeCorrect`, `HomesHold`, `StaysInSight` of `Placement` | nothing |
| `AiActionsProofs` | `TypeCorrect`, `OnceOnly`, `AsDecided` | nothing |
| `OrderKeysProofs` | `KeyBetweenBetween`, `BisectSpreads`, `SpacingKeepsOrder` of the functions | nothing |
| | `KeysStaySound`, `MovesKeepPlace`, `UndoRestoresOrder` | `LengthAssumption` |

"Nothing" means nothing but the named assumption on the constants of the module. The exceptions
a property has (`overlapped`, `astray`, `raced`, `late` and the like) are part of the property, as the run
checks it; section 5 lists them.

The arguments:

* *Writes once.* `StepsRunOnce` (a step's body has committed once if its row is done and never
  otherwise) is not inductive: a pass inside a body commits on the strength of what it read. The
  invariant adds, of a job not in `overlapped`, that no two passes hold it, that a job with a pass is one the
  pass has claimed, and that what the pass knows to be finished are exactly the finished rows. A second
  pass comes to a job by a claim alone, and a row is deleted under a pass by a retry alone: both
  put the job into `overlapped`.
* *The refinement.* `PromiseKept` maps a job to the writes of its steps, whether a body is in flight,
  and its phase. What `RunOnceInv` lacks for it is the order (`InOrder`): the finished steps of a job are its
  first ones, also when the tick finishes a sleep while nobody runs the job. A claim or a retry
  under an older pass maps to `Dispute`, and whatever follows it to `NoPromise`. A step of the engine that does
  not enter or leave a body, end the job or park it maps to a stutter, a crash, a replay or a claim too.
* *The tick.* `TimerInv`: a waiting job has a timer; a job with one waits, or is paused out of waiting, and
  the row of that step does not exist; and the row of a sleep is not made before the sleep is due. So the
  row that the tick inserts is never there, whatever passes it has overlapped.
* *Slots.* A claim reads all running runs under an advisory lock and admits no two of one slot.
  The invariant is the property: nothing else makes a run running.
* *No lost wake-up.* A waiting parent has a child that has not ended. A child that ends does so
  under the parent's lock or before the parent decides, and the parent decides under its own lock. Only
  `TakeOffProject` ends a child without that, and `quiet` says when it was the last.
* *The cap.* Between a claim's count and its taking no child starts to run, because claims exclude each other:
  the count is still an upper bound (`CountInv`), and what is taken is measured by it.
* *Cancel.* While a cancel holds the parent's row the job is open and the rows it wants are all its
  children: a spawn has to wait for that row, and is in `outlived` when it goes on.
* *Answers.* The invariant says of a waiting job that it waits for the live ask and that this ask is
  open, or the job is astray; of whoever holds an ask's row, that it is open until they write it; and of a
  pass that has read an answer, that the answer is on record or was taken back since.
* *Published once.* Published ids are at or below the mark, or remembered above it. `seen` loses an
  id only when the mark passes it.
* *The mark skips nothing.* A hole above the mark has the time since it was first missed. Its transaction was open
  by then, so that time is at most what the transaction was open and the pass has taken (`PassedInv`):
  when a gap is given up that is not a rollback, its writer is slow.
* *Handled once, on time.* The lock of the cursor row makes committed passes a sequence; a pass
  handles exactly the committed ids between the cursor it read and the one it writes. An event that
  was visible before every higher id was read is therefore handled.
* *Events reach jobs.* The open transaction knows which jobs wait and which of them are paused, unless
  their rows have changed since (`Stood`), and has read every event up to its last that did not commit late
  (`WholeView`). So an event that a waiting job has heard is ahead of the cursor while the job still waits, or has
  been given to it (`Pending`); and a job with an answer never waits again, because its pass replays the wait
  (`Lives`).
* *Rules run exactly.* Five invariants. `ScanInv`: the open run has in hand every visible event
  between its cursor and the last of its batch, and its list of rules lacks only rules younger than
  those events. `RunInv`: recorded runs differ in their rule or their event, the open run's from the
  committed ones because their events lie on different sides of the committed cursor. `DueInv`: a rule
  that is due has run for each event behind the cursor, the committed one or the run's own.
  `CauseInv`: an event or a step caused by a run is visible exactly if a committed run succeeded, and is
  the executor's own exactly if an uncommitted one did; so a commit turns the second into the
  first and a crash takes back both. Only then does `RunsExact`, which counts, follow.
* *AI steps once.* The steps a worker has claimed or does were handed to it and to no other; a time-out
  changes their status, not who has them (`ClaimInv`). So whoever finishes a step is the only one
  who ever will.
* *No cycle.* A request that adds a link has found no way back when it looked, and nothing that added a
  link has committed since, or `link` is in `raced`. Both the absence of cycles and "no way back" are
  stated with sets that are closed under links, not with paths, so that nothing recursive is needed:
  a set of tasks each of which waits for another of the set is what a cycle is.
* *One next occurrence.* While a request is open its reading of the recurrence mode is current, or `mode` is in
  `raced`; what a flushed request is about to insert, or the scan has found, is the first of its task
  (`OccurrencesKnown`). Two requests that complete one task wait for one row lock (`RowLocks`), the scan takes
  only tasks of the other mode.
* *Hand-off.* A completion that nothing has overtaken still has in hand the tasks that are ready now
  (`HandOffInv`); those are the ones its commit sets free, since no task waits for itself.
* *Undo.* The version tells what a row holds (`VersionsTell`): a row with the version a change left is as
  the change left it, and one with the version a request read is as it read it. An open undo carries the
  inverse of its entry, as it was read (`Origins`); so what it commits is what was there before. The only
  entries whose inverse is not exact are those of `Proper`.
* *A tab's gaps.* An event the Hub has published is shown, named as missed, in the queue, in the backlog
  about to be sent, or will be in a backlog not read yet (`Covered`, in `FeedInv`); a step takes it from one of these
  only into another. A tab at rest has the last three empty. `LossIsTold` is inductive with the length of the queue.
* *A task's home.* What an open request has decided is right for a task whose home is still where the request
  saw it (`HomeSound` in `Decided`), whatever others commit meanwhile; if it is not there any more, the commit puts
  the task into `clashed`. That is why `ReqInv` keeps what the request saw, and why it has to be shown
  stable under every other commit (`StaysDecided`): sections only die, tasks only come into being, histories only grow
  (`Grows`).
* *In sight.* A request puts tasks only into sections that were live when it looked (`RowsLit`), empties the
  section it deletes (`SecsEmptied`), and a request that brings a task back repairs the placement it is seen through
  (`Repairs`). Where one of these has been overtaken, the section is in `collided`, and what a restore does not
  repair is in `left`. That a chain of parents ends needs induction on the task's number, done with a least
  counterexample (`LeastNat`), since an induction theorem takes an operator.
* *Actions.* A request that decides holds the row of its action, alone (`LockInv`), so that nothing is decided
  twice. `EffectInv` says of each action how often it took effect, and that its marks on the tasks are those
  of its operations not yet undone. `ReadyInv` says of a request about to write that it has the
  confirmation it needs, and that the versions are those noted for the preview unless another's change has
  overtaken it; `SinceInv` of a proposal whose tasks have changed that one of their versions has risen, or
  a number has come again. The versions of a report count the edits of one task, as cardinalities of finite sets.

* *Keys between keys.* A recursive function equals its definition only if a function that does so exists
  (`RecursionExists`): shown once, for any measure that a call makes smaller, as the union of the partial
  solutions up to a size. What the functions compute is then shown with a least counterexample (`LeastNat`),
  by the length of a gap for `_midpoint` and by the number of keys for the bisection. A gap is what two
  neighbours may be: the lower below the upper, which does not end in the zero digit (`Gap`). The prefix
  that the loop of `key_between` clears gets shorter each time, so its random digits cannot carry the key past
  the upper neighbour (`ClearBetween`).
* *Even keys.* The numbers behind them grow by at least one and none is zero (`EvenValuesGrow`); two such numbers of one width
  differ at a digit, the first of which decides (`EvenDigitsGrow`), and cutting trailing zeros
  does not change that (`EvenKeysGrow`). So a section spaced anew is in the same order: its n-th row, by the number of rows seen before
  it (`SortedExists`), gets the n-th key.
* *Keys stay sound.* `KeysInv` speaks of every copy of a key that may come back: the rows, what
  open requests have read and will write, and what the log remembers for an undo. Stale or not, each is sound
  and short, and a commit that merges columns of two of them writes keys of one or the other.
* *A move keeps its place.* `OrderInv` says of an open move that the rows it leaves are in the order it read,
  that its keys rise from the neighbour above to the one below as these will be written (`Lined`), and, while no other
  request has committed, that what it read is what is there; of the newest entry of the log, for as long,
  that the rows are as it left them. An undo then writes the old keys of all moved tasks among the
  others' spaced ones, whose order is that from before.

Proving changed the model where it said too little. `InSight` and `Homes` lacked an exception each (`left`,
`strays`), two faults of the code that need five and six requests, more than the run has (section 5); `InSight` now
speaks of every placement and not of one. `UndoSound` had an exception nobody had seen (`Proper`, section 5):
it takes three changes, one more than the run's bound, and the undo of two of them. `Acyclic` no longer
counts the empty set. An action has at least one operation, as `propose` demands (`ai/actions.py:153`); the
theorem that what is applied was previewed needs it. The functions of `OrderKeys` were rewritten to take one
argument and to fix by description what an operator with recursion had computed.

What stays with TLC:

* everything under fairness (`RunsEnd`, `WaitEnds`, `WaitsEnd`, `TabsHear`, `CatchesUp`, `ComesToRest`,
  `AccessEnds`), since the prover does not reason about `ENABLED`.

TLC checks each of the other properties too, on its instance, and it is there that the mutants of the
code are told from it.

## 5. What the checks found

Every run passes. What is wrong was seen while the properties were sharpened: a definition that states
what one would expect is kept beside the others where one exists, with a comment that it does
not hold.

Against what a document or a comment of the repository says:

* `JobEngine.WritesOnce`: `claim_runs` stamps a whole batch at once and the batch is
  run one by one, so a job behind slow ones looks dead while its pass is alive. The tick queues it
  again (`engine.py:517` calls that safe, the running step having rolled back), and its step writes
  twice. The same comes of a job paused and resumed, or cancelled and retried, inside one body
  (`control.py:156`, `106`). The jobs are those of `overlapped`.
* `Outbox.AtLeastOnce`: a durable consumer's cursor is the highest id it has read, so an event
  with a lower id that commits later is never handled. `realtime/dispatch.py:9-12` knows the fault;
  `agents/triggers.py:353`, `run_rules`, `index_changes` and `wake_on_events` have it, and
  `src/docs/architecture/realtime-jobs-events.md:30-31` promises at-least-once.
* `JobEngine.OffOnlyWhileOff`: a pass that read the agent as off writes its pause in a later
  transaction; a switch-on in between does not resume the job.
* `JobEngine.UndoIsFinal`: undo everything looks for running jobs and reverses what is recorded; a
  body still in flight after a cancel commits afterwards.
* `JobTree.TakenOffTakesAll`: taking an agent off a project cancels the jobs about it and leaves
  their children.
* `JobTree.quiet`: it may as well cancel the last open child of a job that goes on waiting.
  `cancel_jobs_in_project` (`runs.py:239-279`) calls no `wake_parent`, so the parent waits until it is too old,
  though `wake_parent` says that a child's end is never missed (`engine.py:478-479`).
* `JobTree.outlived`: a spawn's insert that waits for the row of a parent being cancelled goes on after
  the commit and leaves an open child of a cancelled job, where `control.py:6-7` has the job and its open
  children stop.
* `EventWakeup.WrittenOver`: `wake_on_events` (`engine.py:643`) reads the waiting jobs without a lock; one cancelled
  or paused before it commits is queued again, although its docstring (`engine.py:624-626`) has a paused job
  keep its pause.
* `Asks.takenBack`: `_undo_answer` (`domain/asks/service.py:492`) refuses when the step is recorded ("The agent already
  used this answer"). Between the reading of `talk.ask` and that record the answer can be taken back, the
  question is open again, and the job goes on with what nobody says any more.
* `Asks.NoOrphanAsk`: a job cancelled between two steps still posts a question.
* `AiActions.UndoWorks`: an action that edits one task twice cannot be undone. Each edit expects the
  version it left (`domain/tasks/service.py:2319`); undoing the newer one makes a new version, and
  the whole batch is refused as changed since.
* `AiActions.NeverBlind`: a second apply that waits for the row (a double click, a retry after a
  lost answer) applies the preview the first one has just made, which nobody has read, although
  `ai/actions.py:10-11` speaks of a fresh decision.
* `OrderKeys.AllShort`: a task restored after its section was deleted gets a key behind the last of the first
  section (`domain/tasks/service.py:2516-2523`), measured by nobody. Restoring many one after the other lets
  keys grow past `MAX_KEY_LENGTH`, "above this, rebalance the container" (`core/ordering.py:17`).
* `OrderKeys.KeysDiffer`: `core/ordering.py:6-7` has concurrent inserts at one place kept distinct by a
  random suffix, but a move of several tasks takes its keys without one, and an undo brings an old
  key back. Two bulk moves at once, or a bulk move to where a task stood and that task's move
  taken back, leave two tasks with one key; a later insert between them is an `OrderingError`, which
  the API answers as an internal error.
* `Placement.strays`: outdent a subtask, add it to a second project, remove it there, undo the outdent, undo the
  removal. `_undo_remove_from_project` (`domain/tasks/service.py:2403`) does not look at `parent_id` and gives
  a subtask a placement, though `domain/access.py:297` says "Subtasks have no placement of their own" and
  `add_task_to_project` refuses it (`service.py:1707`). Found by the proof of `HomesHold`.
* `Placement.left`: delete a task of two projects, and the section it has in one of them; undo the first.
  `_undo_delete` (`service.py:2509`) repairs the placement the person sees it through, the other one stays in
  the deleted section; remove the task from the good project and nobody sees it any more, though
  `service.py:2516` and `src/docs/progress/hardening-register.md:72` (H58) have restored tasks visible. Found by the
  proof of `StaysInSight`.
* `Placement.left` again, with one task of one project and one request at a time: delete section A, moving the task
  to B; delete B with its tasks; undo the first (the task, deleted, is back in A); delete A again (a deleted task
  stays where it is); undo the second. `_restore_section_tasks` (`service.py:2297-2306`) brings the task back
  and looks at no placement: it is live in A, which is deleted.
* A task repeated every N weeks with N above 58 (`_check_recurrence` allows 99) has its next date
  beyond `MAX_SEARCH_DAYS` (`domain/tasks/recurrence.py`): `next_occurrence` raises, and the series
  ends without a word. (Read, not modelled.)
* `client.ts:134-137` and `realtime-jobs-events.md:151` say that a tab fetches again after `resync`
  and overflow. The code only forgets its cursor; what the screen missed comes back when the window
  gets the focus (`LiveFeed.Focus`).

Windows in which two requests overlap, named in the properties as exceptions:

* `TaskGraph`: two links added at once may close a cycle; two undos, or an undo and an edit, of one
  row compare the version they loaded and lock nothing; two blockers completed at once may each
  see the other open, so nobody is told (`late`). Approving (`decide_approval`) completes a task
  and never hands off.
* `TaskGraph`, with no overlap at all: an approval is decided, converted to a plain task, and the
  decision undone. `_undo_decide_approval` (`domain/tasks/service.py:2468`) does not look at the type
  and leaves the plain task *pending*, where `src/docs/architecture/data-model.md:113` has
  `approval_state` only for approvals. Converting that task and undoing the conversion does not bring back
  what was there, although `convert_task_type` says so (`service.py:804-819`). `UndoSound` leaves rows out
  that are like this (`Proper`); found by the proof, not by the run.
* `Placement`: undoing the creation of a section leaves its tasks in it; a section deleted under a
  request that puts a task there; a task removed from both its projects at once has none. Besides:
  undoing the deletion of a section pulls back tasks moved elsewhere since; outdenting under a parent of
  several projects fails.
* `EventWakeup`: `WrittenOver` and `raced`, `late`, and an event that comes before its job waits.
* `Asks`: `_expire` reads the job without a lock (`domain/asks/service.py:608`); a job that begins to wait between that
  reading and the write waits for a superseded ask (`astray`), until a later escalation or its age ends that.
* `Outbox`: the gap that a slow writer leaves is given up before it commits (`Slow`): its event reaches tabs
  through a replay alone.
* `JobEngine`: a job paused inside a body frees its slot while the body runs.
* `LiveFeed`: *slipped* and *behind*, for which nothing is told to the tab.
* `AiActions`: a change between the stale check and the write, a change that gives a version number again,
  and one between the preview and the versions noted for it (`ai/actions.py:86-97`), of which
  `AppliedAsDecided` does not speak.

Beyond what the properties speak of:

* An event still uncommitted when a server starts, with an id below the highest committed one, is
  never published by that server; it reaches tabs through replay alone.
* `_extract_fields` (`ai/rule_steps.py:292`) looks at which fields are empty, asks the model for
  seconds, and then writes them: a value a person typed meanwhile is overwritten.

## 6. Not modelled, and why

* Data: what a step writes, prompts, reports, forecasts, formats. The models keep outcomes.
* Budgets and time limits of a job end a pass as failed, one of the outcomes of a pass.
* Reminders, notifications, traces: written along, read by no decision modelled here.
* `gather` in mode any, one-shot runs, packs switched off, the window of `limit * 5` rows a claim
  looks at, the attempt counter that people's retries share with crashes.
* Who may do what: every modelled user may do what the request says. Permissions are decisions
  about one request and one moment.
* In `Rules`: conditions, what an action writes, re-enabling a rule, commits out of id order (see
  `Outbox`). In `LiveFeed`: several channels and tabs, which share only the queue. In `Placement`:
  order keys, which `OrderKeys` has. In `OrderKeys`: the key of a new task, which is chosen as a moved
  one's is, and lists other than sections; the old places that the restore of a section brings back are in
  `Placement`, and restoring a task reads and writes in one action. In `AiActions`: tools other than the
  edit of a task; `create_subtasks` and the like have their own undo handlers. An undo of single rows
  looks and writes in one action there, though `core/undo.py:92` locks nothing: two that overlap write the
  same columns back, which `TaskGraph` has (*row*).
* Passes of one job that overlap, outside `JobEngine`: in `JobTree`, `Asks` and `EventWakeup` a job has one pass at a time.
* In `JobEngine`, what undo everything reverses (it leaves a mark only).
* The components marked `not_modelled` in `PROJECT.json`, each with its reason.

## 7. Plan

1. Attachments and their versions; the recurrence dates as pure operators against reference
   definitions.
2. The other lists that use the keys (subtasks, sections, favourites, fields) as instances of `OrderKeys`.
