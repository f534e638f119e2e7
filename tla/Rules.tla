-------------------------------- MODULE Rules --------------------------------
(* The rules executor and the AI steps it queues: run_rules and what it calls *)
(* (domain/rules/engine.py), claim_steps and run_step (ai/rule_steps.py) and  *)
(* the jobs that run them every minute (jobs/rules.py, jobs/ai.py).           *)
(*                                                                            *)
(* A run of the executor is one transaction that holds the row of its cursor: *)
(* it reads a batch of events, fires the rules that match each one, each in a *)
(* savepoint, and sees the events its own rules cause.  Until it commits they *)
(* and all it records are its own; a crash takes everything back.             *)
(* AI steps are claimed in one transaction and run in another each.           *)
(*                                                                            *)
(* One project.  A rule matches an event by its kind; conditions, deleted     *)
(* tasks and what an action does are left out, an action is a change of some  *)
(* kind, or a step put in the AI queue, and may fail.  Events commit in the   *)
(* order of their ids (module Outbox is about those that do not).             *)
EXTENDS Integers, FiniteSets, Sequences

CONSTANTS
    RuleIds,
    Kinds,       \* kinds of changes: the event types in WATCHED
    On,          \* [RuleIds -> Kinds]: the rule's trigger
    Does,        \* [RuleIds -> Kinds]: the change its action makes
    AiStep,      \* the rules that also queue an AI step, which makes it again
    Workers,     \* runs of the job run_ai_steps
    MaxDepth,    \* MAX_DEPTH
    MaxActions,  \* MAX_ACTIONS_PER_MINUTE
    Batch,       \* events in one batch of the executor
    MaxPeople,   \* bound: changes by people
    MaxFaults    \* bound: crashes, rules disabled, uses of the kill switch

ASSUME RulesAssumption ==
    /\ On \in [RuleIds -> Kinds] /\ Does \in [RuleIds -> Kinds]
    /\ AiStep \subseteq RuleIds
    /\ MaxDepth \in Nat \ {0} /\ MaxActions \in Nat /\ Batch \in Nat \ {0}
    /\ MaxPeople \in Nat /\ MaxFaults \in Nat

VARIABLES
    events,   \* the outbox: [kind, depth, by, state]; by is the run or the step that caused it
    cursor,   \* last_event_id of the consumer "rules"
    runs,     \* rule_runs: [rule, ev, status]
    used,     \* actions run in the last minute
    steps,    \* rule_ai_steps: [kind, depth, by, status]
    applied,  \* history: how often the writes of each step were committed
    rule,     \* "absent", "on" or "off"
    since,    \* events there were when the rule was created
    on,       \* settings.rules_enabled
    work,     \* the open run of the executor: None, or what it has not committed
    claimed,  \* per worker: steps it has claimed and not run
    doing,    \* per worker: the step it runs, or 0
    people,   \* changes made by people
    faults,
    passed    \* history: events the kill switch dropped

stepVars == <<steps, applied, claimed, doing>>
vars == <<events, cursor, runs, used, steps, applied, rule, since, on, work,
          claimed, doing, people, faults, passed>>

None   == [open |-> FALSE]
Person == <<>>
Ids    == DOMAIN events

TypeOK ==
    /\ \A i \in Ids : /\ events[i].kind \in Kinds
                      /\ events[i].depth \in 0 .. MaxDepth
                      /\ events[i].state \in {"mine", "seen", "gone"}
    /\ cursor \in 0 .. Len(events)
    /\ \A i \in DOMAIN runs : /\ runs[i].rule \in RuleIds /\ runs[i].ev \in Ids
                              /\ runs[i].status \in {"success", "skipped", "failed"}
    /\ used \in 0 .. MaxActions
    /\ \A i \in DOMAIN steps : /\ steps[i].depth \in 1 .. MaxDepth
                               /\ steps[i].status \in
                                    {"mine", "queued", "running", "done", "failed", "gone"}
    /\ DOMAIN applied = DOMAIN steps
    /\ rule \in [RuleIds -> {"absent", "on", "off"}]
    /\ on \in BOOLEAN /\ people \in 0 .. MaxPeople /\ faults \in 0 .. MaxFaults

Init ==
    /\ events = <<>> /\ cursor = 0 /\ runs = <<>> /\ used = 0
    /\ steps = <<>> /\ applied = <<>>
    /\ rule = [r \in RuleIds |-> "absent"] /\ since = [r \in RuleIds |-> 0]
    /\ on = TRUE /\ work = None
    /\ claimed = [w \in Workers |-> {}] /\ doing = [w \in Workers |-> 0]
    /\ people = 0 /\ faults = 0 /\ passed = {}

Event(k, d, by, s) == [kind |-> k, depth |-> d, by |-> by, state |-> s]

-----------------------------------------------------------------------------
(* People.                                                                    *)

Change(k) ==
    /\ people < MaxPeople /\ people' = people + 1
    /\ events' = Append(events, Event(k, 0, Person, "seen"))
    /\ UNCHANGED <<cursor, runs, used, stepVars, rule, since, on, work, faults, passed>>

CreateRule(r) ==
    /\ rule[r] = "absent"
    /\ rule' = [rule EXCEPT ![r] = "on"] /\ since' = [since EXCEPT ![r] = Len(events)]
    /\ UNCHANGED <<events, cursor, runs, used, stepVars, on, work, people, faults, passed>>

DisableRule(r) ==
    /\ rule[r] = "on" /\ rule' = [rule EXCEPT ![r] = "off"]
    /\ faults < MaxFaults /\ faults' = faults + 1
    /\ UNCHANGED <<events, cursor, runs, used, stepVars, since, on, work, people, passed>>

KillSwitch ==
    /\ on => faults < MaxFaults
    /\ faults' = IF on THEN faults + 1 ELSE faults
    /\ on' = ~on
    /\ UNCHANGED <<events, cursor, runs, used, stepVars, rule, since, work, people, passed>>

-----------------------------------------------------------------------------
(* The executor: run_rules.                                                   *)

\* The cursor is locked; with the kill switch off everything so far is passed.
StartRun ==
    /\ work = None /\ \E i \in Ids : i > cursor /\ events[i].state = "seen"
    /\ IF on
       THEN /\ work' = [open |-> TRUE, cursor |-> cursor, todo |-> {}, rules |-> {},
                        runs |-> <<>>, used |-> used]
            /\ UNCHANGED <<cursor, passed>>
       ELSE /\ cursor' = Len(events) /\ passed' = passed \cup {i \in Ids : i > cursor}
            /\ UNCHANGED work
    /\ UNCHANGED <<events, runs, used, stepVars, rule, since, on, people, faults>>

\* The next events by id, and the rules as they are now.
ReadBatch ==
    LET next == {i \in Ids : i > work.cursor /\ events[i].state # "gone"}
    IN  /\ work.open /\ work.todo = {} /\ next # {}
        /\ \E B \in SUBSET next :
            /\ B # {}
            /\ Cardinality(B) = Batch \/ (B = next /\ Cardinality(B) < Batch)
            /\ \A i \in B, j \in next : j < i => j \in B
            /\ work' = [work EXCEPT !.todo = B, !.rules = {r \in RuleIds : rule[r] = "on"}]
        /\ UNCHANGED <<events, cursor, runs, used, stepVars, rule, since, on, people, faults, passed>>

\* _handle: rules that are older than the event, match it and have not run for
\* it; i is the event at hand.
Matching(i) ==
    {r \in work.rules : /\ since[r] < i /\ On[r] = events[i].kind
                        /\ \A j \in DOMAIN work.runs : work.runs[j].rule # r \/ work.runs[j].ev # i
                        /\ \A j \in DOMAIN runs : runs[j].rule # r \/ runs[j].ev # i}
AtHand(i) == work.open /\ i \in work.todo /\ \A j \in work.todo : i <= j

Cost(r) == IF r \in AiStep THEN 2 ELSE 1

Record(r, i, status, cost) ==
    work' = [work EXCEPT !.runs = Append(@, [rule |-> r, ev |-> i, status |-> status]),
                         !.used = @ + cost]

\* _fire: too deep, or too many actions this minute
Skipped(r, i) ==
    /\ AtHand(i) /\ r \in Matching(i)
    /\ events[i].depth >= MaxDepth \/ work.used + Cost(r) > MaxActions
    /\ Record(r, i, "skipped", 0)
    /\ UNCHANGED <<events, cursor, runs, used, stepVars, rule, since, on, people, faults, passed>>

\* Faulty variant: no savepoint, a run that fails keeps what it did before.
FireHalf(r, i) ==
    /\ AtHand(i) /\ r \in Matching(i)
    /\ events[i].depth < MaxDepth /\ work.used + Cost(r) <= MaxActions
    /\ \E status \in {"success", "failed"} :
        /\ Record(r, i, status, IF status = "success" THEN Cost(r) ELSE 0)
        /\ events' = Append(events, Event(Does[r], events[i].depth + 1, <<r, i>>, "mine"))
        /\ UNCHANGED <<steps, applied>>
    /\ UNCHANGED <<cursor, runs, used, rule, since, on, claimed, doing, people, faults, passed>>

\* Faulty variant: a change made by a rule carries the depth of its trigger,
\* so the limit is noticed one rule too late.
FireDeep(r, i) ==
    /\ AtHand(i) /\ r \in Matching(i)
    /\ events[i].depth <= MaxDepth /\ work.used + Cost(r) <= MaxActions
    /\ Record(r, i, "success", Cost(r))
    /\ events' = Append(events, Event(Does[r], events[i].depth + 1, <<r, i>>, "mine"))
    /\ UNCHANGED <<cursor, runs, used, stepVars, rule, since, on, people, faults, passed>>

\* _fire: all its actions, or none when one of them fails
Fire(r, i) ==
    /\ AtHand(i) /\ r \in Matching(i)
    /\ events[i].depth < MaxDepth /\ work.used + Cost(r) <= MaxActions
    /\ \/ /\ Record(r, i, "success", Cost(r))
          /\ events' = Append(events, Event(Does[r], events[i].depth + 1, <<r, i>>, "mine"))
          /\ IF r \in AiStep
             THEN /\ steps' = Append(steps, [kind |-> Does[r], depth |-> events[i].depth + 1,
                                             by |-> <<r, i>>, status |-> "mine"])
                  /\ applied' = Append(applied, 0)
             ELSE UNCHANGED <<steps, applied>>
       \/ Record(r, i, "failed", 0) /\ UNCHANGED <<events, steps, applied>>
    /\ UNCHANGED <<cursor, runs, used, rule, since, on, claimed, doing, people, faults, passed>>

Advance(i) ==
    /\ AtHand(i) /\ Matching(i) = {}
    /\ work' = [work EXCEPT !.todo = @ \ {i}, !.cursor = i]
    /\ UNCHANGED <<events, cursor, runs, used, stepVars, rule, since, on, people, faults, passed>>

\* The run's own rows get the status s.
Settle(S, f, s) == [i \in DOMAIN S |-> IF S[i][f] = "mine" THEN [S[i] EXCEPT ![f] = s] ELSE S[i]]

\* Caught up, or out of batches.
CommitRun ==
    /\ work.open /\ work.todo = {} /\ work.cursor > cursor
    /\ cursor' = work.cursor /\ runs' = runs \o work.runs
    /\ used' = IF work.used >= used THEN work.used ELSE used
    /\ events' = Settle(events, "state", "seen") /\ steps' = Settle(steps, "status", "queued")
    /\ work' = None
    /\ UNCHANGED <<applied, rule, since, on, claimed, doing, people, faults, passed>>

CrashRun ==
    /\ work.open /\ faults < MaxFaults /\ faults' = faults + 1
    /\ events' = Settle(events, "state", "gone") /\ steps' = Settle(steps, "status", "gone")
    /\ work' = None
    /\ UNCHANGED <<cursor, runs, used, applied, rule, since, on, claimed, doing, people, passed>>

\* A minute goes by without a run.
Minute ==
    /\ work = None /\ used > 0 /\ used' = 0
    /\ UNCHANGED <<events, cursor, runs, stepVars, rule, since, on, work, people, faults, passed>>

-----------------------------------------------------------------------------
(* The AI queue.                                                              *)

\* Faulty variant: a step that has not finished in time is done again.
ClaimAgain(w) ==
    /\ claimed[w] = {} /\ doing[w] = 0
    /\ \E i \in DOMAIN steps :
        /\ steps[i].status \in {"queued", "running"}
        /\ steps' = [steps EXCEPT ![i].status = "running"]
        /\ claimed' = [claimed EXCEPT ![w] = {i}]
    /\ UNCHANGED <<events, cursor, runs, used, applied, rule, since, on, work, doing, people, faults, passed>>

\* claim_steps, committed at once
Claim(w) ==
    /\ claimed[w] = {} /\ doing[w] = 0
    /\ LET Q == {i \in DOMAIN steps : steps[i].status = "queued"}
       IN  /\ Q # {}
           /\ steps' = [i \in DOMAIN steps |->
                            IF i \in Q THEN [steps[i] EXCEPT !.status = "running"] ELSE steps[i]]
           /\ claimed' = [claimed EXCEPT ![w] = Q]
    /\ UNCHANGED <<events, cursor, runs, used, applied, rule, since, on, work, doing, people, faults, passed>>

\* Faulty variant: a step of a dead worker is left as it is.
TimeOutNever(i) == FALSE /\ UNCHANGED vars

\* claim_steps: a step that has been running for too long has failed, also
\* when its worker is still at it or has not come to it yet.
TimeOut(i) ==
    /\ steps[i].status = "running"
    /\ steps' = [steps EXCEPT ![i].status = "failed"]
    /\ UNCHANGED <<events, cursor, runs, used, applied, rule, since, on, work, claimed, doing, people, faults, passed>>

\* run_step: skipped unless it is still running
Take(w) ==
    /\ doing[w] = 0
    /\ \E i \in claimed[w] :
        /\ claimed' = [claimed EXCEPT ![w] = @ \ {i}]
        /\ doing' = [doing EXCEPT ![w] = IF steps[i].status = "running" THEN i ELSE 0]
    /\ UNCHANGED <<events, cursor, runs, used, steps, applied, rule, since, on, work, people, faults, passed>>

\* Its writes and its outcome commit together, whatever became of it meanwhile.
Finish(w) ==
    LET i == doing[w] IN
    /\ i # 0
    /\ doing' = [doing EXCEPT ![w] = 0]
    /\ \/ /\ steps' = [steps EXCEPT ![i].status = "done"]
          /\ events' = Append(events, Event(steps[i].kind, steps[i].depth, <<i>>, "seen"))
          /\ applied' = [applied EXCEPT ![i] = @ + 1]
       \/ /\ steps' = [steps EXCEPT ![i].status = "failed"]
          /\ UNCHANGED <<events, applied>>
    /\ UNCHANGED <<cursor, runs, used, rule, since, on, work, claimed, people, faults, passed>>

CrashWorker(w) ==
    /\ claimed[w] # {} \/ doing[w] # 0
    /\ faults < MaxFaults /\ faults' = faults + 1
    /\ claimed' = [claimed EXCEPT ![w] = {}] /\ doing' = [doing EXCEPT ![w] = 0]
    /\ UNCHANGED <<events, cursor, runs, used, steps, applied, rule, since, on, work, people, passed>>

-----------------------------------------------------------------------------
Handle == \E i \in Ids : Advance(i) \/ \E r \in RuleIds : Skipped(r, i) \/ Fire(r, i)
Executor == StartRun \/ ReadBatch \/ Handle \/ CommitRun
Worker(w) == Claim(w) \/ Take(w) \/ Finish(w)

Next ==
    \/ \E k \in Kinds : Change(k)
    \/ \E r \in RuleIds : CreateRule(r) \/ DisableRule(r)
    \/ KillSwitch \/ Executor \/ CrashRun \/ Minute
    \/ \E w \in Workers : Worker(w) \/ CrashWorker(w)
    \/ \E i \in DOMAIN steps : TimeOut(i)

Spec == Init /\ [][Next]_vars

\* Both jobs start every minute, so a running one goes on or is gone, and a
\* step that has been running for 15 minutes is found.
FairSpec ==
    /\ Spec /\ WF_vars(Executor)
    /\ \A w \in Workers : WF_vars(Worker(w))
    /\ WF_vars(\E i \in DOMAIN steps : TimeOut(i))

-----------------------------------------------------------------------------
(* Properties.                                                                *)

RunsOf(r, i)   == {j \in DOMAIN runs : runs[j].rule = r /\ runs[j].ev = i}
CausedBy(r, i) == {j \in Ids : events[j].by = <<r, i>> /\ events[j].state = "seen"}
StepsOf(r, i)  == {j \in DOMAIN steps : steps[j].by = <<r, i>> /\ steps[j].status \notin {"mine", "gone"}}

\* A rule runs exactly once for every event it should, however runs crash and
\* start again, and never for one older than itself or dropped by the kill
\* switch; and a run has made all its changes or, unless it succeeded, none.
RunsExact ==
    \A i \in Ids, r \in RuleIds : events[i].state = "seen" =>
        LET R == RunsOf(r, i)
            due == rule[r] = "on" /\ since[r] < i /\ On[r] = events[i].kind /\ i \notin passed
            won == \E j \in R : runs[j].status = "success"
        IN  /\ Cardinality(R) <= 1
            /\ (i <= cursor /\ due) => R # {}
            /\ (since[r] >= i \/ i \in passed \/ i > cursor) => R = {}
            /\ Cardinality(CausedBy(r, i)) = IF won THEN 1 ELSE 0
            /\ Cardinality(StepsOf(r, i)) = IF won /\ r \in AiStep THEN 1 ELSE 0

\* The writes of an AI step are committed exactly once if it is done, and not at
\* all otherwise, also when it timed out and its slow worker still finished.
StepOnce ==
    \A i \in DOMAIN steps :
        applied[i] = IF steps[i].status = "done" THEN 1 ELSE 0

\* Rules that set each other off come to rest: when people stop, a time comes
\* from which no event waits for the executor and no step is unfinished.
ComesToRest ==
    <>[](/\ ~work.open /\ \A i \in Ids : i > cursor => events[i].state = "gone"
         /\ \A i \in DOMAIN steps : steps[i].status \in {"done", "failed", "gone"})
=============================================================================
