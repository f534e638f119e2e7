------------------------------ MODULE TaskGraph ------------------------------
(* The life of tasks and the dependencies between them: what                  *)
(* domain/tasks/service.py does to the rows of tasks and task_dependencies,   *)
(* what core/undo.py does when a change is taken back, and the nightly scan   *)
(* for recurring tasks (domain/tasks/recurrence_scan.py).                     *)
(*                                                                            *)
(* A request is one transaction at READ COMMITTED with no explicit lock:      *)
(*   Begin   it loads the task and checks what it checks;                     *)
(*   Flush   record_activity flushes: its row is written, hence locked, and   *)
(*           what the code reads after that is read now;                      *)
(*   Commit  everything it wrote becomes visible.                             *)
(* A write replaces the columns that differ from what the request loaded, and *)
(* sets version to the version it loaded plus one.                            *)
(*                                                                            *)
(* Tasks here are tasks everyone involved may edit; who may do what, the 24   *)
(* hours an undo has, and all other columns are left out.                     *)
EXTENDS Integers, FiniteSets, Sequences

CONSTANTS
    Tasks,
    Requests,    \* requests that may be open at the same time
    Titles,      \* values of a field that people edit
    Untitled,    \* its value at first
    MaxChanges   \* bound: changes in the activity log

ASSUME TaskAssumption == Untitled \in Titles /\ MaxChanges \in Nat

VARIABLES
    row,    \* tasks
    deps,   \* task_dependencies: <<t, u>> when t waits for u
    kids,   \* how many next occurrences each task has (recurrence_parent_id)
    log,    \* activity rows with an undo payload
    told,   \* the task.unblocked events of the last commit
    req,    \* the open requests
    scan,   \* the tasks whose next occurrence the open scan has inserted
    raced   \* history: what overlapping requests have done to each other

vars == <<row, deps, kids, log, told, req, scan, raced>>

Modes  == {"on_complete", "on_schedule"}
Fields == {"done", "dead", "type", "verdict", "title", "mode", "version"}
Rows   == [done: BOOLEAN,       \* completed_at
           dead: BOOLEAN,       \* deleted_at
           type: {"task", "approval"},
           verdict: {"none", "pending", "approved", "rejected"},  \* approval_state
           title: Titles, mode: Modes, version: Nat]
Ops    == {"complete", "reopen", "decide", "reconsider", "convert", "edit",
           "delete", "restore", "link", "unlink", "skip"}

TypeOK ==
    /\ row \in [Tasks -> Rows]
    /\ deps \subseteq Tasks \X Tasks
    /\ kids \in [Tasks -> Nat]
    /\ told \subseteq Tasks /\ scan \subseteq Tasks
    /\ raced \subseteq {"link", "row", "mode"}
    /\ \A r \in Requests : req[r].stage # "idle" =>
        /\ req[r].op \in Ops /\ req[r].stage \in {"begun", "flushed"}
        /\ req[r].undoes \in 0 .. Len(log)
        /\ req[r].spawn \subseteq Tasks /\ req[r].tell \subseteq Tasks

NoPatch == [f \in {} |-> TRUE]
Idle    == [stage |-> "idle"]
Busy(r) == req[r].stage # "idle"

IsOpen(t)  == ~row[t].done /\ ~row[t].dead
\* _has_incomplete_blockers
Blocked(t) == \E u \in Tasks : <<t, u>> \in deps /\ IsOpen(u)

\* The chain of blockers of u, u itself included, has t in it.
Reaches(D, u, t) ==
    \A S \in SUBSET Tasks :
        (u \in S /\ \A e \in D : e[1] \in S => e[2] \in S) => t \in S

Acyclic(D) ==
    \A S \in (SUBSET Tasks) \ {{}} : \E t \in S : \A u \in S : <<t, u>> \notin D

Init ==
    /\ \E A \in SUBSET Tasks : Cardinality(A) <= 1 /\
        row = [t \in Tasks |->
            [done |-> FALSE, dead |-> FALSE,
             type |-> IF t \in A THEN "approval" ELSE "task",
             verdict |-> IF t \in A THEN "pending" ELSE "none",
             title |-> Untitled, mode |-> "on_complete", version |-> 0]]
    /\ deps \in {D \in SUBSET (Tasks \X Tasks) : Acyclic(D)}
    /\ kids = [t \in Tasks |-> 0]
    /\ log = <<>> /\ told = {} /\ scan = {} /\ raced = {}
    /\ req = [r \in Requests |-> Idle]

-----------------------------------------------------------------------------
(* Begin: one operator per service function.  e is the entry of the log that  *)
(* the request undoes, 0 for a request of its own.                            *)

\* p is what the service assigns; only what differs from the row is written.
Start(r, op, t, u, p, e) ==
    LET changed == {f \in DOMAIN p : p[f] # row[t][f]}
        patch   == IF DOMAIN p = {} THEN p
                   ELSE [f \in changed \cup {"version"} |->
                            IF f = "version" THEN row[t].version + 1 ELSE p[f]]
    IN  /\ req' = [req EXCEPT ![r] =
                    [stage |-> "begun", op |-> op, t |-> t, u |-> u, patch |-> patch,
                     saw |-> row[t], undoes |-> e, spawn |-> {}, tell |-> {},
                     linked |-> FALSE, late |-> FALSE]]
        /\ UNCHANGED <<row, deps, kids, log, told, scan, raced>>

\* The service finds nothing to do; only an undo goes on, to mark its entry.
Skip(r, t, e) == e # 0 /\ Start(r, "skip", t, t, NoPatch, e)

SetCompleted(r, t, v, force, e) ==
    /\ ~row[t].dead
    /\ \/ row[t].done = v /\ Skip(r, t, e)
       \/ /\ row[t].done # v
          /\ v /\ ~force => ~Blocked(t)
          /\ Start(r, IF v THEN "complete" ELSE "reopen", t, t, [done |-> v], e)

\* decide_approval.  Approving completes the task too.
Decide(r, t, v) ==
    /\ ~row[t].dead /\ row[t].type = "approval" /\ row[t].verdict = "pending"
    /\ v \in {"approved", "rejected"}
    /\ Start(r, "decide", t, t,
             IF v = "approved" THEN [verdict |-> v, done |-> TRUE] ELSE [verdict |-> v], 0)

\* Faulty variant: undoing a decision always reopens the task.
ReopenUndecided(r, t, was, e) ==
    /\ ~row[t].dead
    /\ Start(r, "reconsider", t, t, [verdict |-> "pending", done |-> FALSE], e)

\* _undo_decide_approval; was is previous_completed_at.
Reconsider(r, t, was, e) ==
    /\ ~row[t].dead
    /\ Start(r, "reconsider", t, t, [verdict |-> "pending", done |-> was], e)

\* v is restore_approval_state.
Convert(r, t, ty, v, e) ==
    /\ ~row[t].dead
    /\ \/ row[t].type = ty /\ Skip(r, t, e)
       \/ /\ row[t].type # ty
          /\ Start(r, "convert", t, t,
                   [type |-> ty, verdict |-> IF ty = "task" THEN "none"
                                             ELSE IF v = "none" THEN "pending" ELSE v], e)

\* update_task, for a title (any plain field) or the recurrence.
Edit(r, t, p, e) ==
    /\ ~row[t].dead
    /\ \/ (\A f \in DOMAIN p : p[f] = row[t][f]) /\ Skip(r, t, e)
       \/ (\E f \in DOMAIN p : p[f] # row[t][f]) /\ Start(r, "edit", t, t, p, e)

Delete(r, t)     == ~row[t].dead /\ Start(r, "delete", t, t, [dead |-> TRUE], 0)
Restore(r, t, e) == Start(r, "restore", t, t, [dead |-> FALSE], e)

\* Faulty variant: the check looks at the blocker's own blockers only.
LinkNearby(r, t, u, e) ==
    /\ t # u /\ ~row[t].dead /\ ~row[u].dead
    /\ <<t, u>> \notin deps /\ <<u, t>> \notin deps
    /\ Start(r, "link", t, u, NoPatch, e)

\* add_dependency
Link(r, t, u, e) ==
    /\ t # u /\ ~row[t].dead /\ ~row[u].dead
    /\ <<t, u>> \notin deps /\ ~Reaches(deps, u, t)
    /\ Start(r, "link", t, u, NoPatch, e)

\* remove_dependency
Unlink(r, t, u, e) ==
    /\ ~row[t].dead /\ <<t, u>> \in deps
    /\ Start(r, "unlink", t, u, NoPatch, e)

Ask(r) ==
    /\ ~Busy(r)
    /\ Len(log) + Cardinality({s \in Requests : Busy(s) /\ req[s].undoes = 0}) < MaxChanges
    /\ \E t \in Tasks :
        \/ \E v, force \in BOOLEAN : SetCompleted(r, t, v, force, 0)
        \/ \E v \in {"approved", "rejected"} : Decide(r, t, v)
        \/ \E ty \in {"task", "approval"} : Convert(r, t, ty, "none", 0)
        \/ \E x \in Titles : Edit(r, t, [title |-> x], 0)
        \/ \E x \in Modes : Edit(r, t, [mode |-> x], 0)
        \/ Delete(r, t)
        \/ \E u \in Tasks : Link(r, t, u, 0) \/ Unlink(r, t, u, 0)

\* core/undo.py: the inverse operation that the entry's payload names.
Undo(r) ==
    /\ ~Busy(r)
    /\ \E e \in 1 .. Len(log) : LET c == log[e] IN
        /\ ~c.undone
        /\ \/ c.op = "complete" /\ SetCompleted(r, c.t, FALSE, TRUE, e)
           \/ c.op = "reopen" /\ SetCompleted(r, c.t, TRUE, TRUE, e)
           \/ c.op = "decide" /\ Reconsider(r, c.t, c.saw.done, e)
           \/ c.op = "convert" /\ Convert(r, c.t, c.saw.type, c.saw.verdict, e)
           \/ /\ c.op = "edit" /\ row[c.t].version = c.patch.version
              /\ Edit(r, c.t, [f \in DOMAIN c.patch \ {"version"} |-> c.saw[f]], e)
           \/ c.op = "delete" /\ Restore(r, c.t, e)
           \/ c.op = "link" /\ Unlink(r, c.t, c.u, e)
           \/ c.op = "unlink" /\ Link(r, c.t, c.u, e)

-----------------------------------------------------------------------------
(* Flush and Commit.                                                          *)

\* Two requests write the same row of tasks, or of task_dependencies.
Clash(p, q) ==
    \/ p.patch # NoPatch /\ q.patch # NoPatch /\ p.t = q.t
    \/ p.op \in {"link", "unlink"} /\ q.op \in {"link", "unlink"} /\ <<p.t, p.u>> = <<q.t, q.u>>

\* Faulty variant: the tasks that wait for t, whatever else they wait for.
ReadyAny(t) == {u \in Tasks : <<u, t>> \in deps /\ IsOpen(u)}

\* _hand_off: who waits for t, and for no other open task.
Ready(t) ==
    {u \in Tasks : /\ <<u, t>> \in deps /\ IsOpen(u)
                   /\ \A w \in Tasks : <<u, w>> \in deps /\ w # t => ~IsOpen(w)}

\* Faulty variant: the next occurrence is inserted without a look.
OccurrenceAlways(q) == IF q.op = "complete" /\ q.saw.mode = "on_complete" THEN {q.t} ELSE {}

\* spawn_next_occurrence, called by set_completed: none exists yet.
NextOccurrence(q) ==
    IF q.op = "complete" /\ q.saw.mode = "on_complete" /\ kids[q.t] = 0 THEN {q.t} ELSE {}

Flush(r) ==
    LET q == req[r] IN
    /\ q.stage = "begun"
    /\ \A s \in Requests \ {r} : req[s].stage = "flushed" => ~Clash(q, req[s])
    /\ q.op = "link" => <<q.t, q.u>> \notin deps
    /\ req' = [req EXCEPT ![r] =
                [q EXCEPT !.stage = "flushed", !.spawn = NextOccurrence(q),
                          !.tell = IF q.op = "complete" THEN Ready(q.t) ELSE {}]]
    /\ UNCHANGED <<row, deps, kids, log, told, scan, raced>>

\* What the commit of q overtakes or is overtaken by.
Races(r, q) ==
    {x \in {"link", "row", "mode"} :
        \/ x = "link" /\ q.op = "link" /\ q.linked
        \/ x = "row" /\ q.patch # NoPatch /\ row[q.t].version # q.saw.version
        \/ /\ x = "mode" /\ "mode" \in DOMAIN q.patch
           /\ scan # {} \/ \E s \in Requests \ {r} : Busy(s)}

Commit(r) ==
    LET q == req[r] IN
    /\ q.stage = "flushed"
    /\ row' = [row EXCEPT ![q.t] = [f \in Fields |->
                IF f \in DOMAIN q.patch THEN q.patch[f] ELSE row[q.t][f]]]
    /\ deps' = IF q.op = "link" THEN deps \cup {<<q.t, q.u>>}
               ELSE IF q.op = "unlink" THEN deps \ {<<q.t, q.u>>} ELSE deps
    /\ kids' = [t \in Tasks |-> IF t \in q.spawn THEN kids[t] + 1 ELSE kids[t]]
    /\ told' = q.tell
    /\ log' = IF q.undoes # 0 THEN [log EXCEPT ![q.undoes].undone = TRUE]
              ELSE Append(log, [op |-> q.op, t |-> q.t, u |-> q.u, patch |-> q.patch,
                                saw |-> q.saw, undone |-> FALSE])
    /\ raced' = raced \cup Races(r, q)
    /\ req' = [s \in Requests |->
                IF s = r THEN Idle
                ELSE IF Busy(s) THEN [req[s] EXCEPT !.linked = @ \/ q.op = "link",
                                                    !.late = @ \/ req[s].stage = "flushed"]
                ELSE req[s]]
    /\ UNCHANGED scan

\* The request fails, or its process dies.
Abort(r) ==
    /\ Busy(r) /\ req' = [req EXCEPT ![r] = Idle]
    /\ UNCHANGED <<row, deps, kids, log, told, scan, raced>>

\* scan_scheduled_recurrences, every due task in one transaction.
Scan ==
    /\ scan = {}
    /\ scan' = {t \in Tasks : row[t].mode = "on_schedule" /\ ~row[t].dead /\ kids[t] = 0}
    /\ scan' # {}
    /\ UNCHANGED <<row, deps, kids, log, told, req, raced>>

ScanCommit ==
    /\ scan # {} /\ scan' = {}
    /\ kids' = [t \in Tasks |-> IF t \in scan THEN kids[t] + 1 ELSE kids[t]]
    /\ UNCHANGED <<row, deps, log, told, req, raced>>

Next ==
    \/ \E r \in Requests : Ask(r) \/ Undo(r) \/ Flush(r) \/ Commit(r) \/ Abort(r)
    \/ Scan \/ ScanCommit

Spec == Init /\ [][Next]_vars

-----------------------------------------------------------------------------
(* Properties.                                                                *)

\* No chain of blockers returns to its start, through any number of links,
\* unlinks and undos of either, as long as no two requests have overlapped that
\* both added a link (_would_cycle looks before the insert, with no lock).
NoCycle == "link" \in raced \/ Acyclic(deps)

\* A task has at most one next occurrence, however often it is completed,
\* reopened, undone and scanned, by requests that overlap in any way; the one
\* proviso is that its recurrence is not edited under an open request.
OneOccurrence == "mode" \in raced \/ \A t \in Tasks : kids[t] <= 1

\* The commit of a completion tells exactly the tasks that are free to start
\* now: those that waited for this task and wait for nothing open any more.
\* (If another request commits between its look and its commit, two completions
\* may each see the other's task open, and nobody is told.)
HandOffReaches ==
    [][\A r \in Requests :
        (req[r].stage = "flushed" /\ req[r].op = "complete" /\ ~req[r].late
            /\ req'[r].stage = "idle" /\ ~row[req[r].t].done /\ row'[req[r].t].done)
        => told' = {u \in Tasks : <<u, req[r].t>> \in deps' /\ (IsOpen(u) /\ ~Blocked(u))'}]_vars

\* A row says a decision exactly when the task is an approval.
Proper(w) == w.type = "approval" <=> w.verdict # "none"

\* Undoing a change to a task that is as the change left it puts the task back
\* as it was before; undoing a link or its removal reverses it; and an edit is
\* undone only while its fields hold what it wrote.  All of it as long as no two
\* requests have written over each other (version is compared, not locked).
\* One case is not so, and is left out by Proper: undoing a decision on a task
\* that is no longer an approval leaves it pending all the same
\* (_undo_decide_approval does not look at the type), and converting that task
\* and undoing the conversion clears what it found.
UndoSound ==
    [][\A e \in 1 .. Len(log) : LET c == log[e] IN
        (~c.undone /\ log'[e].undone /\ "row" \notin raced') =>
        /\ c.patch # NoPatch /\ Proper(c.saw) /\ row[c.t].version = c.patch.version =>
            \A f \in Fields \ {"version"} : row'[c.t][f] = c.saw[f]
        /\ c.op = "link" => <<c.t, c.u>> \notin deps'
        /\ c.op = "unlink" => <<c.t, c.u>> \in deps'
        /\ c.op = "edit" => \A f \in DOMAIN c.patch : row[c.t][f] = c.patch[f]]_vars
=============================================================================
